---------------------------- MODULE DataFoundation ----------------------------
(* The data of the smoke experiment: scripts/prepare_smoke_data.py downloads  *)
(* one raw file under a lock, describes it in a source manifest, derives the  *)
(* processed tables, their manifest, the frozen assignment of rows to splits  *)
(* and its manifest, records the stage and repeats everything offline;        *)
(* scripts/audit_data_foundation.py judges afterwards what is on disk.        *)
(*                                                                            *)
(* Only the acquisition is locked.  Several programs may run at once and each *)
(* may die at any step; an operator may change files while none runs, and the *)
(* provider may change what it serves: MaxTrouble such events in all.  A      *)
(* version of the raw file stands for its bytes and for every table computed  *)
(* from them, and a file's contents stand for its checksum.                   *)
EXTENDS FoldSelection

CONSTANTS
  Programs,     \* slots for concurrent programs
  Invocations,  \* the flags prepare_smoke_data.py is started with
  Versions,     \* versions of the raw file
  Sound,        \* those that pass validate_source_table
  TableOf,      \* the rows of each version, as FoldSelection has them
  Recorded,     \* the version whose SHA-256 is written into the audit
  MaxStarts,    \* bound: programs started
  MaxTrouble,   \* bound: deaths, changes by the operator or the provider
  None          \* no file, no value

ASSUME DataFoundationAssumption ==
  /\ None \notin Programs /\ None \notin Versions
  /\ Invocations \subseteq SUBSET {"offline", "validate_only", "force"}
  /\ Sound \subseteq Versions /\ Recorded \in Sound
  /\ DOMAIN TableOf = Versions
  /\ MaxStarts \in Nat /\ MaxTrouble \in Nat

VARIABLES
  disk,      \* the files both programs share
  run,       \* what each program knows and where it is
  provider,  \* what OpenML serves: a version, its checksum if it has one, and
             \* whether the metadata still are those of the frozen dataset
  lock,      \* the holder of data/cache/openml_1464.lock
  starts,    \* programs started so far; also the time a manifest carries
  trouble    \* deaths, and anything else of what may happen

vars == <<disk, run, provider, lock, starts, trouble>>

-----------------------------------------------------------------------------
(* Files and programs.                                                        *)

SourceManifests == [describes : Versions, provider : Versions \cup {None}, stamp : 1..MaxStarts]
DataManifests == [raw : Versions, source : SourceManifests,
                  features : Versions, targets : Versions, schema : Versions]
SplitManifests == [assignments : Versions, data : DataManifests, stamp : 1..MaxStarts]

\* What says that there is no file is none of the files.
ASSUME FilesAssumption ==
  /\ None \notin SourceManifests /\ None \notin DataManifests /\ None \notin SplitManifests
  /\ None \notin {"PASS", "FAILED"}

\* schema is schema.json and label_mapping.json; summary is the validation
\* summary with its handoff; tmp the two split directories of the audit; parts
\* tells whether a temporary file of an interrupted write is left anywhere.
Processed == {"features", "targets", "schema", "dataManifest"}
NoFiles == [raw |-> None, metadata |-> None, source |-> None, quality |-> None,
            features |-> None, targets |-> None, schema |-> None, dataManifest |-> None,
            assignments |-> None, splitManifest |-> None,
            summary |-> None, stage |-> None, tmp |-> None, parts |-> FALSE]
Removable == {"raw", "source", "assignments", "splitManifest", "tmp"} \cup Processed

\* Target labels in the order of the rows, and the split of each version.
LabelsOf == [v \in Versions |-> [r \in DOMAIN TableOf[v] |-> TableOf[v][r].code]]
PairOf == [v \in Versions |-> SelectFoldAssignment(TableOf[v])]
SplitHolds ==
  [v \in Versions |-> /\ PairOf[v] # NoPair
                      /\ ValidateSplitAssignments(TableOf[v], Labels(TableOf[v], PairOf[v]))]
\* The version the audit expects can be split.
ASSUME RecordedAssumption == SplitHolds[Recorded]

CountsOf == [v \in Versions |-> [part \in Partitions |-> Size(TableOf[v], PairOf[v], part)]]
GroupAuditOf == [v \in Versions |-> GroupAudit(TableOf[v], Labels(TableOf[v], PairOf[v]))]

Missing(files) == \E f \in files : disk[f] = None

NoTables == [features |-> None, targets |-> None, manifest |-> None]
Idle == [pc |-> "idle", flags |-> {}, number |-> 0, again |-> FALSE, md5 |-> None,
         content |-> None, source |-> None, tables |-> NoTables, split |-> None,
         summary |-> None, first |-> None, cause |-> "none"]

Active(p) == run[p].pc # "idle"
At(p, pc) == run[p].pc = pc
Does(p, f) == run' = [run EXCEPT ![p] = f]
Goes(p, pc) == Does(p, [run[p] EXCEPT !.pc = pc])
Writes(f, content) == disk' = [disk EXCEPT ![f] = content]

\* Nothing is left of a program but, until it exits, its flags and the cause.
Left(p, pc, cause) == Does(p, [Idle EXCEPT !.pc = pc, !.flags = run[p].flags, !.cause = cause])
Fails(p, cause) == Left(p, "failing", cause)
Leaves(p, cause) == Left(p, "leaving", cause)

\* validate_only never reaches the network either, and the second run of a
\* program is offline and nothing else.
Flagged(p, flag) == flag \in run[p].flags /\ ~run[p].again
Offline(p) == run[p].again \/ run[p].flags \cap {"offline", "validate_only"} # {}

StartPreparation(p) ==
  /\ ~Active(p) /\ starts < MaxStarts
  /\ \E flags \in Invocations :
       Does(p, [Idle EXCEPT !.pc = "acquire", !.flags = flags, !.number = starts + 1])
  /\ starts' = starts + 1
  /\ UNCHANGED <<disk, provider, lock, trouble>>

-----------------------------------------------------------------------------
(* Acquisition, under the lock.                                               *)

CacheManifestIsValid == disk.source.describes = disk.raw

\* A validated hit is returned at once, an invalid cache is never repaired.
CheckCache(p) ==
  /\ At(p, "acquire") /\ lock = None
  /\ \/ /\ ~Missing({"raw", "source"}) /\ CacheManifestIsValid
        /\ Does(p, [run[p] EXCEPT !.pc = "validate", !.source = disk.source])
        /\ UNCHANGED lock
     \/ /\ ~Missing({"raw", "source"}) /\ ~CacheManifestIsValid
        /\ Fails(p, "integrity")
        /\ UNCHANGED lock
     \/ /\ Missing({"raw", "source"}) /\ Offline(p)
        /\ Fails(p, "offline")
        /\ UNCHANGED lock
     \/ /\ Missing({"raw", "source"}) /\ ~Offline(p)
        /\ Goes(p, "metadata")
        /\ lock' = p
  /\ UNCHANGED <<disk, provider, starts, trouble>>

LockTimesOut(p) ==
  /\ At(p, "acquire") /\ lock # None
  /\ Fails(p, "lock")
  /\ UNCHANGED <<disk, provider, lock, starts, trouble>>

\* Identifiers, name, target, status and format must be the frozen ones.
MetadataVerified == provider.frozen

\* The metadata are requested once; an older copy on disk is kept.
FetchMetadata(p) ==
  /\ At(p, "metadata")
  /\ \/ /\ MetadataVerified
        /\ Does(p, [run[p] EXCEPT !.pc = "stream", !.md5 = provider.md5])
        /\ IF disk.metadata = None THEN Writes("metadata", provider.content) ELSE UNCHANGED disk
        /\ UNCHANGED lock
     \/ /\ ~MetadataVerified
        /\ Fails(p, "integrity") /\ lock' = None /\ UNCHANGED disk
  /\ UNCHANGED <<provider, starts, trouble>>

\* Every attempt to download has failed, or the only request for metadata.
TransportFails(p) ==
  /\ run[p].pc \in {"metadata", "stream"}
  /\ Fails(p, "transport")
  /\ lock' = None
  /\ UNCHANGED <<disk, provider, starts, trouble>>

\* The bytes go to a temporary file and must have the checksum of the metadata.
Stream(p) ==
  /\ At(p, "stream")
  /\ IF run[p].md5 \in {None, provider.content}
     THEN /\ Does(p, [run[p] EXCEPT !.pc = "promote", !.content = provider.content])
          /\ UNCHANGED lock
     ELSE Fails(p, "integrity") /\ lock' = None
  /\ UNCHANGED <<disk, provider, starts, trouble>>

\* The mistakes of replacing a raw file that is there, and of trusting it.
FaultyPromoteReplacesRaw(p) ==
  /\ At(p, "promote")
  /\ Writes("raw", run[p].content) /\ Goes(p, "describe") /\ UNCHANGED lock
  /\ UNCHANGED <<provider, starts, trouble>>

FaultyPromoteKeepsAnyRaw(p) ==
  /\ At(p, "promote")
  /\ IF disk.raw = None THEN Writes("raw", run[p].content) ELSE UNCHANGED disk
  /\ Goes(p, "describe") /\ UNCHANGED lock
  /\ UNCHANGED <<provider, starts, trouble>>

\* A raw file that a dead program left behind must have the same bytes.
Promote(p) ==
  /\ At(p, "promote")
  /\ \/ disk.raw = None
        /\ Writes("raw", run[p].content) /\ Goes(p, "describe") /\ UNCHANGED lock
     \/ disk.raw = run[p].content
        /\ Goes(p, "describe") /\ UNCHANGED <<disk, lock>>
     \/ disk.raw \notin {None, run[p].content}
        /\ Fails(p, "integrity") /\ lock' = None /\ UNCHANGED disk
  /\ UNCHANGED <<provider, starts, trouble>>

WriteSource(p) ==
  /\ At(p, "describe")
  /\ LET manifest == [describes |-> disk.raw, provider |-> run[p].md5, stamp |-> run[p].number]
     IN /\ Writes("source", manifest)
        /\ Does(p, [run[p] EXCEPT !.pc = "validate", !.source = manifest,
                                  !.md5 = None, !.content = None])
  /\ lock' = None
  /\ UNCHANGED <<provider, starts, trouble>>

-----------------------------------------------------------------------------
(* Source validation and processed tables.                                    *)

\* An unsound file does not parse, or fails the validation.
Parses(p) == disk.raw \in Sound
SourceHolds(p) == disk.raw \in Sound

\* The quality report is written first with the checks of the source alone.
ValidateSource(p) ==
  /\ At(p, "validate")
  /\ \/ SourceHolds(p) /\ Writes("quality", "SOURCE_PASS") /\ Goes(p, "tables")
     \/ ~SourceHolds(p) /\ Writes("quality", "FAILED") /\ Fails(p, "source_validation")
     \/ ~Parses(p) /\ Fails(p, "parsing") /\ UNCHANGED disk
  /\ UNCHANGED <<provider, lock, starts, trouble>>

\* Load what is there, unless told to rebuild it; validate_only never builds.
ChooseTables(p) ==
  /\ At(p, "tables")
  /\ IF \/ Flagged(p, "validate_only")
        \/ disk.dataManifest # None /\ ~Flagged(p, "force")
     THEN Goes(p, "load_manifest")
     ELSE Goes(p, "features")
  /\ UNCHANGED <<disk, provider, lock, starts, trouble>>

\* The mistake of comparing the raw file only.
FaultyLoadManifest(p) ==
  /\ At(p, "load_manifest")
  /\ IF Missing(Processed) THEN Fails(p, "incomplete")
     ELSE IF disk.dataManifest.raw # run[p].source.describes THEN Fails(p, "stale")
     ELSE Goes(p, "load_tables")
  /\ UNCHANGED <<disk, provider, lock, starts, trouble>>

\* The recorded hashes of the tables themselves are not compared.
LoadManifest(p) ==
  /\ At(p, "load_manifest")
  /\ \/ Missing(Processed) /\ Fails(p, "incomplete")
     \/ /\ ~Missing(Processed)
        /\ IF /\ disk.dataManifest.raw = run[p].source.describes
              /\ disk.dataManifest.source = disk.source
           THEN Goes(p, "load_tables")
           ELSE Fails(p, "stale")
  /\ UNCHANGED <<disk, provider, lock, starts, trouble>>

Tables == [features |-> disk.features, targets |-> disk.targets, manifest |-> disk.dataManifest]

LoadTables(p) ==
  /\ At(p, "load_tables")
  /\ Does(p, [run[p] EXCEPT !.pc = "processed", !.tables = Tables])
  /\ UNCHANGED <<disk, provider, lock, starts, trouble>>

\* process_dataset computes everything from the raw file that was parsed, row
\* identifiers included, and writes one file after the other.
Writing == {"features", "targets", "schema"}
After == [features |-> "targets", targets |-> "schema", schema |-> "data_manifest"]

\* The tables are read back before the schema is written.
RoundTrips(p) == disk.features = run[p].source.describes /\ disk.targets = run[p].source.describes

\* The mistake of writing the manifest with the first table.
FaultyWriteTable(p) ==
  /\ \E f \in Writing :
       /\ At(p, f)
       /\ IF f = "schema" /\ ~RoundTrips(p)
          THEN Fails(p, "round_trip") /\ UNCHANGED disk
          ELSE /\ disk' = [disk EXCEPT ![f] = run[p].source.describes,
                            !.dataManifest = [raw |-> run[p].source.describes,
                              source |-> disk.source, features |-> run[p].source.describes,
                              targets |-> run[p].source.describes,
                              schema |-> run[p].source.describes]]
               /\ Goes(p, After[f])
  /\ UNCHANGED <<provider, lock, starts, trouble>>

WriteTable(p) ==
  /\ \E f \in Writing :
       /\ At(p, f)
       /\ IF f = "schema" /\ ~RoundTrips(p)
          THEN Fails(p, "round_trip") /\ UNCHANGED disk
          ELSE Writes(f, run[p].source.describes) /\ Goes(p, After[f])
  /\ UNCHANGED <<provider, lock, starts, trouble>>

WriteDataManifest(p) ==
  /\ At(p, "data_manifest")
  /\ LET manifest == [raw |-> run[p].source.describes, source |-> run[p].source,
                      features |-> disk.features, targets |-> disk.targets,
                      schema |-> disk.schema]
     IN /\ Writes("dataManifest", manifest)
        /\ Does(p, [run[p] EXCEPT !.pc = "processed",
                      !.tables = [features |-> run[p].source.describes,
                                  targets |-> run[p].source.describes, manifest |-> manifest]])
  /\ UNCHANGED <<provider, lock, starts, trouble>>

\* Feature values are not compared with the source, only rows and labels.
ProcessedHolds(p) ==
  /\ run[p].tables.features = run[p].tables.targets
  /\ LabelsOf[run[p].tables.targets] = LabelsOf[disk.raw]
  /\ LabelsOf[disk.schema] = LabelsOf[disk.raw]

ValidateProcessed(p) ==
  /\ At(p, "processed")
  /\ IF ProcessedHolds(p)
     THEN Writes("quality", "PASS") /\ Goes(p, "assign")
     ELSE Writes("quality", "FAILED") /\ Fails(p, "processed_validation")
  /\ UNCHANGED <<provider, lock, starts, trouble>>

-----------------------------------------------------------------------------
(* The frozen assignment, its manifest, and the records of the stage.         *)

\* The assignment is a function of the tables, whatever the order of their rows;
\* the version stands for it too, because the row identifiers contain its hash.
Assignment(tables) == tables.targets
Assignable(tables) == tables.features = tables.targets /\ SplitHolds[tables.targets]

\* An assignment on disk is never replaced.
CheckAssignments(p) ==
  /\ At(p, "assign")
  /\ \/ /\ Assignable(run[p].tables) /\ disk.assignments = None
        /\ Goes(p, "write_assignments")
     \/ /\ Assignable(run[p].tables) /\ disk.assignments = Assignment(run[p].tables)
        /\ Goes(p, "split")
     \/ /\ Assignable(run[p].tables) => disk.assignments \notin {None, Assignment(run[p].tables)}
        /\ Fails(p, "split")
  /\ UNCHANGED <<disk, provider, lock, starts, trouble>>

WriteAssignments(p) ==
  /\ At(p, "write_assignments")
  /\ Writes("assignments", Assignment(run[p].tables))
  /\ Goes(p, "split")
  /\ UNCHANGED <<provider, lock, starts, trouble>>

\* The manifest hashes the assignment on disk and keeps an older one's time.
ReadSplitManifest(p) ==
  /\ At(p, "split")
  /\ LET old == disk.splitManifest
         new == [assignments |-> disk.assignments, data |-> run[p].tables.manifest,
                 stamp |-> IF old = None THEN run[p].number ELSE old.stamp]
     IN Does(p, [run[p] EXCEPT !.pc = IF new = old THEN "summary" ELSE "write_split",
                               !.split = new])
  /\ UNCHANGED <<disk, provider, lock, starts, trouble>>

WriteSplitManifest(p) ==
  /\ At(p, "write_split")
  /\ Writes("splitManifest", run[p].split)
  /\ Goes(p, "summary")
  /\ UNCHANGED <<provider, lock, starts, trouble>>

\* The hashes of the files as they are now; those of the quality report and of
\* the split manifest, which carries a time, are left out.
Inventory == [f \in {"raw", "source", "assignments"} \cup Processed |-> disk[f]]
Summary == [inventory |-> Inventory, rerun |-> FALSE]

WriteSummary(p) ==
  /\ At(p, "summary")
  /\ Writes("summary", Summary)
  /\ Does(p, [run[p] EXCEPT !.pc = "pass", !.summary = IF run[p].again THEN @ ELSE Summary])
  /\ UNCHANGED <<provider, lock, starts, trouble>>

\* What the first run of a program is compared by.
Outcome(p) == [raw |-> run[p].source.describes, tables |-> run[p].tables,
               assignments |-> run[p].split.assignments]

\* A first run that could use the network is followed by an offline one.
WritePass(p) ==
  /\ At(p, "pass")
  /\ Writes("stage", "PASS")
  /\ IF Offline(p) THEN Goes(p, "finish")
     ELSE Does(p, [Idle EXCEPT !.pc = "acquire", !.flags = run[p].flags, !.again = TRUE,
                               !.number = run[p].number, !.first = Outcome(p),
                               !.summary = run[p].summary])
  /\ UNCHANGED <<provider, lock, starts, trouble>>

WriteFailure(p) ==
  /\ At(p, "failing")
  /\ Writes("stage", "FAILED")
  /\ Does(p, Idle)
  /\ UNCHANGED <<provider, lock, starts, trouble>>

\* A rerun that differs is recorded, and the program succeeds all the same; the
\* summary of the first run replaces that of the second.
Finish(p) ==
  /\ At(p, "finish")
  /\ LET rerun == IF run[p].again THEN run[p].first = Outcome(p)
                  ELSE "offline" \in run[p].flags
     IN /\ Writes("summary", [run[p].summary EXCEPT !.rerun = rerun])
        /\ Leaves(p, IF run[p].again /\ ~rerun THEN "differs" ELSE "done")
  /\ UNCHANGED <<provider, lock, starts, trouble>>

-----------------------------------------------------------------------------
(* The audit.                                                                 *)

Raises(p, cause) == Leaves(p, cause) /\ UNCHANGED disk

StartAudit(p) ==
  /\ ~Active(p) /\ starts < MaxStarts
  /\ starts' = starts + 1
  /\ IF Missing({"raw", "source", "features", "targets"})
     THEN Leaves(p, "missing")
     ELSE Does(p, [Idle EXCEPT !.pc = "audit_split", !.source = disk.source,
                               !.number = starts + 1, !.tables = Tables])
  /\ UNCHANGED <<disk, provider, lock, trouble>>

\* The assignment must fit the tables, and generate_splits must find the same
\* in a directory of its own, where earlier audits left theirs.
SplitRepeats(tables) ==
  /\ Assignable(tables)
  /\ disk.assignments = Assignment(tables)
  /\ disk.tmp \in {None, Assignment(tables)}

CheckSplitEvidence(p) ==
  /\ At(p, "audit_split")
  /\ \/ Missing({"assignments", "splitManifest"}) /\ Raises(p, "missing")
     \/ /\ ~Missing({"assignments", "splitManifest"})
        /\ ~SplitRepeats(run[p].tables)
        /\ Raises(p, "split")
     \/ /\ ~Missing({"assignments", "splitManifest"})
        /\ SplitRepeats(run[p].tables)
        /\ Writes("tmp", Assignment(run[p].tables))
        /\ Does(p, [run[p] EXCEPT !.pc = "audit_gates", !.split = disk.splitManifest])
  /\ UNCHANGED <<provider, lock, starts, trouble>>

\* Of A01 to A37 the gates whose answer depends on the files modelled here.  The
\* raw file is parsed and counted; its hash is the one the manifest states.
SourceGates(p) ==
  /\ run[p].source.provider = run[p].source.describes
  /\ run[p].source.describes = Recorded
TableGates(p) ==
  /\ Cardinality(Codes(TableOf[run[p].tables.targets])) = 2
  /\ GroupAuditOf[run[p].tables.targets].twins > 0
SplitGates(p) ==
  /\ CountsOf[run[p].split.assignments] = CountsOf[run[p].tables.targets]
  /\ \A part \in Partitions :
       Cardinality(DOMAIN ClassCounts(TableOf[run[p].tables.targets],
                                      PairOf[run[p].tables.targets])[part]) = 2
RecordGates == ~disk.parts /\ disk.stage = "PASS"
NothingMissing == ~Missing({"metadata", "quality", "raw", "source"} \cup Processed)

Gates(p) ==
  /\ SourceGates(p) /\ TableGates(p) /\ SplitGates(p) /\ RecordGates /\ NothingMissing
  /\ GroupAuditOf[run[p].tables.targets].statistics.crossing = 0

\* commands: what the logs of the other commands and the snapshots say.
JudgeGates(p) ==
  /\ At(p, "audit_gates")
  /\ \/ Missing({"summary", "stage"}) /\ Leaves(p, "missing")
     \/ /\ ~Missing({"summary", "stage"})
        /\ \E commands \in BOOLEAN :
             Does(p, [Idle EXCEPT !.pc = "audit_back", !.content = disk.stage,
                        !.cause = IF Gates(p) /\ commands THEN "verified" ELSE "failed"])
  /\ UNCHANGED <<disk, provider, lock, starts, trouble>>

\* Only the message is new: the status is the one that was read before.
WriteStageBack(p) ==
  /\ At(p, "audit_back")
  /\ Writes("stage", run[p].content)
  /\ Leaves(p, run[p].cause)
  /\ UNCHANGED <<provider, lock, starts, trouble>>

-----------------------------------------------------------------------------
(* The other reader: scripts/acquire_schemaorbit.py and the split generation  *)
(* of the registry take this dataset as they find it (data/schemaorbit.py).   *)

StartLegacyCheck(p) ==
  /\ ~Active(p) /\ starts < MaxStarts
  /\ starts' = starts + 1
  /\ IF Missing({"raw", "source", "features", "targets"})
     THEN Leaves(p, "missing")
     ELSE Does(p, [Idle EXCEPT !.pc = "legacy", !.source = disk.source, !.tables = Tables])
  /\ UNCHANGED <<disk, provider, lock, trouble>>

\* Here the recorded hashes of the tables are compared, but not the source
\* manifest's; the manifest is read after the tables.
LegacySmokeHolds(p) ==
  /\ run[p].tables.features = run[p].tables.targets
  /\ disk.dataManifest.raw = run[p].source.describes
  /\ LabelsOf[run[p].tables.targets] = LabelsOf[disk.schema]
  /\ \A f \in Processed \ {"dataManifest"} : disk.dataManifest[f] = disk[f]

ValidateLegacySmoke(p) ==
  /\ At(p, "legacy")
  /\ Leaves(p, IF Missing(Processed) THEN "missing"
               ELSE IF LegacySmokeHolds(p) THEN "done" ELSE "refused")
  /\ UNCHANGED <<disk, provider, lock, starts, trouble>>

Exit(p) ==
  /\ At(p, "leaving")
  /\ Does(p, Idle)
  /\ UNCHANGED <<disk, provider, lock, starts, trouble>>

-----------------------------------------------------------------------------
(* What else may happen.                                                      *)

Trouble(kind) ==
  /\ trouble.deaths + trouble.changes < MaxTrouble
  /\ trouble' = [trouble EXCEPT ![kind] = @ + 1]

\* A write in progress leaves its temporary file; the lock is the system's.
Die(p) ==
  /\ Active(p)
  /\ Trouble("deaths")
  /\ Does(p, Idle)
  /\ lock' = IF lock = p THEN None ELSE lock
  /\ \/ UNCHANGED disk
     \/ /\ run[p].pc \notin {"acquire", "tables", "load_manifest", "load_tables", "assign",
                              "split", "legacy", "leaving"}
        /\ Writes("parts", TRUE)
  /\ UNCHANGED <<provider, starts>>

Remove ==
  /\ \A p \in Programs : ~Active(p)
  /\ Trouble("changes")
  /\ \E f \in Removable : disk[f] # None /\ Writes(f, None)
  /\ UNCHANGED <<run, provider, lock, starts>>

\* Another version of the raw file is put in its place.
ReplaceRaw ==
  /\ \A p \in Programs : ~Active(p)
  /\ Trouble("changes")
  /\ disk.raw # None
  /\ \E v \in Versions \ {disk.raw} : Writes("raw", v)
  /\ UNCHANGED <<run, provider, lock, starts>>

\* A new version or other metadata, which nobody sees before the next request.
Publish ==
  /\ \E p \in Programs : run[p].pc \in {"metadata", "stream"}
  /\ Trouble("changes")
  /\ \/ \E v \in Versions \ {provider.content}, known \in BOOLEAN :
          provider' = [provider EXCEPT !.content = v, !.md5 = IF known THEN v ELSE None]
     \/ provider.frozen /\ provider' = [provider EXCEPT !.frozen = FALSE]
  /\ UNCHANGED <<disk, run, lock, starts>>

Init ==
  /\ disk = NoFiles
  /\ run = [p \in Programs |-> Idle]
  /\ provider = [content |-> Recorded, md5 |-> Recorded, frozen |-> TRUE]
  /\ lock = None
  /\ starts = 0
  /\ trouble = [deaths |-> 0, changes |-> 0]

Step(p) ==
  \/ StartPreparation(p) \/ CheckCache(p) \/ LockTimesOut(p) \/ FetchMetadata(p)
  \/ TransportFails(p) \/ Stream(p) \/ Promote(p) \/ WriteSource(p) \/ ValidateSource(p)
  \/ ChooseTables(p) \/ LoadManifest(p) \/ LoadTables(p) \/ WriteTable(p)
  \/ WriteDataManifest(p) \/ ValidateProcessed(p) \/ CheckAssignments(p)
  \/ WriteAssignments(p) \/ ReadSplitManifest(p) \/ WriteSplitManifest(p)
  \/ WriteSummary(p) \/ WritePass(p) \/ WriteFailure(p) \/ Finish(p)
  \/ StartAudit(p) \/ CheckSplitEvidence(p) \/ JudgeGates(p) \/ WriteStageBack(p)
  \/ StartLegacyCheck(p) \/ ValidateLegacySmoke(p) \/ Exit(p) \/ Die(p)

Next == (\E p \in Programs : Step(p)) \/ Remove \/ ReplaceRaw \/ Publish

Spec == Init /\ [][Next]_vars

-----------------------------------------------------------------------------
(* Properties.                                                                *)

\* Every file agrees with the ones it was derived from.
Whole ==
  /\ ~Missing({"raw", "source", "assignments", "splitManifest"} \cup Processed)
  /\ disk.source.describes = disk.raw
  /\ disk.dataManifest = [raw |-> disk.raw, source |-> disk.source, features |-> disk.raw,
                          targets |-> disk.raw, schema |-> disk.raw]
  /\ disk.features = disk.raw /\ disk.targets = disk.raw /\ disk.schema = disk.raw
  /\ disk.assignments = disk.raw
  /\ disk.splitManifest.assignments = disk.assignments
  /\ disk.splitManifest.data = disk.dataManifest

Acquiring == {"acquire", "metadata", "stream", "promote", "describe"}
Auditing == {"audit_split", "audit_gates", "audit_back", "legacy"}
Prepared(p) == Active(p) /\ run[p].pc \notin Acquiring \cup Auditing \cup {"failing", "leaving"}

\* Whoever died in an earlier acquisition and whatever the provider publishes,
\* a program that goes on after acquire has a source manifest that describes
\* the raw file beside it, and the provider's checksum in it is that file's
\* (download_dataset refuses a different raw file).
SourceIsTrue ==
  \A p \in Programs : Prepared(p) =>
    /\ run[p].source = disk.source
    /\ disk.source.describes = disk.raw
    /\ disk.source.provider \in {None, disk.raw}

\* When a program is about to record PASS, all files form one chain from the
\* raw file to the split manifest; and as long as nobody removed a file or
\* published a version, a recorded PASS says so even after deaths, concurrent
\* rebuilds and the write-back of an audit, and the inventory of the summary,
\* which may be that of an earlier run, lists these files.
PassIsOneChain ==
  /\ \A p \in Programs : run[p].pc \in {"pass", "finish"} => Whole
  /\ disk.stage = "PASS" /\ trouble.changes = 0 => Whole
  /\ disk.summary # None /\ trouble.changes = 0 =>
       disk.summary.inventory = Inventory

\* No step of a program replaces a raw file or an assignment; and once the
\* chain is whole and nobody downloads, nothing a program does changes any of
\* it but the creation time in the split manifest, forced rebuilds included.
Contents(d) == [f \in {"raw", "source", "assignments"} \cup Processed |-> d[f]]

FrozenIsKept ==
  [][trouble'.changes = trouble.changes =>
       /\ disk.raw # None => disk'.raw = disk.raw
       /\ disk.assignments # None => disk'.assignments = disk.assignments
       /\ Whole /\ lock = None => Contents(disk') = Contents(disk) /\ Whole']_vars

\* Deaths alone never leave files that a later program stumbles over: online
\* preparations fail for the network or the lock only and their reruns repeat
\* them, offline ones also for want of the raw file, validation alone also for
\* want of tables, and an audit or the other reader finds files missing but
\* never contradictory.
MayEnd(flags) ==
  {"none", "done", "transport", "lock", "missing", "verified", "failed"}
    \cup (IF flags \cap {"offline", "validate_only"} # {} THEN {"offline"} ELSE {})
    \cup (IF "validate_only" \in flags THEN {"incomplete"} ELSE {})

DeathsHeal ==
  trouble.changes = 0 => \A p \in Programs : run[p].cause \in MayEnd(run[p].flags)
=============================================================================
