------------------------------ MODULE DataChain ------------------------------
(***************************************************************************)
(* The files of one SchemaOrbit dataset and the processes that make them:  *)
(* the raw source with its manifest (schemaorbit.py acquire_raw), the      *)
(* processed directory (process_dataset) and one split of it               *)
(* (splits/generation.py generate_split, splits/validation.py).            *)
(*                                                                         *)
(* Each layer has a lock of its own and names the layer below by the hash  *)
(* of its manifest; the manifest of the source carries the time of its     *)
(* retrieval, so that no two downloads have equal ones.  A layer reads the *)
(* layer below without that layer's lock, file by file, while others move  *)
(* it to quarantine, rebuild it or download it again.                      *)
(***************************************************************************)
EXTENDS Naturals

CONSTANTS
    Procs,       \* processes that run the scripts
    Free,        \* a lock nobody holds
    Absent,      \* a file or directory that does not exist
    Broken,      \* a split directory with a damaged file
    Kinds,       \* the kinds of faults that occur
    Attempts,    \* download attempts: rules.download_attempts
    MaxRefresh,  \* bound: downloads asked for with refresh
    MaxFaults    \* bound: refreshes, crashes and damaged files together

VARIABLES
    raw,        \* the raw file
    described,  \* whether the provider's metadata and features are on disk
    source,     \* source_manifest.json
    processed,  \* the processed directory
    split,      \* the split directory
    leftover,   \* whether a dead process left a directory .seed_* beside it
    lock,       \* the lock of each layer
    pc,         \* the next step of a process
    hold,       \* what a process was called with, has read and built so far
    result,     \* how the last call of a process ended
    serials,    \* source manifests written so far
    refreshed,  \* refreshes so far
    faults,     \* faults so far
    seen        \* history: what was on disk while p validates

files == <<raw, described, source, processed, split>>
locals == <<hold, result>>
bounds == <<serials, refreshed, faults>>
vars == <<files, leftover, lock, pc, locals, bounds, seen>>
-------------------------------------------------------------------------------
(* Contents.  The provider's checksum fixes the bytes of a raw file, and a  *)
(* raw file those of the processed tables: they are Good, Bad when made     *)
(* from a damaged raw file, and Torn when damaged themselves.  Every damage *)
(* makes bytes of its own, known by the number of the fault.                *)

Layers == {"raw", "data", "split"}
Contents == [kind : {"Good", "Bad", "Torn"}, fault : Nat]
Good == [kind |-> "Good", fault |-> 0]
Bad(n) == [kind |-> "Bad", fault |-> n]
Torn(n) == [kind |-> "Torn", fault |-> n]

\* A source manifest is known by its hash, here a serial number: each download
\* and each damage makes another.  An altered one parses, a garbled one does not.
Serials == Nat \ {0}
SourceFiles == [serial : Serials, state : {"fine", "altered", "garbled"}]

\* data_manifest.json names the source manifest and the hashes of the tables;
\* readable: it parses.
DataManifests == [source : Serials, made : Contents]
Tables == [source : Serials, made : Contents, content : Contents, readable : BOOLEAN]
DataManifest(d) == [source |-> d.source, made |-> d.made]

\* split_manifest.json names the data manifest, the features file and the
\* assignments; file: the assignments on disk.
Splits == [data : DataManifests, features : Contents, content : Contents, file : Contents]

ASSUME ChainAssumption ==
    /\ Attempts \in Nat \ {0}
    /\ MaxRefresh \in Nat /\ MaxFaults \in Nat
    /\ Free \notin Procs
    /\ Kinds \subseteq {"crash", "network", "altered", "garbled", "torn"}
    /\ Absent # Broken
    /\ {Absent, Broken} \cap (Contents \cup SourceFiles \cup Tables \cup Splits) = {}

\* _validate_raw_manifest and _validate_source_manifest.
RawFits == raw = Good /\ source # Absent /\ source.state = "fine"

\* _validate_processed_directory: the tables are those of the manifest, which
\* names the source manifest of now.
TablesFit(d) == d.readable /\ d.content = d.made /\ d.source = source.serial

\* The three layers name one another and nothing is damaged.
ChainWhole ==
    /\ RawFits
    /\ processed # Absent /\ TablesFit(processed)
    /\ split \in Splits
    /\ split.data = DataManifest(processed)
    /\ split.features = processed.content
    /\ split.content = processed.content /\ split.file = split.content

Jobs == [op : {"prepare"}, mode : {"online", "refresh", "offline"}]
        \cup [op : {"generate"}, mode : {"reuse", "force"}]
        \cup [op : {"validate"}, mode : {"one", "all"}]

\* The steps of _read_local_inputs, which generate_split and every validation
\* run, and what a validation compares then.
Reading == {"readSource", "hashRaw", "readData", "hashSource", "hashTables", "readTables"}
Judging == {"checkAssignments", "hashAssignments", "checkFeatures", "checkData"}
Validating == {"readManifest"} \cup Reading \cup Judging
Steps == {"idle", "rawLock", "offline", "fetch", "cached", "aside", "download",
          "promote", "describe", "manifest", "dataLock", "examine", "dataAside",
          "parse", "write", "verify", "dataPromote", "splitLock", "lookSplit",
          "splitAside", "hashData", "assign", "splitReplace", "splitPromote",
          "rejectTemporary"} \cup Validating

\* mode: how acquire_raw or generate_split was called; pass: which validation
\* of the split is under way, if any; named: a data manifest; content: tables
\* read; checked: the split manifest read; table, folds: the transaction
\* directories; tries: download attempts.
Passes == {"none", "reader", "first", "second", "temporary"}
Modes == {"none", "online", "refresh", "offline", "reuse", "force"}
Holds == [mode : Modes, pass : Passes, tries : 1 .. Attempts,
          named : DataManifests \cup {Absent}, content : Contents \cup {Absent},
          checked : Splits \cup {Absent}, table : Tables \cup {Absent},
          folds : Splits \cup {Absent}]
EmptyHold == [mode |-> "none", pass |-> "none", tries |-> 1, named |-> Absent,
              content |-> Absent, checked |-> Absent, table |-> Absent, folds |-> Absent]

\* The source manifests there were beside the good raw file, and the data
\* manifests beside the tables they name.
Moments == [sources : SUBSET Serials, tables : SUBSET DataManifests]
NoMoment == [sources |-> {}, tables |-> {}]

Results == {"none", "raised", "died", "done"}

ChainTypeOK ==
    /\ raw \in {Absent, Good} \cup {Bad(n) : n \in 1 .. MaxFaults}
    /\ described \in BOOLEAN
    /\ source \in SourceFiles \cup {Absent}
    /\ processed \in Tables \cup {Absent}
    /\ split \in Splits \cup {Absent, Broken}
    /\ leftover \in BOOLEAN
    /\ lock \in [Layers -> Procs \cup {Free}]
    /\ pc \in [Procs -> Steps]
    /\ hold \in [Procs -> Holds]
    /\ result \in [Procs -> Results]
    /\ serials \in {0} \cup Serials
    /\ refreshed \in 0 .. MaxRefresh
    /\ faults \in 0 .. MaxFaults
    /\ seen \in [Procs -> Moments]

Init ==
    /\ raw = Absent /\ described = FALSE /\ source = Absent
    /\ processed = Absent /\ split = Absent /\ leftover = FALSE
    /\ lock = [l \in Layers |-> Free]
    /\ pc = [p \in Procs |-> "idle"]
    /\ hold = [p \in Procs |-> EmptyHold]
    /\ result = [p \in Procs |-> "none"]
    /\ serials = 0 /\ refreshed = 0 /\ faults = 0
    /\ seen = [p \in Procs |-> NoMoment]
-------------------------------------------------------------------------------
(* How calls begin and end.                                                *)

Is(p, step) == pc[p] = step
Goto(p, step) == pc' = [pc EXCEPT ![p] = step]
Keep(p, step, h) == Goto(p, step) /\ hold' = [hold EXCEPT ![p] = h]

\* generate_split works in a transaction directory, .seed_*, which it moves into
\* place or, when it raises, to quarantine.
Pass(p) == hold[p].pass
HasTemporary(p) ==
    \/ pc[p] \in {"assign", "splitReplace", "splitPromote"}
    \/ pc[p] \in Validating /\ Pass(p) = "temporary"

\* The with statements release the locks of the call, however it ends; of a
\* process that is killed the transaction directory stays.
Released(p) == [l \in Layers |-> IF lock[l] = p THEN Free ELSE lock[l]]
End(p, r) ==
    /\ Goto(p, "idle")
    /\ lock' = Released(p)
    /\ hold' = [hold EXCEPT ![p] = EmptyHold]
    /\ result' = [result EXCEPT ![p] = r]
    /\ leftover' = (leftover \/ (r = "died" /\ HasTemporary(p)))

\* A step inside a call that changes no file, or only those named.
Continue(p, step, h) == Keep(p, step, h) /\ UNCHANGED <<lock, result, leftover>>
Go(p, step) == Continue(p, step, hold[p])
Raise(p) == End(p, "raised")

\* The provider does not answer.
NetworkFails == "network" \in Kinds /\ UNCHANGED faults

\* One of the faults that are left.
Fault(kind) ==
    /\ kind \in Kinds
    /\ faults < MaxFaults /\ refreshed + faults < MaxFaults
    /\ faults' = faults + 1

\* acquire_schemaorbit.py runs acquire_raw and process_dataset for a dataset,
\* generate_splits.py runs generate_split or, to validate only, validate_split
\* for one split or validate_all.
Begin(p, j) ==
    /\ Is(p, "idle")
    /\ j.mode = "refresh" => refreshed < MaxRefresh /\ refreshed + faults < MaxFaults
    /\ refreshed' = IF j.mode = "refresh" THEN refreshed + 1 ELSE refreshed
    /\ result' = [result EXCEPT ![p] = "none"]
    /\ CASE j.op = "prepare"  -> Keep(p, "rawLock", [EmptyHold EXCEPT !.mode = j.mode])
         [] j.op = "generate" -> Keep(p, "splitLock", [EmptyHold EXCEPT !.mode = j.mode])
         [] j.op = "validate" ->
               Keep(p, IF j.mode = "all" THEN "rejectTemporary" ELSE "readManifest",
                    [EmptyHold EXCEPT !.pass = "reader"])
    /\ UNCHANGED <<files, leftover, lock, serials, faults>>

Take(p, from, layer, to) ==
    /\ Is(p, from) /\ lock[layer] = Free
    /\ lock' = [lock EXCEPT ![layer] = p]
    /\ Goto(p, to)
    /\ UNCHANGED <<files, leftover, locals, bounds>>

(* Definitions named Faulty... are what a plausible mistake would make of    *)
(* the definition that follows them; no specification uses them.            *)

\* Faulty: examines and replaces the processed directory without its lock.
FaultyTakeDataLock(p) ==
    /\ Is(p, "dataLock")
    /\ Goto(p, "examine")
    /\ UNCHANGED <<files, leftover, lock, locals, bounds>>

TakeRawLock(p) ==
    Take(p, "rawLock", "raw", IF hold[p].mode = "offline" THEN "offline" ELSE "fetch")
TakeDataLock(p) == Take(p, "dataLock", "data", "examine")
TakeSplitLock(p) == Take(p, "splitLock", "split", "lookSplit")

\* The lock was held past the deadline.
LockTimeout(p) ==
    /\ \/ Is(p, "rawLock") /\ lock["raw"] # Free
       \/ Is(p, "dataLock") /\ lock["data"] # Free
       \/ Is(p, "splitLock") /\ lock["split"] # Free
    /\ Raise(p)
    /\ UNCHANGED <<files, bounds>>
-------------------------------------------------------------------------------
(* acquire_raw, under the lock of the source.                              *)

\* acquire_raw returns the manifest and gives its lock back; process_dataset
\* then waits for another.
HandOn(p) ==
    /\ Keep(p, "dataLock", EmptyHold)
    /\ lock' = [lock EXCEPT !["raw"] = Free]
    /\ UNCHANGED <<result, leftover>>

\* Without the network everything has to be there and to fit.
Offline(p) ==
    /\ Is(p, "offline")
    /\ IF RawFits /\ described THEN HandOn(p) ELSE Raise(p)
    /\ UNCHANGED <<files, bounds>>

\* The provider's description is asked for first, also for what is cached.
Fetch(p) ==
    /\ Is(p, "fetch")
    /\ \/ Go(p, "cached") /\ UNCHANGED faults
       \/ NetworkFails /\ Raise(p)
    /\ UNCHANGED <<files, serials, refreshed>>

\* A manifest that does not parse raises a JSONDecodeError past the handler
\* that moves a source that does not fit aside.
Cached(p) ==
    /\ Is(p, "cached")
    /\ IF raw = Absent \/ source = Absent \/ hold[p].mode = "refresh"
       THEN Continue(p, "download", EmptyHold)
       ELSE IF source.state = "garbled" THEN Raise(p)
       ELSE IF RawFits THEN HandOn(p)
       ELSE Go(p, "aside")
    /\ UNCHANGED <<files, bounds>>

RawAside(p) ==
    /\ Is(p, "aside")
    /\ raw' = Absent
    /\ Continue(p, "download", EmptyHold)
    /\ UNCHANGED <<described, source, processed, split, bounds>>

\* Errors of the transport are retried; other errors, and bytes the provider's
\* checksum does not fit, raise.
Download(p) ==
    /\ Is(p, "download")
    /\ \/ Continue(p, "promote", EmptyHold) /\ UNCHANGED faults
       \/ /\ NetworkFails
          /\ \/ /\ hold[p].tries < Attempts
                /\ Continue(p, "download", [hold[p] EXCEPT !.tries = @ + 1])
             \/ Raise(p)
    /\ UNCHANGED <<files, serials, refreshed>>

\* Faulty: writes the manifest before the descriptions it vouches for.
FaultyPromote(p) ==
    /\ Is(p, "promote")
    /\ raw' = Good
    /\ serials' = serials + 1
    /\ source' = [serial |-> serials + 1, state |-> "fine"]
    /\ Go(p, "describe")
    /\ UNCHANGED <<described, processed, split, refreshed, faults>>

Promote(p) ==
    /\ Is(p, "promote")
    /\ raw' = Good
    /\ Go(p, "describe")
    /\ UNCHANGED <<described, source, processed, split, bounds>>

\* Both descriptions of the provider, written one after the other.
Describe(p) ==
    /\ Is(p, "describe")
    /\ described' = TRUE
    /\ Go(p, "manifest")
    /\ UNCHANGED <<raw, source, processed, split, bounds>>

WriteManifest(p) ==
    /\ Is(p, "manifest")
    /\ serials' = serials + 1
    /\ source' = [serial |-> serials + 1, state |-> "fine"]
    /\ HandOn(p)
    /\ UNCHANGED <<raw, described, processed, split, refreshed, faults>>
-------------------------------------------------------------------------------
(* process_dataset, under the lock of the processed data.                  *)

\* Whatever validate_processed refuses is moved aside, except a data manifest
\* that does not parse: that raises something else than SchemaOrbitError.
Examine(p) ==
    /\ Is(p, "examine")
    /\ IF processed = Absent THEN Go(p, "parse")
       ELSE IF ~processed.readable THEN Raise(p)
       ELSE IF TablesFit(processed) THEN End(p, "done")
       ELSE Go(p, "dataAside")
    /\ UNCHANGED <<files, bounds>>

\* Faulty: an unfit directory is refused and stays where it is.
FaultyDataAside(p) ==
    /\ Is(p, "dataAside")
    /\ Raise(p)
    /\ UNCHANGED <<files, bounds>>

DataAside(p) ==
    /\ Is(p, "dataAside")
    /\ processed' = Absent
    /\ Go(p, "parse")
    /\ UNCHANGED <<raw, described, source, split, bounds>>

\* The raw file is read without its lock and not hashed again: a damaged one
\* is either refused by the parser or taken for the source.
Parse(p) ==
    /\ Is(p, "parse")
    /\ \/ raw # Absent /\ Continue(p, "write", [hold[p] EXCEPT !.content = raw])
       \/ raw # Good /\ Raise(p)
    /\ UNCHANGED <<files, bounds>>

\* The files of the transaction directory; its manifest hashes the source
\* manifest that is on disk by now.
Write(p) ==
    LET c == hold[p].content IN
    /\ Is(p, "write")
    /\ Continue(p, "verify", [hold[p] EXCEPT
           !.table = [source |-> source.serial, made |-> c, content |-> c, readable |-> TRUE]])
    /\ UNCHANGED <<files, bounds>>

Verify(p) ==
    /\ Is(p, "verify")
    /\ IF TablesFit(hold[p].table) THEN Go(p, "dataPromote") ELSE Raise(p)
    /\ UNCHANGED <<files, bounds>>

DataPromote(p) ==
    /\ Is(p, "dataPromote")
    /\ processed' = hold[p].table
    /\ End(p, "done")
    /\ UNCHANGED <<raw, described, source, split, bounds>>
-------------------------------------------------------------------------------
(* _read_local_inputs reads the layers below the split without their locks,  *)
(* file by file, for generate_split and for the validations of the split.    *)

\* A validation of the split to reuse sends it to quarantine, whatever it raises.
Refused(p) == IF Pass(p) = "first" THEN Go(p, "splitAside") ELSE Raise(p)

\* Only the contract and the checksum of the source manifest are looked at here:
\* an altered one may do.
ReadSource(p) ==
    /\ Is(p, "readSource")
    /\ \/ source # Absent /\ source.state # "garbled" /\ Go(p, "hashRaw")
       \/ ~(source # Absent /\ source.state = "fine") /\ Refused(p)
    /\ UNCHANGED <<files, bounds>>

HashRaw(p) ==
    /\ Is(p, "hashRaw")
    /\ IF raw = Good THEN Go(p, "readData") ELSE Refused(p)
    /\ UNCHANGED <<files, bounds>>

ReadData(p) ==
    /\ Is(p, "readData")
    /\ IF processed # Absent /\ processed.readable
       THEN Continue(p, "hashSource", [hold[p] EXCEPT !.named = DataManifest(processed)])
       ELSE Refused(p)
    /\ UNCHANGED <<files, bounds>>

HashSource(p) ==
    /\ Is(p, "hashSource")
    /\ IF source # Absent /\ source.serial = hold[p].named.source
       THEN Go(p, "hashTables") ELSE Refused(p)
    /\ UNCHANGED <<files, bounds>>

HashTables(p) ==
    /\ Is(p, "hashTables")
    /\ IF processed # Absent /\ processed.content = hold[p].named.made
       THEN Go(p, "readTables") ELSE Refused(p)
    /\ UNCHANGED <<files, bounds>>

\* Damaged tables may or may not be readable still; the data manifest is parsed
\* once more.
ReadTables(p) ==
    /\ Is(p, "readTables")
    /\ \/ /\ processed # Absent /\ processed.readable
          /\ Continue(p, IF Pass(p) = "none" THEN "hashData" ELSE "checkAssignments",
                      [hold[p] EXCEPT !.content = processed.content, !.named = Absent])
       \/ /\ processed # Absent /\ processed.readable => processed.content.kind = "Torn"
          /\ Refused(p)
    /\ UNCHANGED <<files, bounds>>
-------------------------------------------------------------------------------
(* validate_split_directory.  Readers take no lock; generate_split runs it  *)
(* under the split's lock, twice for a split to reuse and once for a new    *)
(* one before it is moved into place.                                       *)

Examined(p) == IF Pass(p) = "temporary" THEN hold[p].folds ELSE split

\* validate_all looks for transaction directories first, then validates one split
\* after the other.
RejectTemporary(p) ==
    /\ Is(p, "rejectTemporary")
    /\ IF leftover \/ \E q \in Procs : HasTemporary(q)
       THEN Raise(p) ELSE Go(p, "readManifest")
    /\ UNCHANGED <<files, bounds>>

ReadManifest(p) ==
    /\ Is(p, "readManifest")
    /\ IF Examined(p) \in Splits
       THEN Continue(p, "readSource", [hold[p] EXCEPT !.checked = Examined(p)])
       ELSE Refused(p)
    /\ UNCHANGED <<files, bounds>>

\* The assignments must be those recomputed from the tables, and have the
\* logical hash in the manifest.
CheckAssignments(p) ==
    /\ Is(p, "checkAssignments")
    /\ IF /\ Examined(p) \in Splits
          /\ Examined(p).file = hold[p].content
          /\ Examined(p).file = hold[p].checked.content
       THEN Go(p, "hashAssignments") ELSE Refused(p)
    /\ UNCHANGED <<files, bounds>>

HashAssignments(p) ==
    /\ Is(p, "hashAssignments")
    /\ IF Examined(p) \in Splits /\ Examined(p).file = hold[p].checked.content
       THEN Go(p, "checkFeatures") ELSE Refused(p)
    /\ UNCHANGED <<files, bounds>>

CheckFeatures(p) ==
    /\ Is(p, "checkFeatures")
    /\ IF processed # Absent /\ hold[p].checked.features = processed.content
       THEN Go(p, "checkData") ELSE Refused(p)
    /\ UNCHANGED <<files, bounds>>

\* What follows a validation that passes.
Passed(p) ==
    CASE Pass(p) = "reader"    -> End(p, "done")
      [] Pass(p) = "first"     -> Continue(p, "readManifest", [EmptyHold EXCEPT !.pass = "second"])
      [] Pass(p) = "second"    -> End(p, "done")
      [] Pass(p) = "temporary" -> Go(p, "splitReplace")

\* Faulty: does not compare the hash of the data manifest.
FaultyCheckData(p) ==
    /\ Is(p, "checkData")
    /\ IF processed # Absent THEN Passed(p) ELSE Refused(p)
    /\ UNCHANGED <<files, bounds>>

CheckData(p) ==
    /\ Is(p, "checkData")
    /\ IF /\ processed # Absent /\ processed.readable
          /\ hold[p].checked.data = DataManifest(processed)
       THEN Passed(p) ELSE Refused(p)
    /\ UNCHANGED <<files, bounds>>
-------------------------------------------------------------------------------
(* generate_split, under the lock of the split.                            *)

LookSplit(p) ==
    /\ Is(p, "lookSplit")
    /\ IF split # Absent /\ hold[p].mode = "reuse"
       THEN Continue(p, "readManifest", [EmptyHold EXCEPT !.pass = "first"])
       ELSE Continue(p, "readSource", EmptyHold)
    /\ UNCHANGED <<files, bounds>>

SplitAside(p) ==
    /\ Is(p, "splitAside")
    /\ split' = Absent
    /\ Continue(p, "readSource", EmptyHold)
    /\ UNCHANGED <<raw, described, source, processed, bounds>>

\* In the transaction directory, once the assignments are written, the data
\* manifest found now is hashed.  The validation below refuses the hash of one
\* that does not parse.
HashData(p) ==
    /\ Is(p, "hashData")
    /\ IF processed # Absent /\ processed.readable
       THEN Continue(p, "assign", [hold[p] EXCEPT !.named = DataManifest(processed)])
       ELSE Raise(p)
    /\ UNCHANGED <<files, bounds>>

\* The assignments are those of the tables read before, the features file is
\* hashed last.
Folds(p) == [data |-> hold[p].named, features |-> processed.content,
             content |-> hold[p].content, file |-> hold[p].content]

Assign(p) ==
    /\ Is(p, "assign")
    /\ IF processed = Absent THEN Raise(p)
       ELSE Continue(p, "readManifest",
                     [EmptyHold EXCEPT !.pass = "temporary", !.folds = Folds(p)])
    /\ UNCHANGED <<files, bounds>>

\* The split that is replaced goes to quarantine first.
SplitReplace(p) ==
    /\ Is(p, "splitReplace")
    /\ split' = Absent
    /\ Go(p, "splitPromote")
    /\ UNCHANGED <<raw, described, source, processed, bounds>>

SplitPromote(p) ==
    /\ Is(p, "splitPromote")
    /\ split' = hold[p].folds
    /\ End(p, "done")
    /\ UNCHANGED <<raw, described, source, processed, bounds>>
-------------------------------------------------------------------------------
(* What happens to the processes and the files.                            *)

Crash(p) ==
    /\ ~Is(p, "idle") /\ Fault("crash")
    /\ End(p, "died")
    /\ UNCHANGED <<files, serials, refreshed>>

Untouched == UNCHANGED <<leftover, lock, pc, locals, refreshed>>
RawDamaged ==
    /\ Fault("altered")
    /\ raw = Good /\ raw' = Bad(faults')
    /\ UNCHANGED <<described, source, processed, split, serials>> /\ Untouched
SourceDamaged ==
    /\ source # Absent
    /\ \E state \in {"altered", "garbled"} :
          /\ Fault(state)
          /\ source' = [serial |-> serials + 1, state |-> state]
    /\ serials' = serials + 1
    /\ UNCHANGED <<raw, described, processed, split>> /\ Untouched
TablesDamaged ==
    /\ processed # Absent
    /\ \/ Fault("torn") /\ processed' = [processed EXCEPT !.content = Torn(faults')]
       \/ Fault("garbled") /\ processed' = [processed EXCEPT !.readable = FALSE]
    /\ UNCHANGED <<raw, described, source, split, serials>> /\ Untouched
SplitDamaged ==
    /\ Fault("torn")
    /\ split \in Splits
    /\ split' = Broken \/ split' = [split EXCEPT !.file = Torn(faults')]
    /\ UNCHANGED <<raw, described, source, processed, serials>> /\ Untouched
-------------------------------------------------------------------------------
Acquiring(p) ==
    \/ TakeRawLock(p) \/ Offline(p) \/ Fetch(p) \/ Cached(p) \/ RawAside(p)
    \/ Download(p) \/ Promote(p) \/ Describe(p) \/ WriteManifest(p)
Processing(p) ==
    \/ TakeDataLock(p) \/ Examine(p) \/ DataAside(p) \/ Parse(p) \/ Write(p)
    \/ Verify(p) \/ DataPromote(p)
Generating(p) ==
    \/ TakeSplitLock(p) \/ LookSplit(p) \/ SplitAside(p) \/ HashData(p)
    \/ Assign(p) \/ SplitReplace(p) \/ SplitPromote(p)
ReadingInputs(p) ==
    \/ ReadSource(p) \/ HashRaw(p) \/ ReadData(p) \/ HashSource(p) \/ HashTables(p)
    \/ ReadTables(p)
ValidatingSplit(p) ==
    \/ RejectTemporary(p) \/ ReadManifest(p) \/ CheckAssignments(p)
    \/ HashAssignments(p) \/ CheckFeatures(p) \/ CheckData(p)
Working(p) ==
    Acquiring(p) \/ Processing(p) \/ Generating(p) \/ ReadingInputs(p) \/ ValidatingSplit(p)

\* What is seen is noted from the first step of a validation to its last.
SourcesNow == IF raw = Good /\ source # Absent THEN {source.serial} ELSE {}
TablesNow ==
    IF processed # Absent /\ processed.content = processed.made
    THEN {DataManifest(processed)} ELSE {}
Watched(p) == pc[p] \in Validating /\ Pass(p) \in {"reader", "first", "second"}
SeenBefore(p) == IF Watched(p) THEN seen[p] ELSE NoMoment
Observe ==
    seen' = [p \in Procs |->
        IF ~Watched(p)' THEN NoMoment
        ELSE [sources |-> SeenBefore(p).sources \cup SourcesNow',
              tables |-> SeenBefore(p).tables \cup TablesNow']]

Next ==
    /\ \/ \E p \in Procs :
              (\E j \in Jobs : Begin(p, j)) \/ Working(p) \/ LockTimeout(p) \/ Crash(p)
       \/ RawDamaged \/ SourceDamaged \/ TablesDamaged \/ SplitDamaged
    /\ Observe

Spec == Init /\ [][Next]_vars

Taking(p) == TakeRawLock(p) \/ TakeDataLock(p) \/ TakeSplitLock(p)

\* A process does not stop in a call, a process that asks for a lock again and
\* again gets it, and somebody who needs the split runs the two scripts until it
\* is there.  Nobody has to refresh, to force or to validate, and no fault has to
\* happen.
FairSpec ==
    /\ Spec
    /\ \A p \in Procs :
          /\ WF_vars(Working(p) /\ Observe)
          /\ SF_vars(Taking(p) /\ Observe)
    /\ SF_vars(\E p \in Procs : Begin(p, [op |-> "prepare", mode |-> "online"]) /\ Observe)
    /\ SF_vars(\E p \in Procs : Begin(p, [op |-> "generate", mode |-> "reuse"]) /\ Observe)
-------------------------------------------------------------------------------
(* What must hold.                                                         *)

\* A directory is moved into place by os.replace, which must find nothing there:
\* the step before moved away what was, and the lock of the layer keeps
\* everybody else from putting another there.
RoomForPromotion ==
    \A p \in Procs :
        /\ Is(p, "splitPromote") => split = Absent
        /\ Is(p, "dataPromote") => processed = Absent

\* acquire_raw writes the source manifest last: with a manifest there are the
\* descriptions of the provider that an offline call needs, after any crash.
SourceIsDescribed == source # Absent => described

\* process_dataset, run again, moves aside no processed directory that fits the
\* source: what its validation refused is still refused when it is moved.
FittingTablesAreKept ==
    [][processed # Absent /\ processed' = Absent => ~TablesFit(processed)]_vars

\* A validation of the split that passes, reading file by file without a lock
\* while others rebuild every layer, saw tables, features and assignments of one
\* content, that the split's manifest names: a mixture never passes.  And while
\* it read, the source the split names was there with the good raw file, and the
\* tables the split names were there whole.  These may be two moments: between
\* them a raw file already hashed may be damaged and torn tables be made again.
PassSawItsChain ==
    [][\A p \in Procs :
          pc[p] = "checkData" /\ result'[p] = "done" =>
              LET m == hold[p].checked IN
              /\ m.features = m.data.made /\ m.content = m.data.made
              /\ m.data.source \in seen[p].sources
              /\ m.data \in seen[p].tables]_vars

\* Whatever crashed or was damaged, running the two scripts again and again makes
\* the chain whole, unless waits for locks run out or downloads fail forever, or
\* a manifest no longer parses: the calls raise on it before they move it aside.
\* And it is again and again as validate_all accepts it, unless a process was
\* killed in the transaction of generate_split: the directory it leaves makes
\* validate_all raise, and no script takes it away.
Accepted == ChainWhole /\ ~leftover /\ \A p \in Procs : ~HasTemporary(p)
Garbled ==
    \/ source # Absent /\ source.state = "garbled"
    \/ processed # Absent /\ ~processed.readable
Answered(p) == pc[p] \in {"fetch", "download"} => pc'[p] # "idle"
Heals ==
    /\ <>[][\A p \in Procs : ~LockTimeout(p) /\ Answered(p)]_vars
    /\ []~Garbled
    => []<>ChainWhole /\ ([]~leftover => []<>Accepted)
=============================================================================
