------------------------ MODULE PilotProtocol_proofs ------------------------
(* Proofs about the pilot protocol, for any number of freezers and            *)
(* validators, any datasets and any number of replaced files: what a          *)
(* validation without a failed gate vouches for, that no freezer is refused   *)
(* by the contracts, and that a staged schedule loses nothing.                *)
(*                                                                            *)
(* The argument.  A file that is replaced gets a version it never had, so     *)
(* what a process read earlier is either what is in place or older than it.   *)
(* The gates compare versions, and the version a freezer took first and the   *)
(* one a validator takes last enclose whatever was read between them: when    *)
(* they are equal, everything read between them is one and the same.          *)
(*                                                                            *)
(* The documents.  The selection is a total order on cohorts, so it has one   *)
(* winner; ranks of numbers cut a cohort into stages; sums are taken by       *)
(* induction on the size of a set, the numbers that satisfy a claim being a   *)
(* set themselves.                                                            *)
EXTENDS PilotProtocol, FunctionTheorems, FiniteSetTheorems, TLAPS

-----------------------------------------------------------------------------
(* What has been read, and what of it is still so.                            *)

\* x was read where y is now: it is older, or it is the same.
Dated(x, y) == x.at \in Nat /\ x.at <= y.at /\ (x.at = y.at => x = y)

DataDated(data, S, i) == \A d \in S : Dated(data[d], i.data[d])

\* The inputs are files with versions.
Versioned(i) ==
  /\ i = [data |-> i.data, smoke |-> i.smoke, views |-> i.views,
          runtime |-> i.runtime, probes |-> i.probes]
  /\ DOMAIN i.data = Registry /\ \A d \in Registry : i.data[d].at \in Nat
  /\ i.views.at \in Nat /\ i.runtime.at \in Nat /\ i.probes.at \in Nat

\* No version is above n.
Within(i, n) ==
  /\ \A d \in Registry : i.data[d].at <= n
  /\ i.views.at <= n /\ i.runtime.at <= n /\ i.probes.at <= n

\* m is the state of the inputs i at an earlier moment.
Earlier(m, i) ==
  /\ DataDated(m.data, Registry, i)
  /\ Dated(m.views, i.views) /\ Dated(m.runtime, i.runtime) /\ Dated(m.probes, i.probes)

SourcesDated(sources, i) ==
  /\ sources.views \in Nat /\ sources.views <= i.views.at
  /\ sources.runtime \in Nat /\ sources.runtime <= i.runtime.at
  /\ sources.probes \in Nat /\ sources.probes <= i.probes.at

\* A document, by what its author had read: checksums first, probes after.
Known(r, i) ==
  /\ r.cohort \subseteq Registry /\ DataDated(r.data, r.cohort, i)
  /\ SourcesDated(r.sources, i)
  /\ r.probes.at \in Nat
  /\ r.sources.probes <= r.probes.at /\ r.probes.at <= i.probes.at

-----------------------------------------------------------------------------
(* The inductive invariant.                                                   *)

ReadRecord(r) ==
  r = [cohort |-> r.cohort, data |-> r.data, matrix |-> r.matrix, views |-> r.views,
       sources |-> r.sources, runtime |-> r.runtime, probes |-> r.probes]

HeldRecord(h) ==
  h = [protocol |-> h.protocol, inventory |-> h.inventory, schedule |-> h.schedule,
       before |-> h.before, moment |-> h.moment, good |-> h.good]

Shape ==
  /\ DOMAIN step = Planners
  /\ DOMAIN reads = Planners /\ \A p \in Planners : ReadRecord(reads[p])
  /\ DOMAIN held = Validators /\ \A v \in Validators : HeldRecord(held[v])

\* The documents in the directory.
Stored(k, i) ==
  /\ k = [protocol |-> k.protocol, inventory |-> k.inventory,
          schedule |-> k.schedule, report |-> k.report]
  /\ k.protocol # Absent => Known(k.protocol, i)

Selected == {"views", "sources", "estimate"}

\* What a planner has read at a step.
Planned(s, r, i) ==
  /\ s \in Selected => DataDated(r.data, r.cohort \cap Registry, i)
  /\ s = "estimate" => SourcesDated(r.sources, i)
  /\ s \in {"protocol", "inventory", "schedule"} => Known(r, i)

\* Nothing has been rebuilt since the first snapshot.
Untouched(h, i) == i.data = h.before

Selection(data) == SelectCandidateIds[Candidates(data)]

\* The plan of the frozen document is that of the moment m.
PlanOf(frozen, m) == Protocol(frozen) = Protocol(ReadsAt(m))

\* The files it froze are in place.
InPlace(frozen, i) == \A d \in frozen.cohort : i.data[d] = frozen.data[d]

Watching == {"review", "datasets", "views", "sources", "estimate", "gates", "after"}
Staged == Watching \cup {"before"}
Paired == Staged \cup {"stages"}
Loaded == Paired \cup {"pair"}

\* What a validator knows of the documents.
Agreed(s, h, i) ==
  /\ s \in Loaded => Known(h.protocol, i)
  /\ s \in Paired => Protocol(h.inventory) = Protocol(h.protocol)
  /\ s \in Staged /\ h.good =>
       h.schedule # Absent /\ Protocol(h.schedule) = Protocol(h.protocol)
  /\ s \in Watching => DOMAIN h.before = Registry /\ DataDated(h.before, Registry, i)

\* The cohort it has selected for its own plan, and the models.
Selecting(r, h, i) ==
  /\ Untouched(h, i) =>
       /\ r.cohort = Selection(i.data)
       /\ r.data = [d \in r.cohort |-> i.data[d]]
  /\ r.matrix \in Nat /\ h.protocol.sources.probes <= r.matrix /\ r.matrix <= i.probes.at

\* The views it has collected, if they are those of the frozen plan.
Collecting(r, h, views) ==
  views.at = h.protocol.sources.views => r.views = CollectViewApplicability(r.cohort, views)

\* The moment it has taken the checksums at.
Hashing(r, h, i) ==
  /\ Earlier(h.moment, i) /\ (Untouched(h, i) => h.moment.data = i.data)
  /\ r.sources = SourceHashes(h.moment, r.cohort)
  /\ r.matrix <= h.moment.probes.at /\ h.protocol.probes.at <= h.moment.probes.at
  /\ Collecting(r, h, h.moment.views)

Rebuilding(s, r, h, i) ==
  /\ s \in Selected => Selecting(r, h, i)
  /\ s \in {"sources", "estimate"} => Collecting(r, h, i.views)
  /\ s = "estimate" => Hashing(r, h, i)

\* What its verdict rests on.
Judging(s, h, i) ==
  /\ s \in {"gates", "after"} /\ h.good /\ Untouched(h, i) => InPlace(h.protocol, i)
  /\ s = "gates" /\ h.good /\ Untouched(h, i) /\ i.runtime.at = h.protocol.sources.runtime =>
       PlanOf(h.protocol, h.moment)
  /\ s = "after" /\ h.good /\ Untouched(h, i) => PlanOf(h.protocol, h.moment)

Validating(s, r, h, i) == Agreed(s, h, i) /\ Rebuilding(s, r, h, i) /\ Judging(s, h, i)

IInv ==
  /\ events \in Nat /\ Versioned(inputs) /\ Within(inputs, events)
  /\ Shape /\ Stored(disk, inputs)
  /\ \A p \in Planners : Planned(step[p], reads[p], inputs)
  /\ \A v \in Validators : Validating(step[v], reads[v], held[v], inputs)

-----------------------------------------------------------------------------
(* What was known before some files are replaced is known after.              *)

\* j is i with some files replaced by newer ones.
Newer(x, y) == y = x \/ (y.at \in Nat /\ y.at > x.at)

Later(i, j) ==
  /\ \A d \in Registry : Newer(i.data[d], j.data[d])
  /\ j.data # i.data => \E d \in Registry : j.data[d].at > i.data[d].at
  /\ Newer(i.views, j.views) /\ Newer(i.runtime, j.runtime) /\ Newer(i.probes, j.probes)

LEMMA DatedStays ==
  ASSUME NEW x, NEW y, NEW z, y.at \in Nat, Dated(x, y), Newer(y, z)
  PROVE  Dated(x, z)
BY DEF Dated, Newer

LEMMA DataStays ==
  ASSUME NEW i, NEW j, Versioned(i), Later(i, j),
         NEW S, S \subseteq Registry, NEW data, DataDated(data, S, i)
  PROVE  DataDated(data, S, j)
<1> SUFFICES ASSUME NEW d \in S
             PROVE  Dated(data[d], j.data[d])
  BY DEF DataDated
<1>1. i.data[d].at \in Nat /\ Dated(data[d], i.data[d]) /\ Newer(i.data[d], j.data[d])
  BY DEF Versioned, Later, DataDated
<1> QED BY <1>1, DatedStays

LEMMA SourcesStay ==
  ASSUME NEW i, NEW j, Versioned(i), Later(i, j), NEW sources, SourcesDated(sources, i)
  PROVE  SourcesDated(sources, j)
BY DEF Versioned, Later, SourcesDated, Newer

LEMMA KnownStays ==
  ASSUME NEW i, NEW j, Versioned(i), Later(i, j), NEW r, Known(r, i)
  PROVE  Known(r, j)
<1>1. DataDated(r.data, r.cohort, j) BY DataStays DEF Known
<1>2. SourcesDated(r.sources, j) BY SourcesStay DEF Known
<1>3. r.probes.at <= j.probes.at BY DEF Versioned, Later, Newer, Known
<1> QED BY <1>1, <1>2, <1>3 DEF Known

LEMMA EarlierStays ==
  ASSUME NEW i, NEW j, Versioned(i), Later(i, j), NEW m, Earlier(m, i)
  PROVE  Earlier(m, j)
<1>1. DataDated(m.data, Registry, j) BY DataStays DEF Earlier
<1>2. Dated(m.views, j.views) BY DatedStays DEF Earlier, Versioned, Later
<1>3. Dated(m.runtime, j.runtime) BY DatedStays DEF Earlier, Versioned, Later
<1>4. Dated(m.probes, j.probes) BY DatedStays DEF Earlier, Versioned, Later
<1> QED BY <1>1, <1>2, <1>3, <1>4 DEF Earlier

LEMMA PlannedStays ==
  ASSUME NEW i, NEW j, Versioned(i), Later(i, j), NEW s, NEW r, Planned(s, r, i)
  PROVE  Planned(s, r, j)
<1>1. s \in Selected => DataDated(r.data, r.cohort \cap Registry, j)
  BY DataStays DEF Planned
<1>2. s = "estimate" => SourcesDated(r.sources, j) BY SourcesStay DEF Planned
<1>3. s \in {"protocol", "inventory", "schedule"} => Known(r, j) BY KnownStays DEF Planned
<1> QED BY <1>1, <1>2, <1>3 DEF Planned

\* After a rebuild the files are never again those of the first snapshot.
LEMMA TouchedStays ==
  ASSUME NEW i, NEW j, Versioned(i), Later(i, j),
         NEW h, DataDated(h.before, Registry, i), Untouched(h, j)
  PROVE  j.data = i.data /\ Untouched(h, i)
<1>1. ASSUME NEW d \in Registry, j.data[d].at > i.data[d].at
      PROVE  FALSE
  <2>1. h.before[d].at \in Nat /\ h.before[d].at <= i.data[d].at /\ i.data[d].at \in Nat
    BY DEF DataDated, Dated, Versioned
  <2>2. h.before[d] = j.data[d] BY DEF Untouched
  <2> QED BY <1>1, <2>1, <2>2
<1>2. j.data = i.data BY <1>1 DEF Later
<1> QED BY <1>2 DEF Untouched

\* An old version in place is the file that was there.
LEMMA SameStays ==
  ASSUME NEW x, NEW y, x.at \in Nat, Newer(x, y), NEW n \in Nat, n <= x.at, y.at = n
  PROVE  y = x
BY DEF Newer

LEMMA AgreedStays ==
  ASSUME NEW i, NEW j, Versioned(i), Later(i, j), NEW s, NEW h, Agreed(s, h, i)
  PROVE  Agreed(s, h, j)
<1>1. s \in Loaded => Known(h.protocol, j) BY KnownStays DEF Agreed
<1>2. s \in Watching => DataDated(h.before, Registry, j) BY DataStays DEF Agreed
<1> QED BY <1>1, <1>2 DEF Agreed

LEMMA RebuildingStays ==
  ASSUME NEW i, NEW j, Versioned(i), Later(i, j), NEW s, NEW r, NEW h,
         Agreed(s, h, i), Rebuilding(s, r, h, i)
  PROVE  Rebuilding(s, r, h, j)
<1> SUFFICES ASSUME s \in Selected
             PROVE  Rebuilding(s, r, h, j)
  BY DEF Rebuilding, Selected
<1>1. Known(h.protocol, i) /\ DataDated(h.before, Registry, i)
  BY DEF Agreed, Selected, Watching, Staged, Paired, Loaded
<1>2. Untouched(h, j) => j.data = i.data /\ Untouched(h, i)
  BY <1>1, TouchedStays
<1>3. i.probes.at \in Nat /\ j.probes.at \in Nat /\ i.probes.at <= j.probes.at
  BY DEF Versioned, Later, Newer
<1>4. Selecting(r, h, j)
  <2>1. Selecting(r, h, i) BY DEF Rebuilding
  <2>2. h.protocol.sources.probes \in Nat BY <1>1 DEF Known, SourcesDated
  <2> QED BY <1>2, <1>3, <2>1, <2>2 DEF Selecting
<1>5. s \in {"sources", "estimate"} => Collecting(r, h, j.views)
  <2> SUFFICES ASSUME s \in {"sources", "estimate"}, j.views.at = h.protocol.sources.views
               PROVE  r.views = CollectViewApplicability(r.cohort, j.views)
    BY DEF Collecting
  <2>1. j.views = i.views
    <3>1. h.protocol.sources.views \in Nat /\ h.protocol.sources.views <= i.views.at
      BY <1>1 DEF Known, SourcesDated
    <3>2. i.views.at \in Nat /\ Newer(i.views, j.views) BY DEF Versioned, Later
    <3> QED BY <3>1, <3>2, SameStays
  <2>2. Collecting(r, h, i.views) BY DEF Rebuilding
  <2> QED BY <2>1, <2>2 DEF Collecting
<1>6. s = "estimate" => Hashing(r, h, j)
  <2> SUFFICES ASSUME s = "estimate"
               PROVE  Hashing(r, h, j)
    OBVIOUS
  <2>1. Hashing(r, h, i) BY DEF Rebuilding
  <2>2. Earlier(h.moment, j) BY <2>1, EarlierStays DEF Hashing
  <2>3. Untouched(h, j) => h.moment.data = j.data BY <1>2, <2>1 DEF Hashing
  <2> QED BY <2>1, <2>2, <2>3 DEF Hashing
<1> QED BY <1>4, <1>5, <1>6 DEF Rebuilding

LEMMA JudgingStays ==
  ASSUME NEW i, NEW j, Versioned(i), Later(i, j), NEW s, NEW h,
         Agreed(s, h, i), Judging(s, h, i)
  PROVE  Judging(s, h, j)
<1> SUFFICES ASSUME s \in {"gates", "after"}, h.good, Untouched(h, j)
             PROVE  Judging(s, h, j)
  BY DEF Judging
<1>1. Known(h.protocol, i) /\ DataDated(h.before, Registry, i)
  BY DEF Agreed, Watching, Staged, Paired, Loaded
<1>2. j.data = i.data /\ Untouched(h, i) BY <1>1, TouchedStays
<1>3. InPlace(h.protocol, j) BY <1>2 DEF Judging, InPlace
<1>4. ASSUME s = "gates", j.runtime.at = h.protocol.sources.runtime
      PROVE  PlanOf(h.protocol, h.moment)
  <2>1. h.protocol.sources.runtime \in Nat /\ h.protocol.sources.runtime <= i.runtime.at
    BY <1>1 DEF Known, SourcesDated
  <2>2. i.runtime.at \in Nat /\ Newer(i.runtime, j.runtime) BY DEF Versioned, Later
  <2>3. j.runtime = i.runtime BY <1>4, <2>1, <2>2, SameStays
  <2> QED BY <1>2, <1>4, <2>3 DEF Judging
<1>5. s = "after" => PlanOf(h.protocol, h.moment) BY <1>2 DEF Judging
<1> QED BY <1>3, <1>4, <1>5 DEF Judging

LEMMA ValidatingStays ==
  ASSUME NEW i, NEW j, Versioned(i), Later(i, j), NEW s, NEW r, NEW h,
         Validating(s, r, h, i)
  PROVE  Validating(s, r, h, j)
BY AgreedStays, RebuildingStays, JudgingStays DEF Validating

-----------------------------------------------------------------------------
(* The inputs are replaced.                                                   *)

\* A step of the producers disturbs no process and no document.
LEMMA ProducingStays ==
  ASSUME IInv, UNCHANGED <<disk, step, reads, held>>,
         events' \in Nat, Versioned(inputs'), Within(inputs', events'), Later(inputs, inputs')
  PROVE  IInv'
<1>1. Shape' BY DEF IInv, Shape, ReadRecord, HeldRecord
<1>2. Stored(disk, inputs)' BY KnownStays DEF IInv, Stored
<1>3. ASSUME NEW p \in Planners
      PROVE  Planned(step'[p], reads'[p], inputs')
  BY PlannedStays DEF IInv
<1>4. ASSUME NEW v \in Validators
      PROVE  Validating(step'[v], reads'[v], held'[v], inputs')
  BY ValidatingStays DEF IInv
<1> QED BY <1>1, <1>2, <1>3, <1>4 DEF IInv

LEMMA ReprocessStays == ASSUME IInv, NEW d \in Changing, Reprocess(d) PROVE IInv'
<1> DEFINE data(w) == [inputs.data EXCEPT ![d] = [at |-> events + 1, wrong |-> w]]
<1>1. PICK w \in Disagreements : Replace("data", data(w))
  BY DEF Reprocess
<1>2. d \in Registry BY ProtocolAssumption
<1>3. Versioned(inputs) /\ Within(inputs, events) /\ events \in Nat BY DEF IInv
<1>4. inputs' = [inputs EXCEPT !["data"] = data(w)] /\ events' = events + 1
  BY <1>1 DEF Replace
<1>5. /\ inputs'.data = data(w)
      /\ inputs' = [data |-> data(w), smoke |-> inputs.smoke, views |-> inputs.views,
                    runtime |-> inputs.runtime, probes |-> inputs.probes]
  BY <1>3, <1>4 DEF Versioned
<1>6. \A c \in Registry :
         data(w)[c] = IF c = d THEN [at |-> events + 1, wrong |-> w] ELSE inputs.data[c]
  BY <1>3 DEF Versioned
<1>7. DOMAIN data(w) = Registry BY <1>3 DEF Versioned
<1> HIDE DEF data
<1>8. Versioned(inputs')
  BY <1>3, <1>5, <1>6, <1>7 DEF Versioned
<1>9. Within(inputs', events')
  BY <1>3, <1>4, <1>5, <1>6 DEF Within, Versioned
<1>10. Later(inputs, inputs')
  <2>1. \A c \in Registry : Newer(inputs.data[c], inputs'.data[c])
    BY <1>3, <1>5, <1>6 DEF Newer, Within, Versioned
  <2>2. inputs'.data[d].at > inputs.data[d].at
    BY <1>2, <1>3, <1>5, <1>6 DEF Within, Versioned
  <2> QED BY <1>2, <1>5, <2>1, <2>2 DEF Later, Newer
<1>11. UNCHANGED <<disk, step, reads, held>> BY <1>1 DEF Replace
<1> QED BY <1>3, <1>4, <1>8, <1>9, <1>10, <1>11, ProducingStays

LEMMA ReviewSmokeStays == ASSUME IInv, ReviewSmoke PROVE IInv'
<1>1. PICK ok \in BOOLEAN : Replace("smoke", [at |-> events + 1, accepted |-> ok])
  BY DEF ReviewSmoke
<1>2. Versioned(inputs) /\ Within(inputs, events) /\ events \in Nat BY DEF IInv
<1> DEFINE s == [at |-> events + 1, accepted |-> ok]
<1>3. inputs' = [inputs EXCEPT !["smoke"] = s] /\ events' = events + 1
  BY <1>1 DEF Replace
<1> HIDE DEF s
<1>4. inputs' = [data |-> inputs.data, smoke |-> s, views |-> inputs.views,
                 runtime |-> inputs.runtime, probes |-> inputs.probes]
  BY <1>2, <1>3 DEF Versioned
<1>5. Versioned(inputs') BY <1>2, <1>4 DEF Versioned
<1>6. Within(inputs', events') BY <1>2, <1>3, <1>4 DEF Versioned, Within
<1>7. Later(inputs, inputs') BY <1>4 DEF Later, Newer
<1>8. UNCHANGED <<disk, step, reads, held>> BY <1>1 DEF Replace
<1> QED BY <1>2, <1>3, <1>5, <1>6, <1>7, <1>8, ProducingStays

LEMMA ReplaceStays ==
  ASSUME IInv, NEW s, s.at = events + 1,
         NEW field \in {"views", "runtime", "probes"}, Replace(field, s)
  PROVE  IInv'
<1>1. Versioned(inputs) /\ Within(inputs, events) /\ events \in Nat BY DEF IInv
<1>2. inputs' = [inputs EXCEPT ![field] = s] /\ events' = events + 1 BY DEF Replace
<1>3. inputs' = [data |-> inputs.data, smoke |-> inputs.smoke,
                 views |-> IF field = "views" THEN s ELSE inputs.views,
                 runtime |-> IF field = "runtime" THEN s ELSE inputs.runtime,
                 probes |-> IF field = "probes" THEN s ELSE inputs.probes]
  <2>1. CASE field = "views" BY <1>1, <1>2, <2>1 DEF Versioned
  <2>2. CASE field = "runtime" BY <1>1, <1>2, <2>2 DEF Versioned
  <2>3. CASE field = "probes" BY <1>1, <1>2, <2>3 DEF Versioned
  <2> QED BY <2>1, <2>2, <2>3
<1>4. /\ inputs'.data = inputs.data
      /\ inputs'.views = (IF field = "views" THEN s ELSE inputs.views)
      /\ inputs'.runtime = (IF field = "runtime" THEN s ELSE inputs.runtime)
      /\ inputs'.probes = (IF field = "probes" THEN s ELSE inputs.probes)
      /\ inputs' = [data |-> inputs'.data, smoke |-> inputs'.smoke, views |-> inputs'.views,
                    runtime |-> inputs'.runtime, probes |-> inputs'.probes]
  BY <1>3
<1>5. /\ inputs'.views.at \in Nat /\ inputs'.runtime.at \in Nat /\ inputs'.probes.at \in Nat
      /\ inputs'.views.at <= events + 1 /\ inputs'.runtime.at <= events + 1
      /\ inputs'.probes.at <= events + 1
  BY <1>1, <1>4 DEF Versioned, Within
<1>6. Versioned(inputs') BY <1>1, <1>4, <1>5 DEF Versioned
<1>7. Within(inputs', events') BY <1>1, <1>2, <1>4, <1>5 DEF Versioned, Within
<1>8. Later(inputs, inputs')
  <2>1. Newer(inputs.views, inputs'.views) BY <1>1, <1>4 DEF Newer, Versioned, Within
  <2>2. Newer(inputs.runtime, inputs'.runtime) BY <1>1, <1>4 DEF Newer, Versioned, Within
  <2>3. Newer(inputs.probes, inputs'.probes) BY <1>1, <1>4 DEF Newer, Versioned, Within
  <2> QED BY <1>4, <2>1, <2>2, <2>3 DEF Later, Newer
<1>9. UNCHANGED <<disk, step, reads, held>> BY DEF Replace
<1> QED BY <1>1, <1>2, <1>6, <1>7, <1>8, <1>9, ProducingStays

LEMMA CertifyStays == ASSUME IInv, Certify PROVE IInv'
<1> DEFINE views(a) == [at |-> events + 1, applicable |-> a,
                        features |-> [d \in Registry |-> inputs.data[d].at]]
<1>1. PICK a \in Applicabilities : Replace("views", views(a)) BY DEF Certify
<1>2. views(a).at = events + 1 OBVIOUS
<1> QED BY <1>1, <1>2, ReplaceStays

LEMMA TimeSmokeStays == ASSUME IInv, TimeSmoke PROVE IInv'
<1> DEFINE runtime(u) == [at |-> events + 1, unit |-> u]
<1>1. PICK u \in Units : Replace("runtime", runtime(u)) BY DEF TimeSmoke
<1>2. runtime(u).at = events + 1 OBVIOUS
<1> QED BY <1>1, <1>2, ReplaceStays

LEMMA ProbeStays == ASSUME IInv, Probe PROVE IInv'
<1> DEFINE probes(u, ok) == [at |-> events + 1, unit |-> u, pass |-> ok]
<1>1. PICK u \in Units, ok \in BOOLEAN : Replace("probes", probes(u, ok)) BY DEF Probe
<1>2. probes(u, ok).at = events + 1 OBVIOUS
<1> QED BY <1>1, <1>2, ReplaceStays

-----------------------------------------------------------------------------
(* A process takes a step.                                                    *)

\* g is f with x in the place of p.
But(f, g, S, p, x) == DOMAIN g = S /\ \A q \in S : g[q] = IF q = p THEN x ELSE f[q]

\* Only p moves, to step s with what it then has read and holds.
Moves(p, s, r, h) ==
  /\ inputs' = inputs /\ events' = events
  /\ But(step, step', Planners, p, s)
  /\ But(reads, reads', Planners, p, r) /\ But(held, held', Validators, p, h)

LEMMA MovesStay ==
  ASSUME IInv, NEW p \in Planners, NEW s, NEW r, NEW h, Moves(p, s, r, h),
         ReadRecord(r), Planned(s, r, inputs),
         p \in Validators => HeldRecord(h) /\ Validating(s, r, h, inputs),
         Stored(disk', inputs)
  PROVE  IInv'
<1>1. inputs' = inputs /\ events' = events BY DEF Moves
<1>2. /\ DOMAIN step' = Planners /\ DOMAIN reads' = Planners /\ DOMAIN held' = Validators
      /\ \A q \in Planners : step'[q] = (IF q = p THEN s ELSE step[q])
      /\ \A q \in Planners : reads'[q] = (IF q = p THEN r ELSE reads[q])
      /\ \A v \in Validators : held'[v] = IF v = p THEN h ELSE held[v]
  BY DEF Moves, But
<1>3. Shape'
  <2>1. \A q \in Planners : ReadRecord(reads'[q]) BY <1>2 DEF IInv, Shape
  <2>2. \A w \in Validators : HeldRecord(held'[w]) BY <1>2 DEF IInv, Shape
  <2> QED BY <1>2, <2>1, <2>2 DEF Shape, ReadRecord, HeldRecord
<1>4. Stored(disk', inputs') BY <1>1
<1>5. ASSUME NEW q \in Planners
      PROVE  Planned(step'[q], reads'[q], inputs')
  BY <1>1, <1>2 DEF IInv
<1>6. ASSUME NEW w \in Validators
      PROVE  Validating(step'[w], reads'[w], held'[w], inputs')
  <2>1. w \in Planners BY DEF Planners
  <2> QED BY <1>1, <1>2, <2>1 DEF IInv
<1> QED BY <1>1, <1>3, <1>4, <1>5, <1>6 DEF IInv

\* What is known of the process that moves.
LEMMA Mover ==
  ASSUME IInv, NEW p \in Planners
  PROVE  /\ DOMAIN step = Planners /\ DOMAIN reads = Planners /\ DOMAIN held = Validators
         /\ ReadRecord(reads[p]) /\ Planned(step[p], reads[p], inputs)
         /\ p \in Validators =>
              HeldRecord(held[p]) /\ Validating(step[p], reads[p], held[p], inputs)
         /\ Stored(disk, inputs) /\ Versioned(inputs)
BY DEF IInv, Shape

\* The forms a step is written in.
LEMMA Keeping ==
  ASSUME IInv, NEW p \in Planners
  PROVE  /\ \A s : Goto(p, s) => But(step, step', Planners, p, s)
         /\ UNCHANGED reads => But(reads, reads', Planners, p, reads[p])
         /\ UNCHANGED held => But(held, held', Validators, p, held[p])
BY Mover DEF Goto, But

\* One that ends without having read or holding anything knows nothing.
LEMMA Ended ==
  ASSUME NEW s \in {"blocked", "refused", "done"}, NEW i
  PROVE  /\ \A r : Planned(s, r, i)
         /\ \A r, h : Validating(s, r, h, i)
         /\ ReadRecord(Unread) /\ HeldRecord(Nothing)
BY DEF Planned, Validating, Agreed, Rebuilding, Judging, Selected, Loaded, Paired, Staged,
       Watching, ReadRecord, HeldRecord, Unread, Nothing

LEMMA RaiseStays ==
  ASSUME IInv, NEW p \in Planners, Raise(p), UNCHANGED <<inputs, events, disk>>
  PROVE  IInv'
<1>1. Moves(p, "blocked", Unread, Nothing)
  BY Mover DEF Raise, Goto, Moves, But
<1>2. Stored(disk', inputs) BY Mover
<1> QED BY <1>1, <1>2, Ended, MovesStay

-----------------------------------------------------------------------------
(* build_pilot_plan.                                                          *)

LEMMA ReviewStays == ASSUME IInv, NEW p \in Planners, ValidateAcceptedSmoke(p) PROVE IInv'
<1> UNCHANGED <<inputs, events, disk>> BY DEF ValidateAcceptedSmoke
<1>1. CASE Raise(p) BY <1>1, RaiseStays
<1>2. CASE Goto(p, "datasets") /\ UNCHANGED <<reads, held>>
  <2>1. Moves(p, "datasets", reads[p], held[p]) BY <1>2, Keeping DEF Moves
  <2>2. Planned("datasets", reads[p], inputs) BY DEF Planned, Selected
  <2>3. p \in Validators => Validating("datasets", reads[p], held[p], inputs)
    <3> SUFFICES ASSUME p \in Validators
                 PROVE  Validating("datasets", reads[p], held[p], inputs)
      OBVIOUS
    <3>1. step[p] = "review" BY DEF ValidateAcceptedSmoke
    <3>2. Agreed("review", held[p], inputs) BY <3>1, Mover DEF Validating
    <3> QED BY <3>2 DEF Validating, Agreed, Rebuilding, Judging, Selected, Loaded, Paired,
                        Staged, Watching
  <2> QED BY <2>1, <2>2, <2>3, Mover, MovesStay
<1> QED BY <1>1, <1>2 DEF ValidateAcceptedSmoke

LEMMA SelectStays == ASSUME IInv, NEW p \in Planners, SelectCohort(p) PROVE IInv'
<1> UNCHANGED <<inputs, events, disk>> BY DEF SelectCohort
<1>1. CASE Raise(p) BY <1>1, RaiseStays
<1>2. CASE ~Raise(p)
  <2> DEFINE S == Selection(inputs.data)
             data == [d \in S |-> inputs.data[d]]
  <2>0. PICK r : r = [Unread EXCEPT !.cohort = S, !.data = data, !.matrix = inputs.probes.at]
    OBVIOUS
  <2>1. /\ step[p] = "datasets" /\ Goto(p, "views") /\ UNCHANGED held
        /\ reads' = [reads EXCEPT ![p] = r]
    BY <1>2, <2>0 DEF SelectCohort, Selection, BuildModelMatrix
  <2>2. /\ r.cohort = S /\ r.data = [d \in S |-> inputs.data[d]]
        /\ r.matrix = inputs.probes.at /\ ReadRecord(r)
    <3> HIDE DEF S
    <3>1. r.cohort = S /\ r.data = data /\ r.matrix = inputs.probes.at /\ ReadRecord(r)
      <4> HIDE DEF data
      <4> QED BY <2>0 DEF ReadRecord, Unread
    <3> QED BY <3>1
  <2> HIDE DEF S
  <2>3. Moves(p, "views", r, held[p])
    <3>1. But(reads, reads', Planners, p, r) BY <2>1, Mover DEF But
    <3> QED BY <2>1, <3>1, Keeping DEF Moves
  <2>4. Planned("views", r, inputs)
    <3>1. \A d \in Registry : Dated(inputs.data[d], inputs.data[d])
      BY Mover DEF Versioned, Dated
    <3> QED BY <2>2, <3>1 DEF Planned, DataDated
  <2>5. ASSUME p \in Validators
        PROVE  Validating("views", r, held[p], inputs)
    <3>1. Agreed("datasets", held[p], inputs) BY <2>1, <2>5, Mover DEF Validating
    <3>2. Known(held[p].protocol, inputs)
      BY <3>1 DEF Agreed, Loaded, Paired, Staged, Watching
    <3>3. Selecting(r, held[p], inputs)
      <4>1. held[p].protocol.sources.probes <= inputs.probes.at
        BY <3>2 DEF Known, SourcesDated
      <4> QED BY <2>2, <4>1, Mover DEF Selecting, Versioned, S
    <3>4. Agreed("views", held[p], inputs)
      BY <3>1 DEF Agreed, Loaded, Paired, Staged, Watching
    <3> QED BY <3>3, <3>4 DEF Validating, Rebuilding, Judging
  <2> QED BY <2>2, <2>3, <2>4, <2>5, Mover, MovesStay
<1> QED BY <1>1, <1>2

LEMMA CollectStays == ASSUME IInv, NEW p \in Planners, CollectViews(p) PROVE IInv'
<1> UNCHANGED <<inputs, events, disk>> BY DEF CollectViews
<1>1. CASE Raise(p) BY <1>1, RaiseStays
<1>2. CASE ~Raise(p)
  <2> DEFINE w == CollectViewApplicability(reads[p].cohort, inputs.views)
  <2>0. PICK r : r = [reads[p] EXCEPT !.views = w] OBVIOUS
  <2>1. /\ step[p] = "views" /\ Goto(p, "sources") /\ UNCHANGED held
        /\ reads' = [reads EXCEPT ![p].views = w]
    BY <1>2 DEF CollectViews, Keep
  <2>2. /\ r.cohort = reads[p].cohort /\ r.data = reads[p].data
        /\ r.matrix = reads[p].matrix /\ r.views = w /\ ReadRecord(r)
    <3> HIDE DEF w
    <3>1. reads[p] = [cohort |-> reads[p].cohort, data |-> reads[p].data,
                      matrix |-> reads[p].matrix, views |-> reads[p].views,
                      sources |-> reads[p].sources, runtime |-> reads[p].runtime,
                      probes |-> reads[p].probes]
      BY Mover DEF ReadRecord
    <3> QED BY <2>0, <3>1 DEF ReadRecord
  <2>3. reads' = [reads EXCEPT ![p] = r] BY <2>0, <2>1
  <2>4. Moves(p, "sources", r, held[p])
    <3>1. But(reads, reads', Planners, p, r) BY <2>3, Mover DEF But
    <3> QED BY <2>1, <3>1, Keeping DEF Moves
  <2>5. Planned("sources", r, inputs)
    <3>1. Planned("views", reads[p], inputs) BY <2>1, Mover
    <3> QED BY <2>2, <3>1 DEF Planned, Selected
  <2>6. ASSUME p \in Validators
        PROVE  Validating("sources", r, held[p], inputs)
    <3>1. Agreed("views", held[p], inputs) /\ Rebuilding("views", reads[p], held[p], inputs)
      BY <2>1, <2>6, Mover DEF Validating
    <3>2. Agreed("sources", held[p], inputs)
      BY <3>1 DEF Agreed, Loaded, Paired, Staged, Watching
    <3>3. Selecting(r, held[p], inputs) BY <2>2, <3>1 DEF Rebuilding, Selecting, Selected
    <3>4. Collecting(r, held[p], inputs.views) BY <2>2 DEF Collecting
    <3> QED BY <3>2, <3>3, <3>4 DEF Validating, Rebuilding, Judging
  <2> QED BY <2>2, <2>4, <2>5, <2>6, Mover, MovesStay
<1> QED BY <1>1, <1>2

LEMMA HashesStay == ASSUME IInv, NEW p \in Planners, AllSourceHashes(p) PROVE IInv'
<1> DEFINE w == SourceHashes(inputs, reads[p].cohort)
<1>0. PICK r : r = [reads[p] EXCEPT !.sources = w] OBVIOUS
<1>1. /\ step[p] = "sources" /\ Goto(p, "estimate") /\ UNCHANGED <<inputs, events, disk>>
      /\ reads' = [reads EXCEPT ![p] = r]
  BY <1>0 DEF AllSourceHashes, Keep
<1>2. /\ r.cohort = reads[p].cohort /\ r.data = reads[p].data
      /\ r.matrix = reads[p].matrix /\ r.views = reads[p].views
      /\ r.sources = w /\ ReadRecord(r)
  <2> HIDE DEF w
  <2>1. reads[p] = [cohort |-> reads[p].cohort, data |-> reads[p].data,
                    matrix |-> reads[p].matrix, views |-> reads[p].views,
                    sources |-> reads[p].sources, runtime |-> reads[p].runtime,
                    probes |-> reads[p].probes]
    BY Mover DEF ReadRecord
  <2> QED BY <1>0, <2>1 DEF ReadRecord
<1>3. But(reads, reads', Planners, p, r) BY <1>1, Mover DEF But
<1>4. /\ w.views = inputs.views.at /\ w.runtime = inputs.runtime.at
      /\ w.probes = inputs.probes.at
  BY DEF SourceHashes
<1>5. Planned("estimate", r, inputs)
  <2>1. Planned("sources", reads[p], inputs) BY <1>1, Mover
  <2>2. SourcesDated(r.sources, inputs) BY <1>2, <1>4, Mover DEF SourcesDated, Versioned
  <2> QED BY <1>2, <2>1, <2>2 DEF Planned, Selected
<1>6. CASE p \notin Validators
  <2>1. UNCHANGED held BY <1>6 DEF AllSourceHashes
  <2>2. Moves(p, "estimate", r, held[p]) BY <1>1, <1>3, <2>1, Keeping DEF Moves
  <2> QED BY <1>1, <1>2, <1>5, <1>6, <2>2, Mover, MovesStay
<1>7. CASE p \in Validators
  <2>0. PICK h : h = [held[p] EXCEPT !.moment = inputs] OBVIOUS
  <2>1. held' = [held EXCEPT ![p] = h] BY <1>7, <2>0 DEF AllSourceHashes
  <2>2. /\ h.protocol = held[p].protocol /\ h.inventory = held[p].inventory
        /\ h.schedule = held[p].schedule /\ h.before = held[p].before
        /\ h.good = held[p].good /\ h.moment = inputs /\ HeldRecord(h)
    <3>1. held[p] = [protocol |-> held[p].protocol, inventory |-> held[p].inventory,
                     schedule |-> held[p].schedule, before |-> held[p].before,
                     moment |-> held[p].moment, good |-> held[p].good]
      BY <1>7, Mover DEF HeldRecord
    <3> QED BY <2>0, <3>1 DEF HeldRecord
  <2>3. But(held, held', Validators, p, h) BY <2>1, Mover DEF But
  <2>4. Moves(p, "estimate", r, h) BY <1>1, <1>3, <2>3, Keeping DEF Moves
  <2>5. /\ Agreed("sources", held[p], inputs)
        /\ Rebuilding("sources", reads[p], held[p], inputs)
    BY <1>1, <1>7, Mover DEF Validating
  <2>6. Agreed("estimate", h, inputs)
    BY <2>2, <2>5 DEF Agreed, Loaded, Paired, Staged, Watching
  <2>7. Selecting(r, h, inputs) /\ Collecting(r, h, inputs.views)
    BY <1>2, <2>2, <2>5 DEF Rebuilding, Selecting, Collecting, Untouched, Selected
  <2>8. Hashing(r, h, inputs)
    <3>1. Earlier(inputs, inputs) BY Mover DEF Earlier, DataDated, Dated, Versioned
    <3>2. h.protocol.probes.at <= inputs.probes.at
      BY <2>6 DEF Agreed, Known, Loaded, Paired, Staged, Watching
    <3> QED BY <1>2, <2>2, <2>7, <3>1, <3>2 DEF Hashing, Selecting
  <2>9. Validating("estimate", r, h, inputs)
    BY <2>6, <2>7, <2>8 DEF Validating, Rebuilding, Judging
  <2> QED BY <1>1, <1>2, <1>5, <2>2, <2>4, <2>9, Mover, MovesStay
<1> QED BY <1>6, <1>7

-----------------------------------------------------------------------------
(* freeze.                                                                    *)

\* A plan that holds splits the registry.
LEMMA PlanSplits ==
  ASSUME NEW r, PlanHolds(r)
  PROVE  r.cohort \subseteq Registry
<1>1. ProtocolHolds(Protocol(r)) BY DEF PlanHolds
<1>2. Ids(Protocol(r).selected) \subseteq Registry BY <1>1 DEF ProtocolHolds
<1>3. Protocol(r).selected = SelectedDatasets(r.cohort, r.data) BY DEF Protocol
<1>4. ASSUME NEW d \in r.cohort
      PROVE  d \in Registry
  <2> DEFINE e == [dataset |-> d, at |-> r.data[d].at]
  <2>1. e \in Protocol(r).selected BY <1>3 DEF SelectedDatasets
  <2>2. e.dataset \in Ids(Protocol(r).selected) BY <2>1 DEF Ids
  <2> QED BY <1>2, <2>2
<1> QED BY <1>4

LEMMA Completed ==
  ASSUME IInv, NEW p \in Planners
  PROVE  LET r == Complete(p) IN
         /\ r.cohort = reads[p].cohort /\ r.data = reads[p].data
         /\ r.matrix = reads[p].matrix /\ r.views = reads[p].views
         /\ r.sources = reads[p].sources
         /\ r.runtime = inputs.runtime /\ r.probes = inputs.probes /\ ReadRecord(r)
<1>0. PICK r : r = [reads[p] EXCEPT !.runtime = inputs.runtime, !.probes = inputs.probes]
  OBVIOUS
<1>1. reads[p] = [cohort |-> reads[p].cohort, data |-> reads[p].data,
                  matrix |-> reads[p].matrix, views |-> reads[p].views,
                  sources |-> reads[p].sources, runtime |-> reads[p].runtime,
                  probes |-> reads[p].probes]
  BY Mover DEF ReadRecord
<1>2. /\ r.cohort = reads[p].cohort /\ r.data = reads[p].data
      /\ r.matrix = reads[p].matrix /\ r.views = reads[p].views
      /\ r.sources = reads[p].sources
      /\ r.runtime = inputs.runtime /\ r.probes = inputs.probes /\ ReadRecord(r)
  BY <1>0, <1>1 DEF ReadRecord
<1>3. Complete(p) = r BY <1>0 DEF Complete
<1> QED BY <1>2, <1>3

LEMMA FreezeStays == ASSUME IInv, NEW p \in Planners, Freeze(p) PROVE IInv'
<1>1. /\ p \in Freezers /\ step[p] = "estimate" /\ p \notin Validators
      /\ UNCHANGED <<inputs, events, disk, held>>
  BY ProtocolAssumption DEF Freeze
<1>2. CASE PlanHolds(Complete(p)) /\ ScheduleHolds(Schedule(Complete(p)))
  <2>1. PICK r : r = Complete(p) OBVIOUS
  <2>2. reads' = [reads EXCEPT ![p] = r] /\ Goto(p, "protocol") BY <1>2, <2>1 DEF Freeze
  <2>3. But(reads, reads', Planners, p, r) BY <2>2, Mover DEF But
  <2>4. Moves(p, "protocol", r, held[p]) BY <1>1, <2>2, <2>3, Keeping DEF Moves
  <2>5. /\ r.cohort = reads[p].cohort /\ r.data = reads[p].data
        /\ r.sources = reads[p].sources /\ r.probes = inputs.probes /\ ReadRecord(r)
    BY <2>1, Completed
  <2>6. r.cohort \subseteq Registry BY <1>2, <2>1, PlanSplits
  <2>7. Planned("estimate", reads[p], inputs) BY <1>1, Mover
  <2>8. Known(r, inputs)
    <3>1. DataDated(r.data, r.cohort, inputs) BY <2>5, <2>6, <2>7 DEF Planned, DataDated, Selected
    <3>2. SourcesDated(r.sources, inputs) BY <2>5, <2>7 DEF Planned
    <3> QED BY <2>5, <2>6, <3>1, <3>2, Mover DEF Known, SourcesDated, Versioned
  <2>9. Planned("protocol", r, inputs) BY <2>8 DEF Planned, Selected
  <2> QED BY <1>1, <2>4, <2>5, <2>9, Mover, MovesStay
<1>3. CASE ~(PlanHolds(Complete(p)) /\ ScheduleHolds(Schedule(Complete(p))))
  <2>1. reads' = [reads EXCEPT ![p] = Unread] /\ Goto(p, "refused") BY <1>3 DEF Freeze
  <2>2. But(reads, reads', Planners, p, Unread) BY <2>1, Mover DEF But
  <2>3. Moves(p, "refused", Unread, held[p]) BY <1>1, <2>1, <2>2, Keeping DEF Moves
  <2> QED BY <1>1, <2>3, Ended, Mover, MovesStay
<1> QED BY <1>2, <1>3

LEMMA WriteStays == ASSUME IInv, NEW p \in Freezers, Write(p) PROVE IInv'
<1>0. p \in Planners /\ p \notin Validators BY ProtocolAssumption DEF Planners
<1>1. UNCHANGED <<inputs, events, held>> BY DEF Write
<1>2. /\ disk = [protocol |-> disk.protocol, inventory |-> disk.inventory,
                 schedule |-> disk.schedule, report |-> disk.report]
      /\ disk.protocol # Absent => Known(disk.protocol, inputs)
  BY <1>0, Mover DEF Stored
<1>3. CASE /\ step[p] = "protocol" /\ Goto(p, "inventory")
           /\ disk' = [disk EXCEPT !.protocol = reads[p]] /\ UNCHANGED reads
  <2>1. Known(reads[p], inputs) BY <1>0, <1>3, Mover DEF Planned
  <2>2. Stored(disk', inputs) BY <1>2, <1>3, <2>1 DEF Stored
  <2>3. Planned("inventory", reads[p], inputs) BY <2>1 DEF Planned, Selected
  <2>4. Moves(p, "inventory", reads[p], held[p]) BY <1>0, <1>1, <1>3, Keeping DEF Moves
  <2> QED BY <1>0, <2>2, <2>3, <2>4, Mover, MovesStay
<1>4. CASE /\ step[p] = "inventory" /\ Goto(p, "schedule")
           /\ disk' = [disk EXCEPT !.inventory = reads[p]] /\ UNCHANGED reads
  <2>1. Known(reads[p], inputs) BY <1>0, <1>4, Mover DEF Planned
  <2>2. Stored(disk', inputs) BY <1>2, <1>4 DEF Stored
  <2>3. Planned("schedule", reads[p], inputs) BY <2>1 DEF Planned, Selected
  <2>4. Moves(p, "schedule", reads[p], held[p]) BY <1>0, <1>1, <1>4, Keeping DEF Moves
  <2> QED BY <1>0, <2>2, <2>3, <2>4, Mover, MovesStay
<1>5. CASE /\ step[p] = "schedule" /\ Goto(p, "done")
           /\ disk' = [disk EXCEPT !.schedule = reads[p]]
           /\ reads' = [reads EXCEPT ![p] = Unread]
  <2>1. Stored(disk', inputs) BY <1>2, <1>5 DEF Stored
  <2>2. But(reads, reads', Planners, p, Unread) BY <1>0, <1>5, Mover DEF But
  <2>3. Moves(p, "done", Unread, held[p]) BY <1>0, <1>1, <1>5, <2>2, Keeping DEF Moves
  <2> QED BY <1>0, <2>1, <2>3, Ended, MovesStay
<1> QED BY <1>3, <1>4, <1>5 DEF Write

-----------------------------------------------------------------------------
(* validate.                                                                  *)

\* A validator that has not yet selected a cohort, or has used it.
LEMMA NotPlanning ==
  ASSUME NEW s \in {"load", "pair", "stages", "before", "review", "gates", "after", "report"},
         NEW r, NEW i
  PROVE  /\ Planned(s, r, i)
         /\ \A h : Rebuilding(s, r, h, i)
         /\ s \notin {"gates", "after"} => \A h : Judging(s, h, i)
BY DEF Planned, Rebuilding, Judging, Selected

LEMMA LoadProtocolStays == ASSUME IInv, NEW v \in Validators, LoadProtocol(v) PROVE IInv'
<1>0. v \in Planners BY DEF Planners
<1>1. PICK h : h = [held[v] EXCEPT !.protocol = disk.protocol] OBVIOUS
<1>2. /\ step[v] = "load" /\ disk.protocol # Absent /\ Goto(v, "pair")
      /\ UNCHANGED <<inputs, events, disk, reads>> /\ held' = [held EXCEPT ![v] = h]
  BY <1>1 DEF LoadProtocol
<1>3. h.protocol = disk.protocol /\ HeldRecord(h)
  <2>1. HeldRecord(held[v]) BY <1>0, Mover
  <2> QED BY <1>1, <2>1 DEF HeldRecord
<1>4. But(held, held', Validators, v, h) BY <1>0, <1>2, Mover DEF But
<1>5. Moves(v, "pair", reads[v], h) BY <1>0, <1>2, <1>4, Keeping DEF Moves
<1>6. Known(h.protocol, inputs) BY <1>0, <1>2, <1>3, Mover DEF Stored
<1>7. Agreed("pair", h, inputs) BY <1>6 DEF Agreed, Paired, Staged, Watching
<1>8. Validating("pair", reads[v], h, inputs) BY <1>7, NotPlanning DEF Validating
<1> QED BY <1>0, <1>2, <1>3, <1>5, <1>8, NotPlanning, Mover, MovesStay

LEMMA LoadInventoryStays == ASSUME IInv, NEW v \in Validators, LoadInventory(v) PROVE IInv'
<1>0. v \in Planners BY DEF Planners
<1>1. step[v] = "pair" /\ UNCHANGED <<inputs, events, disk>> BY DEF LoadInventory
<1>2. CASE Raise(v) BY <1>0, <1>1, <1>2, RaiseStays
<1>3. CASE ~Raise(v)
  <2>1. PICK h : h = [held[v] EXCEPT !.inventory = disk.inventory] OBVIOUS
  <2>2. /\ PairHolds(held[v].protocol, disk.inventory) /\ Goto(v, "stages")
        /\ UNCHANGED reads /\ held' = [held EXCEPT ![v] = h]
    BY <1>3, <2>1 DEF LoadInventory
  <2>3. h.protocol = held[v].protocol /\ h.inventory = disk.inventory /\ HeldRecord(h)
    <3>1. HeldRecord(held[v]) BY <1>0, Mover
    <3> QED BY <2>1, <3>1 DEF HeldRecord
  <2>4. But(held, held', Validators, v, h) BY <1>0, <2>2, Mover DEF But
  <2>5. Moves(v, "stages", reads[v], h) BY <1>0, <1>1, <2>2, <2>4, Keeping DEF Moves
  <2>6. Agreed("pair", held[v], inputs) BY <1>0, <1>1, Mover DEF Validating
  <2>7. Agreed("stages", h, inputs)
    BY <2>2, <2>3, <2>6 DEF Agreed, PairHolds, Loaded, Paired, Staged, Watching
  <2>8. Validating("stages", reads[v], h, inputs) BY <2>7, NotPlanning DEF Validating
  <2> QED BY <1>0, <1>1, <2>3, <2>5, <2>8, NotPlanning, Mover, MovesStay
<1> QED BY <1>2, <1>3

\* A schedule names its protocol.
LEMMA ScheduleNames ==
  ASSUME NEW a, NEW b, Schedule(a) = Schedule(b)
  PROVE  Protocol(a) = Protocol(b)
<1>1. \A r : Schedule(r).protocol = Protocol(r) BY DEF Schedule, BuildStagedSchedule
<1> QED BY <1>1

LEMMA LoadScheduleStays == ASSUME IInv, NEW v \in Validators, LoadSchedule(v) PROVE IInv'
<1>0. v \in Planners BY DEF Planners
<1> DEFINE good == ScheduleMatches(v, disk.schedule)
<1>1. PICK h : h = [held[v] EXCEPT !.schedule = disk.schedule, !.good = good] OBVIOUS
<1>2. /\ step[v] = "stages" /\ Goto(v, "before")
      /\ UNCHANGED <<inputs, events, disk, reads>> /\ But(held, held', Validators, v, h)
  <2>1. /\ step[v] = "stages" /\ Goto(v, "before")
        /\ UNCHANGED <<inputs, events, disk, reads>>
        /\ held' = [held EXCEPT ![v].schedule = disk.schedule, ![v].good = good]
    BY DEF LoadSchedule
  <2> HIDE DEF good
  <2> QED BY <1>0, <1>1, <2>1, Mover DEF But
<1>3. /\ h.protocol = held[v].protocol /\ h.inventory = held[v].inventory
      /\ h.schedule = disk.schedule /\ h.good = good /\ HeldRecord(h)
  <2> HIDE DEF good
  <2>1. HeldRecord(held[v]) BY <1>0, Mover
  <2> QED BY <1>1, <2>1 DEF HeldRecord
<1>5. Moves(v, "before", reads[v], h) BY <1>0, <1>2, Keeping DEF Moves
<1>6. Agreed("stages", held[v], inputs) BY <1>0, <1>2, Mover DEF Validating
<1>7. h.good => h.schedule # Absent /\ Protocol(h.schedule) = Protocol(h.protocol)
  BY <1>3, ScheduleNames DEF ScheduleMatches
<1>8. Agreed("before", h, inputs)
  BY <1>3, <1>6, <1>7 DEF Agreed, Loaded, Paired, Staged, Watching
<1>9. Validating("before", reads[v], h, inputs) BY <1>8, NotPlanning DEF Validating
<1> QED BY <1>0, <1>2, <1>3, <1>5, <1>9, NotPlanning, Mover, MovesStay

LEMMA SnapshotStays == ASSUME IInv, NEW v \in Validators, Snapshot(v) PROVE IInv'
<1>0. v \in Planners BY DEF Planners
<1>1. step[v] = "before" /\ UNCHANGED <<inputs, events, disk>> BY DEF Snapshot
<1>2. CASE Raise(v) BY <1>0, <1>1, <1>2, RaiseStays
<1>3. CASE ~Raise(v)
  <2> DEFINE good == held[v].good /\ inputs.smoke.at = held[v].protocol.sources.smoke
  <2>1. PICK h : h = [held[v] EXCEPT !.before = inputs.data, !.good = good] OBVIOUS
  <2>2. Goto(v, "review") /\ UNCHANGED reads /\ But(held, held', Validators, v, h)
    <3>1. /\ Goto(v, "review") /\ UNCHANGED reads
          /\ held' = [held EXCEPT
               ![v].before = inputs.data,
               ![v].good = @ /\ inputs.smoke.at = held[v].protocol.sources.smoke]
      BY <1>3 DEF Snapshot, TreeSnapshot
    <3>2. held' = [held EXCEPT ![v] = h] BY <2>1, <3>1
    <3> QED BY <1>0, <3>1, <3>2, Mover DEF But
  <2>3. /\ h.protocol = held[v].protocol /\ h.inventory = held[v].inventory
        /\ h.schedule = held[v].schedule /\ h.before = inputs.data
        /\ h.good = good /\ HeldRecord(h)
    <3> HIDE DEF good
    <3>1. HeldRecord(held[v]) BY <1>0, Mover
    <3> QED BY <2>1, <3>1 DEF HeldRecord
  <2>5. Moves(v, "review", reads[v], h) BY <1>0, <1>1, <2>2, Keeping DEF Moves
  <2>6. Agreed("before", held[v], inputs) BY <1>0, <1>1, Mover DEF Validating
  <2>7. DOMAIN h.before = Registry /\ DataDated(h.before, Registry, inputs)
    BY <1>0, <2>3, Mover DEF Versioned, DataDated, Dated
  <2>8. Agreed("review", h, inputs)
    BY <2>3, <2>6, <2>7 DEF Agreed, Loaded, Paired, Staged, Watching
  <2>9. Validating("review", reads[v], h, inputs) BY <2>8, NotPlanning DEF Validating
  <2> QED BY <1>0, <1>1, <2>3, <2>5, <2>9, NotPlanning, Mover, MovesStay
<1> QED BY <1>2, <1>3

-----------------------------------------------------------------------------
(* The gate that compares the plans.                                          *)

\* What two equal protocols agree on.
LEMMA ProtocolParts ==
  ASSUME NEW a, NEW b, Protocol(a) = Protocol(b)
  PROVE  /\ SelectedDatasets(a.cohort, a.data) = SelectedDatasets(b.cohort, b.data)
         /\ a.views = b.views /\ a.matrix = b.matrix /\ a.sources = b.sources
         /\ a.runtime.at = b.runtime.at /\ a.probes.at = b.probes.at
<1>1. \A r : /\ Protocol(r).selected = SelectedDatasets(r.cohort, r.data)
             /\ Protocol(r).views = r.views /\ Protocol(r).models = r.matrix
             /\ Protocol(r).sources = r.sources
             /\ Protocol(r).estimate = RuntimeEstimate(r.cohort, r.views, r.runtime, r.probes)
  BY DEF Protocol
<1>2. \A S, w, t, p : RuntimeEstimate(S, w, t, p).measured = [runtime |-> t.at, probes |-> p.at]
  BY DEF RuntimeEstimate
<1>3. [runtime |-> a.runtime.at, probes |-> a.probes.at]
        = [runtime |-> b.runtime.at, probes |-> b.probes.at]
  BY <1>1, <1>2
<1> QED BY <1>1, <1>3

\* The versions a protocol freezes are those of its cohort.
LEMMA SelectedParts ==
  ASSUME NEW S, NEW T, NEW x, NEW y, SelectedDatasets(S, x) = SelectedDatasets(T, y),
         NEW d \in S
  PROVE  d \in T /\ x[d].at = y[d].at
<1> DEFINE e == [dataset |-> d, at |-> x[d].at]
<1>1. e \in SelectedDatasets(T, y) BY DEF SelectedDatasets
<1>2. PICK c \in T : e = [dataset |-> c, at |-> y[c].at] BY <1>1 DEF SelectedDatasets
<1>3. e.dataset = d /\ e.at = x[d].at OBVIOUS
<1> HIDE DEF e
<1>4. c = d /\ x[d].at = y[c].at BY <1>2, <1>3
<1> QED BY <1>4

\* f is the frozen plan, c the plan built again, h what the validator holds.
LEMMA SamePlanSameMoment ==
  ASSUME NEW i, NEW f, NEW c, NEW h, h.protocol = f,
         Versioned(i), Known(f, i), Selecting(c, h, i), Hashing(c, h, i),
         c.runtime = i.runtime, c.probes = i.probes,
         Untouched(h, i), Protocol(c) = Protocol(f)
  PROVE  /\ InPlace(f, i)
         /\ i.runtime.at = f.sources.runtime => PlanOf(f, h.moment)
<1> DEFINE S == c.cohort
           m == h.moment
           q == ReadsAt(m)
<1>1. /\ SelectedDatasets(f.cohort, f.data) = SelectedDatasets(c.cohort, c.data)
      /\ c.views = f.views /\ c.matrix = f.matrix /\ c.sources = f.sources
      /\ c.runtime.at = f.runtime.at /\ c.probes.at = f.probes.at
  BY ProtocolParts
<1>2. /\ S = Selection(i.data) /\ c.data = [d \in S |-> i.data[d]] /\ m.data = i.data
      /\ Earlier(m, i) /\ c.sources = SourceHashes(m, S)
      /\ Collecting(c, h, m.views)
  BY DEF Selecting, Hashing
<1>3. /\ c.sources.views = m.views.at /\ c.sources.runtime = m.runtime.at
      /\ c.sources.probes = m.probes.at
  BY <1>2 DEF SourceHashes
<1>4. InPlace(f, i)
  <2> SUFFICES ASSUME NEW d \in f.cohort
               PROVE  i.data[d] = f.data[d]
    BY DEF InPlace
  <2>1. d \in S /\ f.data[d].at = c.data[d].at BY <1>1, SelectedParts
  <2>2. c.data[d] = i.data[d] BY <1>2, <2>1
  <2>3. Dated(f.data[d], i.data[d]) BY DEF Known, DataDated
  <2> QED BY <2>1, <2>2, <2>3 DEF Dated
<1>5. ASSUME i.runtime.at = f.sources.runtime
      PROVE  Protocol(c) = Protocol(q)
  <2>1. m.runtime = i.runtime
    <3>1. Dated(m.runtime, i.runtime) BY <1>2 DEF Earlier
    <3> QED BY <1>1, <1>3, <1>5, <3>1 DEF Dated
  <2>2. m.probes = i.probes
    <3>1. Dated(m.probes, i.probes) BY <1>2 DEF Earlier
    <3>2. f.probes.at <= m.probes.at /\ f.probes.at = i.probes.at BY <1>1 DEF Hashing
    <3> QED BY <3>1, <3>2 DEF Dated, Versioned
  <2>3. c.matrix = m.probes.at
    <3>1. f.sources.probes <= c.matrix /\ c.matrix \in Nat BY DEF Selecting
    <3>2. c.matrix <= m.probes.at BY DEF Hashing
    <3>3. m.probes.at \in Nat BY <2>2 DEF Versioned
    <3> QED BY <1>1, <1>3, <3>1, <3>2, <3>3
  <2>4. c.views = CollectViewApplicability(S, m.views)
    BY <1>1, <1>2, <1>3 DEF Collecting
  <2>5. /\ q.cohort = S /\ q.data = m.data /\ q.matrix = m.probes.at
        /\ q.views = CollectViewApplicability(S, m.views)
        /\ q.sources = SourceHashes(m, S) /\ q.runtime = m.runtime /\ q.probes = m.probes
    BY <1>2 DEF ReadsAt, BuildModelMatrix, Selection
  <2>6. SelectedDatasets(S, c.data) = SelectedDatasets(S, m.data)
    BY <1>2 DEF SelectedDatasets
  <2> HIDE DEF q
  <2>7. /\ q.cohort = c.cohort /\ q.matrix = c.matrix /\ q.views = c.views
        /\ q.sources = c.sources /\ q.runtime = c.runtime /\ q.probes = c.probes
        /\ SelectedDatasets(q.cohort, q.data) = SelectedDatasets(c.cohort, c.data)
    BY <1>2, <2>1, <2>2, <2>3, <2>4, <2>5, <2>6
  <2> QED BY <2>7 DEF Protocol
<1>6. i.runtime.at = f.sources.runtime => PlanOf(f, m) BY <1>5 DEF PlanOf
<1> QED BY <1>4, <1>6

LEMMA RebuildStays == ASSUME IInv, NEW v \in Validators, Rebuild(v) PROVE IInv'
<1>0. v \in Planners BY DEF Planners
<1>1. step[v] = "estimate" /\ UNCHANGED <<inputs, events, disk>> BY DEF Rebuild
<1>2. CASE Raise(v) BY <1>0, <1>1, <1>2, RaiseStays
<1>3. CASE ~Raise(v)
  <2> DEFINE good == held[v].good /\ SamePlan(v) /\ DocumentGates(v)
  <2>1. PICK h : h = [held[v] EXCEPT !.good = good] OBVIOUS
  <2>2. /\ Goto(v, "gates") /\ But(reads, reads', Planners, v, Unread)
        /\ But(held, held', Validators, v, h)
    <3>1. /\ Goto(v, "gates") /\ reads' = [reads EXCEPT ![v] = Unread]
          /\ held' = [held EXCEPT ![v].good = @ /\ SamePlan(v) /\ DocumentGates(v)]
      BY <1>3 DEF Rebuild
    <3>2. held' = [held EXCEPT ![v] = h] BY <2>1, <3>1
    <3> QED BY <1>0, <3>1, <3>2, Mover DEF But
  <2>3. /\ h.protocol = held[v].protocol /\ h.inventory = held[v].inventory
        /\ h.schedule = held[v].schedule /\ h.before = held[v].before
        /\ h.moment = held[v].moment /\ h.good = good /\ HeldRecord(h)
    <3> HIDE DEF good
    <3>1. HeldRecord(held[v]) BY <1>0, Mover
    <3> QED BY <2>1, <3>1 DEF HeldRecord
  <2>4. Moves(v, "gates", Unread, h) BY <1>0, <1>1, <2>2, Keeping DEF Moves
  <2>5. /\ Agreed("estimate", held[v], inputs)
        /\ Rebuilding("estimate", reads[v], held[v], inputs)
    BY <1>0, <1>1, Mover DEF Validating
  <2>6. h.good => held[v].good /\ SamePlan(v) BY <2>3
  <2>7. Agreed("gates", h, inputs)
    BY <2>3, <2>5, <2>6 DEF Agreed, Loaded, Paired, Staged, Watching
  <2>8. ASSUME h.good, Untouched(h, inputs)
        PROVE  /\ InPlace(h.protocol, inputs)
               /\ inputs.runtime.at = h.protocol.sources.runtime =>
                    PlanOf(h.protocol, h.moment)
    <3>1. PICK c : c = Complete(v) OBVIOUS
    <3>2. /\ c.cohort = reads[v].cohort /\ c.data = reads[v].data
          /\ c.matrix = reads[v].matrix /\ c.views = reads[v].views
          /\ c.sources = reads[v].sources
          /\ c.runtime = inputs.runtime /\ c.probes = inputs.probes
      BY <1>0, <3>1, Completed
    <3>3. Protocol(c) = Protocol(h.protocol) BY <2>3, <2>6, <2>8, <3>1 DEF SamePlan
    <3>4. Known(h.protocol, inputs)
      BY <2>7 DEF Agreed, Loaded, Paired, Staged, Watching
    <3>5. Selecting(c, h, inputs)
      BY <2>3, <2>5, <3>2 DEF Rebuilding, Selecting, Selected, Untouched
    <3>6. Hashing(c, h, inputs)
      BY <2>3, <2>5, <3>2 DEF Rebuilding, Hashing, Collecting, Untouched
    <3>7. Versioned(inputs) BY <1>0, Mover
    <3> QED BY <2>8, <3>2, <3>3, <3>4, <3>5, <3>6, <3>7, SamePlanSameMoment
  <2>9. Judging("gates", h, inputs) BY <2>8 DEF Judging
  <2>10. Validating("gates", Unread, h, inputs) BY <2>7, <2>9, NotPlanning DEF Validating
  <2> QED BY <1>0, <1>1, <2>3, <2>4, <2>10, NotPlanning, Ended, Mover, MovesStay
<1> QED BY <1>2, <1>3

LEMMA LateGatesStay == ASSUME IInv, NEW v \in Validators, LateGates(v) PROVE IInv'
<1>0. v \in Planners BY DEF Planners
<1>1. step[v] = "gates" /\ UNCHANGED <<inputs, events, disk, reads>> /\ Goto(v, "after")
  BY DEF LateGates
<1>2. PICK tools \in BOOLEAN, clone \in BOOLEAN :
        held' = [held EXCEPT ![v].good =
                   @ /\ StillFrozen(held[v].protocol.sources) /\ tools /\ clone]
  BY DEF LateGates, ToolGates
<1> DEFINE good == held[v].good /\ StillFrozen(held[v].protocol.sources) /\ tools /\ clone
<1>3. PICK h : h = [held[v] EXCEPT !.good = good] OBVIOUS
<1>4. But(held, held', Validators, v, h)
  <2>1. held' = [held EXCEPT ![v] = h] BY <1>2, <1>3
  <2> QED BY <1>0, <2>1, Mover DEF But
<1>5. /\ h.protocol = held[v].protocol /\ h.inventory = held[v].inventory
      /\ h.schedule = held[v].schedule /\ h.before = held[v].before
      /\ h.moment = held[v].moment /\ h.good = good /\ HeldRecord(h)
  <2> HIDE DEF good
  <2>1. HeldRecord(held[v]) BY <1>0, Mover
  <2> QED BY <1>3, <2>1 DEF HeldRecord
<1>6. Moves(v, "after", reads[v], h) BY <1>0, <1>1, <1>4, Keeping DEF Moves
<1>7. Agreed("gates", held[v], inputs) /\ Judging("gates", held[v], inputs)
  BY <1>0, <1>1, Mover DEF Validating
<1>8. h.good => held[v].good /\ inputs.runtime.at = h.protocol.sources.runtime
  BY <1>5 DEF StillFrozen
<1>9. Agreed("after", h, inputs)
  BY <1>5, <1>7, <1>8 DEF Agreed, Loaded, Paired, Staged, Watching
<1>10. Judging("after", h, inputs)
  BY <1>5, <1>7, <1>8 DEF Judging, Untouched
<1>11. Validating("after", reads[v], h, inputs) BY <1>9, <1>10, NotPlanning DEF Validating
<1> QED BY <1>0, <1>1, <1>5, <1>6, <1>11, NotPlanning, Mover, MovesStay

\* A validator with nothing left to do but write its report knows nothing.
LEMMA ConcludeStays == ASSUME IInv, NEW v \in Validators, Conclude(v) PROVE IInv'
<1>0. v \in Planners BY DEF Planners
<1>1. Goto(v, "report") /\ UNCHANGED <<inputs, events, disk, reads>> BY DEF Conclude
<1> DEFINE good == held[v].good /\ TreeSnapshot = held[v].before
<1>2. PICK h : h = [held[v] EXCEPT !.good = good, !.before = Absent, !.moment = Absent]
  OBVIOUS
<1>3. But(held, held', Validators, v, h)
  <2>1. held' = [held EXCEPT ![v].good = @ /\ TreeSnapshot = held[v].before,
                             ![v].before = Absent, ![v].moment = Absent]
    BY DEF Conclude
  <2>2. held' = [held EXCEPT ![v] = h] BY <1>2, <2>1
  <2> QED BY <1>0, <2>2, Mover DEF But
<1>4. HeldRecord(h)
  <2> HIDE DEF good
  <2>1. HeldRecord(held[v]) BY <1>0, Mover
  <2> QED BY <1>2, <2>1 DEF HeldRecord
<1>5. Moves(v, "report", reads[v], h) BY <1>0, <1>1, <1>3, Keeping DEF Moves
<1>6. Validating("report", reads[v], h, inputs)
  BY NotPlanning DEF Validating, Agreed, Loaded, Paired, Staged, Watching
<1> QED BY <1>0, <1>1, <1>4, <1>5, <1>6, NotPlanning, Mover, MovesStay

LEMMA ReportStays == ASSUME IInv, NEW v \in Validators, Report(v) PROVE IInv'
<1>0. v \in Planners BY DEF Planners
<1>1. /\ Goto(v, "done") /\ UNCHANGED <<inputs, events, reads>>
      /\ held' = [held EXCEPT ![v] = Nothing]
      /\ disk' = [disk EXCEPT !.report = Status(v)]
  BY DEF Report
<1>2. But(held, held', Validators, v, Nothing) BY <1>0, <1>1, Mover DEF But
<1>3. Moves(v, "done", reads[v], Nothing) BY <1>0, <1>1, <1>2, Keeping DEF Moves
<1>4. Stored(disk', inputs)
  <2>1. Stored(disk, inputs) BY <1>0, Mover
  <2> QED BY <1>1, <2>1 DEF Stored
<1> QED BY <1>0, <1>3, <1>4, Ended, Mover, MovesStay

-----------------------------------------------------------------------------
(* The invariant holds.                                                       *)

LEMMA InitInv == Init => IInv
<1> SUFFICES ASSUME Init
             PROVE  IInv
  OBVIOUS
<1>1. PICK a : inputs = [data |-> [d \in Registry |-> [at |-> 0, wrong |-> "nothing"]],
                         smoke |-> [at |-> 0, accepted |-> TRUE],
                         views |-> [at |-> 0, applicable |-> a,
                                    features |-> [d \in Registry |-> 0]],
                         runtime |-> [at |-> 0, unit |-> 1],
                         probes |-> [at |-> 0, unit |-> 1, pass |-> TRUE]]
  BY DEF Init
<1>2. events = 0 /\ Versioned(inputs) /\ Within(inputs, events)
  BY <1>1 DEF Init, Versioned, Within
<1>3. Shape BY DEF Init, Shape, ReadRecord, HeldRecord, Unread, Nothing
<1>4. Stored(disk, inputs) BY DEF Init, Stored
<1>5. ASSUME NEW p \in Planners
      PROVE  Planned(step[p], reads[p], inputs)
  <2>1. step[p] \in {"review", "load"} BY DEF Init
  <2> QED BY <2>1, NotPlanning
<1>6. ASSUME NEW v \in Validators
      PROVE  Validating(step[v], reads[v], held[v], inputs)
  <2>1. step[v] = "load" BY ProtocolAssumption DEF Init, Planners
  <2>2. Agreed("load", held[v], inputs) BY DEF Agreed, Loaded, Paired, Staged, Watching
  <2> QED BY <2>1, <2>2, NotPlanning DEF Validating
<1> QED BY <1>2, <1>3, <1>4, <1>5, <1>6 DEF IInv

LEMMA NextInv == IInv /\ [Next]_vars => IInv'
<1> SUFFICES ASSUME IInv, [Next]_vars
             PROVE  IInv'
  OBVIOUS
<1>1. CASE Produce
  BY <1>1, ReprocessStays, ReviewSmokeStays, CertifyStays, TimeSmokeStays, ProbeStays
     DEF Produce
<1>2. ASSUME NEW p \in Planners, Plan(p)
      PROVE  IInv'
  BY <1>2, ReviewStays, SelectStays, CollectStays, HashesStay DEF Plan
<1>3. ASSUME NEW p \in Freezers, Freeze(p) \/ Write(p)
      PROVE  IInv'
  <2>1. p \in Planners BY DEF Planners
  <2> QED BY <1>3, <2>1, FreezeStays, WriteStays
<1>4. ASSUME NEW v \in Validators, Validate(v)
      PROVE  IInv'
  BY <1>4, LoadProtocolStays, LoadInventoryStays, LoadScheduleStays, SnapshotStays,
     RebuildStays, LateGatesStay, ConcludeStays, ReportStays DEF Validate
<1>5. CASE UNCHANGED vars
  <2>1. UNCHANGED <<inputs, events, disk, step, reads, held>> BY <1>5 DEF vars
  <2>2. Later(inputs, inputs') BY <2>1 DEF Later, Newer
  <2>3. events' \in Nat /\ Versioned(inputs') /\ Within(inputs', events') BY <2>1 DEF IInv
  <2> QED BY <2>1, <2>2, <2>3, ProducingStays
<1> QED BY <1>1, <1>2, <1>3, <1>4, <1>5 DEF Next

\* What every process has read is dated: no newer than what is in place, and the
\* same where the versions are equal, at every step of freezers and validators
\* (freeze, validate, build_pilot_plan).
THEOREM ReadsAreDated == Spec => []IInv
<1>1. Init => IInv BY InitInv
<1>2. IInv /\ [Next]_vars => IInv' BY NextInv
<1> QED BY <1>1, <1>2, PTL DEF Spec

-----------------------------------------------------------------------------
(* What a validation without a failed gate vouches for.                       *)

\* Only the second snapshot brings a validator from its gates to its report.
LEMMA ConcludesOnce ==
  ASSUME IInv, [Next]_vars, NEW v \in Validators, Concludes(v)
  PROVE  Conclude(v)
<1>0. v \in Planners BY DEF Planners
<1>1. step[v] = "after" /\ step'[v] = "report" BY DEF Concludes
<1>2. DOMAIN step = Planners BY <1>0, Mover
<1>3. \A p \in Planners : \A s : Goto(p, s) => step'[v] = IF v = p THEN s ELSE step[v]
  BY <1>0, <1>2 DEF Goto
<1>4. ~UNCHANGED step BY <1>1
<1>5. ~Produce
  BY <1>4 DEF Produce, Reprocess, ReviewSmoke, Certify, TimeSmoke, Probe, Replace
<1>6. ASSUME NEW p \in Planners, Plan(p)
      PROVE  FALSE
  BY <1>1, <1>3, <1>6
     DEF Plan, ValidateAcceptedSmoke, SelectCohort, CollectViews, AllSourceHashes, Raise
<1>7. ASSUME NEW p \in Freezers, Freeze(p) \/ Write(p)
      PROVE  FALSE
  <2>1. p \in Planners /\ p # v BY ProtocolAssumption DEF Planners
  <2> QED BY <1>1, <1>3, <1>7, <2>1 DEF Freeze, Write
<1>8. ASSUME NEW w \in Validators, Validate(w), ~Conclude(v)
      PROVE  FALSE
  <2>1. w \in Planners BY DEF Planners
  <2>2. CASE LoadProtocol(w) \/ LoadInventory(w) \/ LoadSchedule(w) \/ Snapshot(w)
    BY <1>1, <1>3, <2>1, <2>2 DEF LoadProtocol, LoadInventory, LoadSchedule, Snapshot, Raise
  <2>3. CASE Rebuild(w) \/ LateGates(w) \/ Report(w)
    BY <1>1, <1>3, <2>1, <2>3 DEF Rebuild, LateGates, Report, Raise
  <2>4. CASE Conclude(w)
    <3>1. w # v BY <1>8, <2>4
    <3> QED BY <1>1, <1>3, <2>1, <2>4, <3>1 DEF Conclude
  <2> QED BY <1>8, <2>2, <2>3, <2>4 DEF Validate
<1> QED BY <1>4, <1>5, <1>6, <1>7, <1>8 DEF Next, vars

\* At that step what is known of the validator is still so.
LEMMA AtTheVerdict ==
  ASSUME IInv, [Next]_vars, NEW v \in Validators, Concludes(v), held'[v].good
  PROVE  /\ InPlace(held[v].protocol, inputs)
         /\ PlanOf(held[v].protocol, held[v].moment)
         /\ held[v].schedule # Absent
         /\ Protocol(held[v].inventory) = Protocol(held[v].protocol)
         /\ Protocol(held[v].schedule) = Protocol(held[v].protocol)
<1>0. v \in Planners BY DEF Planners
<1>1. Conclude(v) BY ConcludesOnce
<1>2. step[v] = "after" BY DEF Concludes
<1>3. Agreed("after", held[v], inputs) /\ Judging("after", held[v], inputs)
  BY <1>0, <1>2, Mover DEF Validating
<1> DEFINE good == held[v].good /\ inputs.data = held[v].before
<1>4. PICK h : h = [held[v] EXCEPT !.good = good, !.before = Absent, !.moment = Absent]
  OBVIOUS
<1>5. held'[v] = h
  <2>1. held' = [held EXCEPT ![v].good = @ /\ inputs.data = held[v].before,
                             ![v].before = Absent, ![v].moment = Absent]
    BY <1>1 DEF Conclude, TreeSnapshot
  <2>2. held' = [held EXCEPT ![v] = h] BY <1>4, <2>1
  <2> QED BY <1>0, <2>2, Mover
<1>6. h.good = good
  <2> HIDE DEF good
  <2>1. HeldRecord(held[v]) BY <1>0, Mover
  <2> QED BY <1>4, <2>1 DEF HeldRecord
<1>7. held[v].good /\ Untouched(held[v], inputs) BY <1>5, <1>6 DEF Untouched
<1> QED BY <1>3, <1>7 DEF Agreed, Judging, Loaded, Paired, Staged, Watching

\* When the verdict falls, the datasets the plan froze are still the files in
\* place (validate, gate PF03 with PF05).
THEOREM VerdictOnFilesInPlace == Spec => FrozenDataInPlace
<1> DEFINE A == \A v \in Validators :
                  Concludes(v) /\ held'[v].good =>
                    \A d \in held[v].protocol.cohort : inputs.data[d] = held[v].protocol.data[d]
<1>1. IInv /\ [Next]_vars => A BY AtTheVerdict DEF InPlace
<1>2. Spec => []IInv BY ReadsAreDated
<1>3. IInv /\ [Next]_vars => [A]_vars BY <1>1
<1>4. FrozenDataInPlace <=> [][A]_vars BY DEF FrozenDataInPlace
<1> HIDE DEF A
<1> QED BY <1>2, <1>3, <1>4, PTL DEF Spec

\* The three documents a validation without a failed gate has read were made
\* together, however the writes of several freezers interleaved (freeze,
\* validate_protocol_artifacts, gate PF23).
THEOREM VerdictOnOneTriple == Spec => GreenIsOneTriple
<1> DEFINE A == \A v \in Validators :
                  Concludes(v) /\ held'[v].good =>
                    LET P == Protocol(held[v].protocol) IN
                    /\ held[v].schedule # Absent
                    /\ P = Protocol(held[v].inventory) /\ P = Protocol(held[v].schedule)
<1>1. IInv /\ [Next]_vars => A BY AtTheVerdict
<1>2. Spec => []IInv BY ReadsAreDated
<1>3. IInv /\ [Next]_vars => [A]_vars BY <1>1
<1>4. GreenIsOneTriple <=> [][A]_vars BY DEF GreenIsOneTriple
<1> HIDE DEF A
<1> QED BY <1>2, <1>3, <1>4, PTL DEF Spec

\* What a validation without a failed gate has found frozen is what planning
\* at one instant gives, although freezer and validator read the files one at
\* a time while others replace them (build_pilot_plan, gate PF05).
THEOREM VerdictOnOneMoment == Spec => GreenIsOneMoment
<1> DEFINE A == \A v \in Validators :
                  Concludes(v) /\ held'[v].good =>
                    Protocol(held[v].protocol) = Protocol(ReadsAt(held[v].moment))
<1>1. IInv /\ [Next]_vars => A BY AtTheVerdict DEF PlanOf
<1>2. Spec => []IInv BY ReadsAreDated
<1>3. IInv /\ [Next]_vars => [A]_vars BY <1>1
<1>4. GreenIsOneMoment <=> [][A]_vars BY DEF GreenIsOneMoment
<1> HIDE DEF A
<1> QED BY <1>2, <1>3, <1>4, PTL DEF Spec

-----------------------------------------------------------------------------
(* Finite sets of numbers.                                                    *)

Below(d, S) == {c \in S : c < d}
Rank(S) == [d \in S |-> Cardinality(Below(d, S))]

\* The elements of a finite set of numbers in ascending order.
LEMMA RankOrders ==
  ASSUME NEW S, IsFiniteSet(S), S \subseteq Nat
  PROVE  /\ Cardinality(S) \in Nat
         /\ Rank(S) \in Bijection(S, 0 .. Cardinality(S) - 1)
         /\ \A c, d \in S : c < d => Rank(S)[c] < Rank(S)[d]
<1> DEFINE n == Cardinality(S)
<1>1. n \in Nat BY FS_CardinalityType
<1>2. ASSUME NEW d \in S
      PROVE  Rank(S)[d] \in 0 .. n - 1 /\ IsFiniteSet(Below(d, S))
  <2>1. Below(d, S) \in SUBSET S /\ d \notin Below(d, S) BY DEF Below
  <2>2. /\ IsFiniteSet(Below(d, S)) /\ Cardinality(Below(d, S)) <= n
        /\ Cardinality(Below(d, S)) # n
    BY <2>1, FS_Subset
  <2>3. Cardinality(Below(d, S)) \in Nat BY <2>2, FS_CardinalityType
  <2> QED BY <1>1, <2>2, <2>3 DEF Rank
<1>3. ASSUME NEW c \in S, NEW d \in S, c < d
      PROVE  Rank(S)[c] < Rank(S)[d]
  <2>1. Below(c, S) \in SUBSET Below(d, S) /\ c \in Below(d, S) /\ c \notin Below(c, S)
    <3>1. c \in Nat /\ d \in Nat OBVIOUS
    <3>2. \A x \in S : x < c => x < d BY <1>3, <3>1
    <3>3. Below(c, S) \subseteq Below(d, S) BY <3>2 DEF Below
    <3>4. c \in Below(d, S) BY <1>3 DEF Below
    <3>5. c \notin Below(c, S) BY <3>1 DEF Below
    <3> QED BY <3>3, <3>4, <3>5
  <2>2. /\ Cardinality(Below(c, S)) <= Cardinality(Below(d, S))
        /\ Cardinality(Below(c, S)) # Cardinality(Below(d, S))
    BY <1>2, <2>1, FS_Subset
  <2>3. Cardinality(Below(c, S)) \in Nat /\ Cardinality(Below(d, S)) \in Nat
    BY <1>2, FS_CardinalityType
  <2> QED BY <2>2, <2>3 DEF Rank
<1>4. \A c, d \in S : Rank(S)[c] = Rank(S)[d] => c = d
  <2>1. \A c, d \in S : c < d \/ d < c \/ c = d OBVIOUS
  <2>2. \A c \in S : Rank(S)[c] \in Int BY <1>1, <1>2
  <2> QED BY <1>3, <2>1, <2>2
<1>5. Rank(S) \in Injection(S, 0 .. n - 1)
  <2>1. Rank(S) \in [S -> 0 .. n - 1] BY <1>2 DEF Rank
  <2> QED BY <1>4, <2>1 DEF Injection, IsInjective
<1>6. IsFiniteSet(0 .. n - 1) /\ Cardinality(0 .. n - 1) = n
  <2> HIDE DEF n
  <2>1. 0 \in Int /\ n - 1 \in Int BY <1>1
  <2>2. /\ IsFiniteSet(0 .. n - 1)
        /\ Cardinality(0 .. n - 1) = IF 0 > n - 1 THEN 0 ELSE n - 1 - 0 + 1
    BY <2>1, FS_Interval
  <2> QED BY <1>1, <2>2
<1>7. Rank(S) \in Surjection(S, 0 .. n - 1) BY <1>5, <1>6, FS_Injection
<1> QED BY <1>1, <1>3, <1>5, <1>7 DEF Bijection

\* A finite set of numbers has a smallest and a largest element.
LEMMA MinMax ==
  ASSUME NEW S, IsFiniteSet(S), S \subseteq Nat, S # {}
  PROVE  /\ Min(S) \in S /\ \A x \in S : Min(S) <= x
         /\ Max(S) \in S /\ \A x \in S : Max(S) >= x
<1> DEFINE n == Cardinality(S)
<1>1. n \in Nat /\ n # 0 BY RankOrders, FS_EmptySet
<1>2. 0 \in 0 .. n - 1 /\ n - 1 \in 0 .. n - 1 BY <1>1
<1>3. \A i \in 0 .. n - 1 : \E d \in S : Rank(S)[d] = i
  BY RankOrders DEF Bijection, Surjection
<1>4. \A d \in S : Rank(S)[d] \in 0 .. n - 1
  BY RankOrders DEF Bijection, Injection
<1>5. \E x \in S : \A y \in S : x =< y
  <2>1. PICK d \in S : Rank(S)[d] = 0 BY <1>2, <1>3
  <2>2. ASSUME NEW y \in S, y < d
        PROVE  FALSE
    <3>1. Rank(S)[y] < 0 BY <2>1, <2>2, RankOrders
    <3> QED BY <1>1, <1>4, <3>1
  <2> QED BY <2>2
<1>6. \E x \in S : \A y \in S : x >= y
  <2>1. PICK d \in S : Rank(S)[d] = n - 1 BY <1>2, <1>3
  <2>2. ASSUME NEW y \in S, d < y
        PROVE  FALSE
    <3>1. n - 1 < Rank(S)[y] BY <2>1, <2>2, RankOrders
    <3> QED BY <1>1, <1>4, <3>1
  <2> QED BY <2>2
<1>7. Min(S) \in S /\ \A x \in S : Min(S) =< x BY <1>5 DEF Min
<1>8. Max(S) \in S /\ \A x \in S : Max(S) >= x BY <1>6 DEF Max
<1> QED BY <1>7, <1>8

\* Dividing by a positive number.
LEMMA Division ==
  ASSUME NEW a \in Nat, NEW k \in Nat \ {0}, NEW q, q = a \div k
  PROVE  q \in Nat /\ k * q <= a /\ a < k * q + k
<1>1. q \in Int /\ q >= 0 OBVIOUS
<1>2. k * q <= a BY <1>1
<1>3. a < k * q + k BY <1>1
<1> QED BY <1>1, <1>2, <1>3

LEMMA Quotient ==
  ASSUME NEW a \in Nat, NEW k \in Nat \ {0}, NEW i \in Nat
  PROVE  a \div k = i <=> a \in k * i .. k * i + k - 1
<1>0. PICK q : q = a \div k OBVIOUS
<1>1. q \in Nat /\ k * q <= a /\ a < k * q + k BY <1>0, Division
<1>2. \A x, y \in Nat : x < y => k * x + k <= k * y
  <2>1. \A x, y \in Nat : x <= y => k * x <= k * y OBVIOUS
  <2> SUFFICES ASSUME NEW x \in Nat, NEW y \in Nat, x < y
               PROVE  k * x + k <= k * y
    OBVIOUS
  <2>2. x + 1 \in Nat /\ x + 1 <= y OBVIOUS
  <2>3. k * (x + 1) <= k * y BY <2>1, <2>2
  <2>4. k * (x + 1) = k * x + k OBVIOUS
  <2> QED BY <2>3, <2>4
<1>3. k * i \in Nat /\ k * q \in Nat BY <1>1
<1>4. CASE q = i BY <1>0, <1>1, <1>3, <1>4
<1>5. CASE q < i
  <2>1. k * q + k <= k * i BY <1>1, <1>2, <1>5
  <2> QED BY <1>0, <1>1, <1>3, <1>5, <2>1
<1>6. CASE i < q
  <2>1. k * i + k <= k * q BY <1>1, <1>2, <1>6
  <2> QED BY <1>0, <1>1, <1>3, <1>6, <2>1
<1> QED BY <1>1, <1>4, <1>5, <1>6

-----------------------------------------------------------------------------
(* Sums over finite sets.                                                     *)

\* Induction, with the numbers that satisfy the claim as a set.
LEMMA NumberInduction ==
  ASSUME NEW K, 0 \in K, \A n \in Nat : n \in K => n + 1 \in K
  PROVE  \A n \in Nat : n \in K
<1> SUFFICES ASSUME NEW m \in Nat, m \notin K
             PROVE  FALSE
  OBVIOUS
<1> DEFINE B == {n \in 0 .. m : n \notin K}
<1>1. IsFiniteSet(B) /\ B \subseteq Nat /\ B # {}
  <2>1. IsFiniteSet(0 .. m) BY FS_Interval
  <2>2. B \in SUBSET (0 .. m) /\ m \in B OBVIOUS
  <2> HIDE DEF B
  <2>3. IsFiniteSet(B) BY <2>1, <2>2, FS_Subset
  <2> QED BY <2>2, <2>3
<1>2. Min(B) \in B /\ \A x \in B : Min(B) <= x
  <2> HIDE DEF B
  <2> QED BY <1>1, MinMax
<1>3. PICK b \in B : \A x \in B : b <= x BY <1>2
<1>4. b \in Nat /\ b # 0 /\ b - 1 \in 0 .. m /\ b - 1 \notin B BY <1>3
<1>5. b - 1 \in K /\ b - 1 \in Nat BY <1>4
<1>6. (b - 1) + 1 = b BY <1>4
<1>7. b \in K BY <1>5, <1>6
<1> QED BY <1>3, <1>7

Pick(s) == CHOOSE x \in s : TRUE

LEMMA Picked == \A s : s # {} => Pick(s) \in s
BY DEF Pick

Summed(f, g, s) == IF s = {} THEN 0 ELSE f[Pick(s)] + g[s \ {Pick(s)}]

Sums(f, S, g) == g = [s \in SUBSET S |-> Summed(f, g, s)]

\* The subsets of no more than n elements.
Small(S, n) == {s \in SUBSET S : Cardinality(s) <= n}

LEMMA SmallSubsets ==
  ASSUME NEW S, IsFiniteSet(S)
  PROVE  /\ \A s \in SUBSET S : IsFiniteSet(s) /\ Cardinality(s) \in Nat
         /\ \A s \in SUBSET S : \A x \in s :
              s \ {x} \in SUBSET S /\ Cardinality(s \ {x}) = Cardinality(s) - 1
         /\ \A s \in SUBSET S : Cardinality(s) = 0 <=> s = {}
<1>1. \A s \in SUBSET S : IsFiniteSet(s) /\ Cardinality(s) \in Nat
  BY FS_Subset, FS_CardinalityType
<1>2. \A s \in SUBSET S : \A x \in s : Cardinality(s \ {x}) = Cardinality(s) - 1
  BY <1>1, FS_RemoveElement
<1> QED BY <1>1, <1>2, FS_EmptySet

LEMMA SumsExist ==
  ASSUME NEW S, IsFiniteSet(S), NEW f
  PROVE  \E g : Sums(f, S, g)
<1> DEFINE Part(n, g) == g = [s \in Small(S, n) |-> Summed(f, g, s)]
           K == {n \in Nat : \E g : Part(n, g)}
<1>1. 0 \in K
  <2>1. \A s \in Small(S, 0) : s = {}
    <3> TAKE s \in Small(S, 0)
    <3>1. s \in SUBSET S /\ Cardinality(s) \in Nat /\ Cardinality(s) <= 0
      BY SmallSubsets DEF Small
    <3>2. Cardinality(s) = 0 BY <3>1
    <3> QED BY <3>1, <3>2, SmallSubsets
  <2>2. PICK g : g = [s \in Small(S, 0) |-> 0] OBVIOUS
  <2>3. \A s \in Small(S, 0) : Summed(f, g, s) = 0 BY <2>1 DEF Summed
  <2>4. Part(0, g) BY <2>2, <2>3
  <2> QED BY <2>4
<1>2. ASSUME NEW n \in Nat, n \in K
      PROVE  n + 1 \in K
  <2>1. PICK g : Part(n, g) BY <1>2
  <2>2. PICK h : h = [s \in Small(S, n + 1) |-> Summed(f, g, s)] OBVIOUS
  <2>3. \A s \in Small(S, n) : h[s] = g[s]
    <3>1. Small(S, n) \subseteq Small(S, n + 1) BY SmallSubsets DEF Small
    <3> QED BY <2>1, <2>2, <3>1
  <2>4. ASSUME NEW s \in Small(S, n + 1)
        PROVE  Summed(f, h, s) = Summed(f, g, s)
    <3>1. CASE s = {} BY <3>1 DEF Summed
    <3>2. CASE s # {}
      <4>1. PICK x : x = Pick(s) OBVIOUS
      <4>2. x \in s BY <3>2, <4>1, Picked
      <4>3. s \in SUBSET S /\ Cardinality(s) <= n + 1 BY DEF Small
      <4>4. s \ {x} \in SUBSET S /\ Cardinality(s \ {x}) <= n
        BY <4>2, <4>3, SmallSubsets
      <4>5. s \ {x} \in Small(S, n) BY <4>4 DEF Small
      <4> QED BY <2>3, <4>1, <4>5 DEF Summed
    <3> QED BY <3>1, <3>2
  <2>5. Part(n + 1, h) BY <2>2, <2>4
  <2> QED BY <2>5
<1>3. \A n \in Nat : n \in K
  <2> HIDE DEF K
  <2> QED BY <1>1, <1>2, NumberInduction
<1>4. Cardinality(S) \in Nat BY FS_CardinalityType
<1>5. Small(S, Cardinality(S)) = SUBSET S BY FS_Subset DEF Small
<1>6. PICK g : Part(Cardinality(S), g) BY <1>3, <1>4
<1> QED BY <1>5, <1>6 DEF Sums

\* Two that sum over sets and agree on the elements agree on the common subsets.
LEMMA SumsAgree ==
  ASSUME NEW S, IsFiniteSet(S), NEW T \in SUBSET S, NEW f, NEW e, NEW g, NEW h,
         \A x \in T : e[x] = f[x], Sums(f, S, g), Sums(e, T, h)
  PROVE  \A s \in SUBSET T : g[s] = h[s]
<1> DEFINE K == {n \in Nat : \A s \in SUBSET T : Cardinality(s) = n => g[s] = h[s]}
<1>0. \A s \in SUBSET T : /\ s \in SUBSET S /\ g[s] = Summed(f, g, s)
                          /\ h[s] = Summed(e, h, s)
  BY DEF Sums
<1>1. 0 \in K
  <2> SUFFICES ASSUME NEW s \in SUBSET T, Cardinality(s) = 0
               PROVE  g[s] = h[s]
    OBVIOUS
  <2>1. s = {} BY SmallSubsets
  <2> QED BY <1>0, <2>1 DEF Summed
<1>2. ASSUME NEW n \in Nat, n \in K
      PROVE  n + 1 \in K
  <2> SUFFICES ASSUME NEW s \in SUBSET T, Cardinality(s) = n + 1
               PROVE  g[s] = h[s]
    OBVIOUS
  <2>1. s \in SUBSET S /\ s # {} BY SmallSubsets
  <2>2. PICK x : x = Pick(s) OBVIOUS
  <2>3. x \in s BY <2>1, <2>2, Picked
  <2>4. s \ {x} \in SUBSET T /\ Cardinality(s \ {x}) = n BY <2>1, <2>3, SmallSubsets
  <2>5. g[s \ {x}] = h[s \ {x}] BY <1>2, <2>4
  <2>6. e[x] = f[x] BY <2>3
  <2> QED BY <1>0, <2>1, <2>2, <2>5, <2>6 DEF Summed
<1>3. \A n \in Nat : n \in K
  <2> HIDE DEF K
  <2> QED BY <1>1, <1>2, NumberInduction
<1>4. \A s \in SUBSET T : s \in SUBSET S /\ Cardinality(s) \in Nat BY SmallSubsets
<1> QED BY <1>3, <1>4

LEMMA SumIs ==
  ASSUME NEW S, IsFiniteSet(S), NEW f, NEW g, Sums(f, S, g), NEW T \in SUBSET S
  PROVE  SumFunctionOnSet(f, T) = g[T]
<1> PICK it : it = CHOOSE h : Sums(f, T, h) OBVIOUS
<1>1. SumFunctionOnSet(f, T) = it[T]
  BY DEF SumFunctionOnSet, FoldFunctionOnSet, MapThenFoldSet, Sums, Summed, Pick
<1>2. \E h : Sums(f, T, h) BY SmallSubsets, SumsExist
<1>3. Sums(f, T, it) BY <1>2
<1> QED BY <1>1, <1>3, SumsAgree

\* What a sum is over no element, and over one element more.
LEMMA SumSteps ==
  ASSUME NEW S, IsFiniteSet(S), NEW f, \A x \in S : f[x] \in Int
  PROVE  /\ SumFunctionOnSet(f, {}) = 0
         /\ SumFunctionOnSet(f, S) \in Int
         /\ \A x \in S : SumFunctionOnSet(f, S) = f[x] + SumFunctionOnSet(f, S \ {x})
<1>1. PICK g : Sums(f, S, g) BY SumsExist
<1>2. \A s \in SUBSET S : g[s] = Summed(f, g, s) BY <1>1 DEF Sums
<1>3. \A s \in SUBSET S : SumFunctionOnSet(f, s) = g[s] BY <1>1, SumIs
<1>10. \A s \in SUBSET S : g[s] \in Int
  <2> DEFINE K == {n \in Nat : \A s \in SUBSET S : Cardinality(s) = n => g[s] \in Int}
  <2>1. 0 \in K
    <3> SUFFICES ASSUME NEW s \in SUBSET S, Cardinality(s) = 0
                 PROVE  g[s] \in Int
      OBVIOUS
    <3>1. s = {} BY SmallSubsets
    <3>2. g[s] = Summed(f, g, s) BY <1>2
    <3>3. Summed(f, g, s) = 0 BY <3>1 DEF Summed
    <3> QED BY <3>2, <3>3
  <2>2. ASSUME NEW n \in Nat, n \in K
        PROVE  n + 1 \in K
    <3> SUFFICES ASSUME NEW s \in SUBSET S, Cardinality(s) = n + 1
                 PROVE  g[s] \in Int
      OBVIOUS
    <3>1. s # {} BY SmallSubsets
    <3>2. PICK x : x = Pick(s) OBVIOUS
    <3>3. x \in s BY <3>1, <3>2, Picked
    <3>4. s \ {x} \in SUBSET S /\ Cardinality(s \ {x}) = n BY <3>3, SmallSubsets
    <3>5. g[s \ {x}] \in Int BY <2>2, <3>4
    <3>6. g[s] = f[x] + g[s \ {x}] BY <1>2, <3>1, <3>2 DEF Summed
    <3>7. f[x] \in Int BY <3>3
    <3> QED BY <3>5, <3>6, <3>7
  <2>3. \A n \in Nat : n \in K
    <3> HIDE DEF K
    <3> QED BY <2>1, <2>2, NumberInduction
  <2>4. \A s \in SUBSET S : Cardinality(s) \in Nat BY SmallSubsets
  <2> QED BY <2>3, <2>4
<1> DEFINE K == {n \in Nat : \A s \in SUBSET S : Cardinality(s) = n =>
                   \A x \in s : g[s] = f[x] + g[s \ {x}]}
<1>4. 0 \in K
  <2> SUFFICES ASSUME NEW s \in SUBSET S, Cardinality(s) = 0
               PROVE  \A x \in s : g[s] = f[x] + g[s \ {x}]
    OBVIOUS
  <2>1. s = {} BY SmallSubsets
  <2> QED BY <1>2, <2>1 DEF Summed
<1>5. ASSUME NEW n \in Nat, n \in K
      PROVE  n + 1 \in K
  <2> SUFFICES ASSUME NEW s \in SUBSET S, Cardinality(s) = n + 1
               PROVE  \A x \in s : g[s] = f[x] + g[s \ {x}]
    OBVIOUS
  <2>1. s # {} BY SmallSubsets
  <2>2. PICK y : y = Pick(s) OBVIOUS
  <2>3. y \in s BY <2>1, <2>2, Picked
  <2>4. \A x \in s : s \ {x} \in SUBSET S /\ Cardinality(s \ {x}) = n BY SmallSubsets
  <2>5. \A x \in s : \A z \in s \ {x} : g[s \ {x}] = f[z] + g[(s \ {x}) \ {z}]
    BY <1>5, <2>4
  <2>6. g[s] = f[y] + g[s \ {y}] BY <1>2, <2>1, <2>2 DEF Summed
  <2>8. ASSUME NEW x \in s
        PROVE  g[s] = f[x] + g[s \ {x}]
    <3>1. CASE x = y BY <2>6, <3>1
    <3>2. CASE x # y
      <4>1. PICK u : u = (s \ {x}) \ {y} OBVIOUS
      <4>2. u = (s \ {y}) \ {x} BY <4>1
      <4>3. g[s \ {x}] = f[y] + g[u] BY <2>3, <2>5, <3>2, <4>1
      <4>4. g[s \ {y}] = f[x] + g[u] BY <2>3, <2>5, <3>2, <4>2
      <4>5. f[x] \in Int /\ f[y] \in Int /\ g[u] \in Int BY <1>10, <2>3, <4>1
      <4> QED BY <2>6, <4>3, <4>4, <4>5
    <3> QED BY <3>1, <3>2
  <2> QED BY <2>8
<1>6. \A n \in Nat : n \in K
  <2> HIDE DEF K
  <2> QED BY <1>4, <1>5, NumberInduction
<1>7. Cardinality(S) \in Nat /\ S \in SUBSET S BY FS_CardinalityType
<1>8. g[S] \in Int /\ \A x \in S : g[S] = f[x] + g[S \ {x}]
  BY <1>6, <1>7, <1>10
<1>9. g[{}] = 0 BY <1>2 DEF Summed
<1> QED BY <1>3, <1>7, <1>8, <1>9

LEMMA SumDisjoint ==
  ASSUME NEW S, IsFiniteSet(S), NEW f, \A x \in S : f[x] \in Int,
         NEW T \in SUBSET S, NEW U \in SUBSET S, T \cap U = {}
  PROVE  SumFunctionOnSet(f, T \cup U) = SumFunctionOnSet(f, T) + SumFunctionOnSet(f, U)
<1> DEFINE Sum(s) == SumFunctionOnSet(f, s)
           K == {n \in Nat : \A u \in SUBSET U :
                   Cardinality(u) = n => Sum(T \cup u) = Sum(T) + Sum(u)}
<1>0. \A s \in SUBSET S : Sum(s) \in Int /\ \A x \in s : Sum(s) = f[x] + Sum(s \ {x})
  <2> TAKE s \in SUBSET S
  <2>1. IsFiniteSet(s) /\ \A x \in s : f[x] \in Int BY SmallSubsets
  <2> QED BY <2>1, SumSteps
<1>1. 0 \in K
  <2> SUFFICES ASSUME NEW u \in SUBSET U, Cardinality(u) = 0
               PROVE  Sum(T \cup u) = Sum(T) + Sum(u)
    OBVIOUS
  <2>1. u = {} BY SmallSubsets
  <2>2. PICK t : t = T \cup u OBVIOUS
  <2>3. t = T BY <2>1, <2>2
  <2>4. Sum(t) = Sum(T) BY <2>3
  <2>5. Sum(u) = 0 BY <2>1, SumSteps
  <2>6. Sum(T) \in Int BY <1>0
  <2> HIDE DEF Sum
  <2>7. Sum(t) = Sum(T) + Sum(u) BY <2>4, <2>5, <2>6
  <2> QED BY <2>2, <2>7
<1>2. ASSUME NEW n \in Nat, n \in K
      PROVE  n + 1 \in K
  <2> SUFFICES ASSUME NEW u \in SUBSET U, Cardinality(u) = n + 1
               PROVE  Sum(T \cup u) = Sum(T) + Sum(u)
    OBVIOUS
  <2>1. u \in SUBSET S /\ u # {} BY SmallSubsets
  <2>2. PICK x : x \in u BY <2>1
  <2>3. PICK w : w = u \ {x} OBVIOUS
  <2>4. w \in SUBSET U /\ w \in SUBSET S /\ Cardinality(w) = n
    BY <2>1, <2>2, <2>3, SmallSubsets
  <2>5. T \cup u \in SUBSET S /\ x \in T \cup u /\ (T \cup u) \ {x} = T \cup w
    BY <2>1, <2>2, <2>3
  <2>6. T \cup w \in SUBSET S /\ f[x] \in Int BY <2>1, <2>2, <2>4
  <2>7. Sum(T \cup w) = Sum(T) + Sum(w) BY <1>2, <2>4
  <2> HIDE DEF Sum, K
  <2>8. Sum(u) = f[x] + Sum(w) BY <1>0, <2>1, <2>2, <2>3
  <2>9. Sum(T \cup u) = f[x] + Sum(T \cup w)
    <3>1. Sum(T \cup u) = f[x] + Sum((T \cup u) \ {x}) BY <1>0, <2>5
    <3> QED BY <2>5, <3>1
  <2>10. Sum(T) \in Int /\ Sum(w) \in Int BY <1>0, <2>4
  <2> QED BY <2>6, <2>7, <2>8, <2>9, <2>10
<1>3. \A n \in Nat : n \in K
  <2> HIDE DEF K
  <2> QED BY <1>1, <1>2, NumberInduction
<1>4. Cardinality(U) \in Nat BY SmallSubsets
<1> QED BY <1>3, <1>4

LEMMA SumNatural ==
  ASSUME NEW S, IsFiniteSet(S), NEW f, \A x \in S : f[x] \in Nat
  PROVE  SumFunctionOnSet(f, S) \in Nat
<1> DEFINE Sum(s) == SumFunctionOnSet(f, s)
           K == {n \in Nat : \A s \in SUBSET S : Cardinality(s) = n => Sum(s) \in Nat}
<1>1. 0 \in K
  <2> SUFFICES ASSUME NEW s \in SUBSET S, Cardinality(s) = 0
               PROVE  Sum(s) \in Nat
    OBVIOUS
  <2>1. s = {} BY SmallSubsets
  <2>2. Sum(s) = 0 BY <2>1, SumSteps
  <2> QED BY <2>2
<1>2. ASSUME NEW n \in Nat, n \in K
      PROVE  n + 1 \in K
  <2> SUFFICES ASSUME NEW s \in SUBSET S, Cardinality(s) = n + 1
               PROVE  Sum(s) \in Nat
    OBVIOUS
  <2>1. s # {} /\ IsFiniteSet(s) BY SmallSubsets
  <2>2. PICK x : x \in s BY <2>1
  <2>3. s \ {x} \in SUBSET S /\ Cardinality(s \ {x}) = n BY <2>2, SmallSubsets
  <2>4. Sum(s \ {x}) \in Nat /\ f[x] \in Nat BY <1>2, <2>2, <2>3
  <2>5. Sum(s) = f[x] + Sum(s \ {x})
    <3>1. \A y \in s : f[y] \in Int OBVIOUS
    <3> QED BY <2>1, <2>2, <3>1, SumSteps
  <2> HIDE DEF Sum
  <2> QED BY <2>4, <2>5
<1>3. \A n \in Nat : n \in K
  <2> HIDE DEF K
  <2> QED BY <1>1, <1>2, NumberInduction
<1>4. Cardinality(S) \in Nat BY SmallSubsets
<1> QED BY <1>3, <1>4

LEMMA SumSame ==
  ASSUME NEW S, IsFiniteSet(S), NEW f, NEW e, \A x \in S : e[x] = f[x]
  PROVE  SumFunctionOnSet(f, S) = SumFunctionOnSet(e, S)
<1>1. PICK g : Sums(f, S, g) BY SumsExist
<1>2. PICK h : Sums(e, S, h) BY SumsExist
<1>3. \A s \in SUBSET S : g[s] = h[s]
  <2>1. S \in SUBSET S OBVIOUS
  <2> QED BY <1>1, <1>2, <2>1, SumsAgree
<1> QED BY <1>1, <1>2, <1>3, SumIs

-----------------------------------------------------------------------------
(* The selection: comparing scores, ties and cohorts.                         *)

\* What a function makes of a finite set is finite, and no larger.
LEMMA ImageFinite ==
  ASSUME NEW S, IsFiniteSet(S), NEW f, DOMAIN f = S, NEW T, T = {f[x] : x \in S}
  PROVE  IsFiniteSet(T) /\ Cardinality(T) \in Nat
<1> DEFINE g == [x \in S |-> f[x]]
<1>1. g \in Surjection(S, T) BY DEF Surjection
<1>2. IsFiniteSet(T) BY <1>1, FS_Surjection
<1> QED BY <1>2, FS_CardinalityType

LEMMA TagsFinite ==
  ASSUME NEW d \in Registry
  PROVE  IsFiniteSet(Tags[d])
<1> DEFINE All(p) == {p.task_type, p.schema_family, p.size_band, p.balance_band,
                      "substantial_categorical", "high_dimensional",
                      "high_cardinality_categorical", "missing_values"}
<1>1. \A a, b, c, e : IsFiniteSet({a, b, c, e})
  <2> TAKE a, b, c, e
  <2>1. IsFiniteSet({a}) BY FS_Singleton
  <2>2. IsFiniteSet({a} \cup {b}) BY <2>1, FS_AddElement
  <2>3. IsFiniteSet(({a} \cup {b}) \cup {c}) BY <2>2, FS_AddElement
  <2>4. IsFiniteSet((({a} \cup {b}) \cup {c}) \cup {e}) BY <2>3, FS_AddElement
  <2>5. (({a} \cup {b}) \cup {c}) \cup {e} = {a, b, c, e} OBVIOUS
  <2> QED BY <2>4, <2>5
<1>2. \A p : IsFiniteSet(All(p))
  <2> TAKE p
  <2>1. IsFiniteSet({p.task_type, p.schema_family, p.size_band, p.balance_band}
                      \cup {"substantial_categorical", "high_dimensional",
                            "high_cardinality_categorical", "missing_values"})
    BY <1>1, FS_Union
  <2>2. All(p) = {p.task_type, p.schema_family, p.size_band, p.balance_band}
                   \cup {"substantial_categorical", "high_dimensional",
                         "high_cardinality_categorical", "missing_values"}
    OBVIOUS
  <2> QED BY <2>1, <2>2
<1>3. Tags[d] \subseteq All(DuplicateProfile(Meta[d]))
  <2>1. Tags[d] = CoverageTags(Meta[d]) BY DEF Tags
  <2>2. PICK p : p = DuplicateProfile(Meta[d]) OBVIOUS
  <2> QED BY <2>1, <2>2 DEF CoverageTags
<1> HIDE DEF All
<1> QED BY <1>2, <1>3, FS_Subset

LEMMA CoveredFinite ==
  ASSUME NEW S, S \subseteq Registry
  PROVE  IsFiniteSet(S) /\ IsFiniteSet(Covered(S))
<1>1. IsFiniteSet(S) BY PlanAssumption, FS_Subset
<1> DEFINE T == {Tags[d] : d \in S}
<1>2. PICK f : f = [d \in S |-> Tags[d]] OBVIOUS
<1>3. IsFiniteSet(T)
  <2>1. DOMAIN f = S /\ T = {f[d] : d \in S} BY <1>2
  <2> HIDE DEF T
  <2> QED BY <1>1, <2>1, ImageFinite
<1>4. \A t \in T : IsFiniteSet(t) BY TagsFinite
<1> HIDE DEF T
<1>5. IsFiniteSet(UNION T) BY <1>3, <1>4, FS_UNION
<1> QED BY <1>1, <1>5 DEF Covered, T

Quadruples == Int \X Int \X Int \X Int

LEMMA ScoreType ==
  ASSUME NEW S, S \subseteq Registry
  PROVE  Score(S) \in Quadruples
<1>1. IsFiniteSet(S) /\ IsFiniteSet(Covered(S)) BY CoveredFinite
<1>2. Cardinality(Covered(S) \cap Policy.required) \in Int
  BY <1>1, FS_Intersection, FS_CardinalityType
<1>3. Cardinality(S) \in Int BY <1>1, FS_CardinalityType
<1> DEFINE B == {<<SchemaFamily(Meta[d]), TaskType(Meta[d])>> : d \in S}
           C == {Profile[d] : d \in S}
           E == {<<Meta[d].features, Meta[d].classes, Meta[d].missing > 0,
                   Meta[d].duplicates>> : d \in S}
           b == Cardinality(B)
           c == Cardinality(C)
           e == Cardinality(E)
<1>4. b \in Int
  <2>1. PICK f : f = [d \in S |-> <<SchemaFamily(Meta[d]), TaskType(Meta[d])>>] OBVIOUS
  <2>2. DOMAIN f = S /\ B = {f[d] : d \in S} BY <2>1
  <2> HIDE DEF B
  <2> QED BY <1>1, <2>2, ImageFinite
<1>5. c \in Int
  <2>1. PICK f : f = [d \in S |-> Profile[d]] OBVIOUS
  <2>2. DOMAIN f = S /\ C = {f[d] : d \in S} BY <2>1
  <2> HIDE DEF C
  <2> QED BY <1>1, <2>2, ImageFinite
<1>6. e \in Int
  <2>1. PICK f : f = [d \in S |-> <<Meta[d].features, Meta[d].classes, Meta[d].missing > 0,
                                    Meta[d].duplicates>>]
    OBVIOUS
  <2>2. DOMAIN f = S /\ E = {f[d] : d \in S} BY <2>1
  <2> HIDE DEF E
  <2> QED BY <1>1, <2>2, ImageFinite
<1>7. Score(S) = <<Cardinality(Covered(S) \cap Policy.required), b, c - Cardinality(S), e>>
  BY DEF Score
<1> HIDE DEF b, c, e
<1>8. c - Cardinality(S) \in Int BY <1>3, <1>5
<1> QED BY <1>2, <1>4, <1>6, <1>7, <1>8 DEF Quadruples

\* The order of scores is that of their first difference.
LEMMA AboveOrders ==
  /\ \A s, t, u \in Quadruples : Above(s, t) /\ Above(t, u) => Above(s, u)
  /\ \A s, t \in Quadruples : Above(s, t) => ~Above(t, s) /\ s # t
  /\ \A s, t \in Quadruples : s = t \/ Above(s, t) \/ Above(t, s)
<1> DEFINE First(s, t) ==
      \/ s[1] > t[1]
      \/ s[1] = t[1] /\ s[2] > t[2]
      \/ s[1] = t[1] /\ s[2] = t[2] /\ s[3] > t[3]
      \/ s[1] = t[1] /\ s[2] = t[2] /\ s[3] = t[3] /\ s[4] > t[4]
<1>1. ASSUME NEW s \in Quadruples, NEW t \in Quadruples
      PROVE  Above(s, t) <=> First(s, t)
  <2>1. DOMAIN s = 1 .. 4 BY DEF Quadruples
  <2>2. 1 .. 4 = {1, 2, 3, 4} OBVIOUS
  <2>3. Above(s, t) <=> \E i \in {1, 2, 3, 4} : s[i] > t[i] /\ \A j \in 1 .. i - 1 : s[j] = t[j]
    BY <2>1, <2>2 DEF Above
  <2>4. 1 .. 1 - 1 = {} /\ 1 .. 2 - 1 = {1} /\ 1 .. 3 - 1 = {1, 2} /\ 1 .. 4 - 1 = {1, 2, 3}
    OBVIOUS
  <2> QED BY <2>3, <2>4
<1>2. \A s \in Quadruples :
         /\ s[1] \in Int /\ s[2] \in Int /\ s[3] \in Int /\ s[4] \in Int
         /\ s = <<s[1], s[2], s[3], s[4]>>
  BY DEF Quadruples
<1>3. \A s, t, u \in Quadruples : First(s, t) /\ First(t, u) => First(s, u) BY <1>2
<1>4. \A s, t \in Quadruples : First(s, t) => ~First(t, s) /\ s # t BY <1>2
<1>5. \A s, t \in Quadruples : s = t \/ First(s, t) \/ First(t, s)
  <2> TAKE s, t \in Quadruples
  <2>1. CASE s[1] = t[1] /\ s[2] = t[2] /\ s[3] = t[3] /\ s[4] = t[4] BY <1>2, <2>1
  <2>2. CASE ~(s[1] = t[1] /\ s[2] = t[2] /\ s[3] = t[3] /\ s[4] = t[4]) BY <1>2, <2>2
  <2> QED BY <2>1, <2>2
<1> HIDE DEF First
<1> QED BY <1>1, <1>3, <1>4, <1>5

\* The order of tuples of ascending numbers.
LEMMA SmallestOrders ==
  /\ \A S, T \in SUBSET Registry : S # T =>
       /\ SymDiff(S, T) = SymDiff(T, S)
       /\ Min(SymDiff(S, T)) \in S <=> Min(SymDiff(S, T)) \notin T
  /\ \A S, T, U \in SUBSET Registry :
       /\ S # T /\ T # U /\ S # U
       /\ Min(SymDiff(S, T)) \in S /\ Min(SymDiff(T, U)) \in T
       => Min(SymDiff(S, U)) \in S
<1>1. ASSUME NEW S \in SUBSET Registry, NEW T \in SUBSET Registry, S # T
      PROVE  /\ Min(SymDiff(S, T)) \in SymDiff(S, T)
             /\ \A x \in SymDiff(S, T) : Min(SymDiff(S, T)) <= x
             /\ SymDiff(S, T) \subseteq Nat
  <2>1. SymDiff(S, T) \subseteq Registry /\ SymDiff(S, T) # {} BY <1>1 DEF SymDiff
  <2>2. IsFiniteSet(SymDiff(S, T)) BY <2>1, PlanAssumption, FS_Subset
  <2>3. SymDiff(S, T) \subseteq Nat BY <2>1, PlanAssumption
  <2> QED BY <2>1, <2>2, <2>3, MinMax
<1>2. ASSUME NEW S \in SUBSET Registry, NEW T \in SUBSET Registry, S # T
      PROVE  /\ SymDiff(S, T) = SymDiff(T, S)
             /\ Min(SymDiff(S, T)) \in S <=> Min(SymDiff(S, T)) \notin T
  <2>1. Min(SymDiff(S, T)) \in SymDiff(S, T) BY <1>1, <1>2
  <2>2. SymDiff(S, T) = SymDiff(T, S) BY DEF SymDiff
  <2>3. \A x \in SymDiff(S, T) : x \in S <=> x \notin T BY DEF SymDiff
  <2> QED BY <2>1, <2>2, <2>3
<1>3. ASSUME NEW S \in SUBSET Registry, NEW T \in SUBSET Registry, NEW U \in SUBSET Registry,
             S # T, T # U, S # U,
             Min(SymDiff(S, T)) \in S, Min(SymDiff(T, U)) \in T
      PROVE  Min(SymDiff(S, U)) \in S
  <2>1. PICK a : a = Min(SymDiff(S, T)) OBVIOUS
  <2>2. PICK b : b = Min(SymDiff(T, U)) OBVIOUS
  <2>3. PICK c : c = Min(SymDiff(S, U)) OBVIOUS
  <2>4. /\ a \in SymDiff(S, T) /\ a \in Nat /\ \A x \in SymDiff(S, T) : a <= x
        /\ a \in S
    BY <1>1, <1>3, <2>1
  <2>5. /\ b \in SymDiff(T, U) /\ b \in Nat /\ \A x \in SymDiff(T, U) : b <= x
        /\ b \in T
    BY <1>1, <1>3, <2>2
  <2>6. c \in SymDiff(S, U) /\ c \in Nat /\ \A x \in SymDiff(S, U) : c <= x
    BY <1>1, <1>3, <2>3
  <2>7. a \notin T /\ b \notin U BY <2>4, <2>5 DEF SymDiff
  <2>8. a # b BY <2>5, <2>7
  <2>9. CASE a < b
    <3>1. a \notin SymDiff(T, U) BY <2>4, <2>5, <2>9
    <3>2. a \in SymDiff(S, U) BY <2>4, <2>7, <3>1 DEF SymDiff
    <3>3. c <= a BY <2>6, <3>2
    <3>4. CASE c = a BY <2>3, <2>4, <3>4
    <3>5. CASE c < a
      <4>1. c \notin SymDiff(S, T) BY <2>4, <2>6, <3>5
      <4>2. c \notin SymDiff(T, U) BY <2>4, <2>5, <2>6, <2>9, <3>5
      <4> QED BY <2>6, <4>1, <4>2 DEF SymDiff
    <3> QED BY <2>4, <2>6, <3>3, <3>4, <3>5
  <2>10. CASE b < a
    <3>1. b \notin SymDiff(S, T) BY <2>4, <2>5, <2>10
    <3>2. b \in S /\ b \in SymDiff(S, U) BY <2>5, <2>7, <3>1 DEF SymDiff
    <3>3. c <= b BY <2>6, <3>2
    <3>4. CASE c = b BY <2>3, <3>2, <3>4
    <3>5. CASE c < b
      <4>1. c \notin SymDiff(T, U) BY <2>5, <2>6, <3>5
      <4>2. c \notin SymDiff(S, T) BY <2>4, <2>5, <2>6, <2>10, <3>5
      <4> QED BY <2>6, <4>1, <4>2 DEF SymDiff
    <3> QED BY <2>5, <2>6, <3>3, <3>4, <3>5
  <2> QED BY <2>4, <2>5, <2>8, <2>9, <2>10
<1> QED BY <1>2, <1>3

LEMMA ScoresOf ==
  /\ DOMAIN Scores = {T \in SUBSET Registry : Cardinality(T) = CohortSize}
  /\ \A S \in DOMAIN Scores : Scores[S] = Score(S) /\ Scores[S] \in Quadruples
<1>1. DOMAIN Scores = {T \in SUBSET Registry : Cardinality(T) = CohortSize} BY DEF Scores
<1>2. \A S \in DOMAIN Scores : Scores[S] = Score(S) BY DEF Scores
<1> QED BY <1>1, <1>2, ScoreType

\* Of two cohorts one beats the other, and beating is transitive.
LEMMA BeatsOrders ==
  /\ \A S, T \in DOMAIN Scores : S # T => (Beats(S, T) <=> ~Beats(T, S))
  /\ \A S, T, U \in DOMAIN Scores :
       S # T /\ T # U /\ S # U /\ Beats(S, T) /\ Beats(T, U) => Beats(S, U)
<1> USE ScoresOf
<1>1. ASSUME NEW S \in DOMAIN Scores, NEW T \in DOMAIN Scores, S # T
      PROVE  Beats(S, T) <=> ~Beats(T, S)
  <2>1. S \in SUBSET Registry /\ T \in SUBSET Registry OBVIOUS
  <2>2. /\ SymDiff(S, T) = SymDiff(T, S)
        /\ Min(SymDiff(S, T)) \in S <=> Min(SymDiff(S, T)) \notin T
    BY <1>1, <2>1, SmallestOrders
  <2>3. CASE Scores[S] = Scores[T]
    <3>1. ~Above(Scores[S], Scores[T]) /\ ~Above(Scores[T], Scores[S])
      BY <2>3, AboveOrders
    <3> QED BY <2>2, <2>3, <3>1 DEF Beats
  <2>4. CASE Scores[S] # Scores[T]
    <3>1. Above(Scores[S], Scores[T]) <=> ~Above(Scores[T], Scores[S])
      BY <2>4, AboveOrders
    <3> QED BY <2>4, <3>1 DEF Beats
  <2> QED BY <2>3, <2>4
<1>2. ASSUME NEW S \in DOMAIN Scores, NEW T \in DOMAIN Scores, NEW U \in DOMAIN Scores,
             S # T, T # U, S # U, Beats(S, T), Beats(T, U)
      PROVE  Beats(S, U)
  <2>1. S \in SUBSET Registry /\ T \in SUBSET Registry /\ U \in SUBSET Registry OBVIOUS
  <2>2. CASE Above(Scores[S], Scores[T]) /\ Above(Scores[T], Scores[U])
    BY <2>2, AboveOrders DEF Beats
  <2>3. CASE Above(Scores[S], Scores[T]) /\ Scores[T] = Scores[U] BY <2>3 DEF Beats
  <2>4. CASE Scores[S] = Scores[T] /\ Above(Scores[T], Scores[U]) BY <2>4 DEF Beats
  <2>5. CASE /\ Scores[S] = Scores[T] /\ Min(SymDiff(S, T)) \in S
             /\ Scores[T] = Scores[U] /\ Min(SymDiff(T, U)) \in T
    <3>1. Min(SymDiff(S, U)) \in S BY <1>2, <2>1, <2>5, SmallestOrders
    <3> QED BY <2>5, <3>1 DEF Beats
  <2> QED BY <1>2, <2>2, <2>3, <2>4, <2>5 DEF Beats
<1> QED BY <1>1, <1>2

\* Among any cohorts one beats all others.
LEMMA WinnerExists ==
  ASSUME NEW X, X \subseteq DOMAIN Scores, X # {}
  PROVE  \E S \in X : \A T \in X \ {S} : Beats(S, T)
<1> DEFINE Beaten(S) == {T \in X \ {S} : Beats(S, T)}
<1>1. IsFiniteSet(X)
  <2>1. IsFiniteSet(SUBSET Registry) BY PlanAssumption, FS_SUBSET
  <2> QED BY <2>1, ScoresOf, FS_Subset
<1>2. \A S \in X : IsFiniteSet(Beaten(S)) /\ Cardinality(Beaten(S)) \in Nat
  <2> TAKE S \in X
  <2>1. Beaten(S) \in SUBSET X OBVIOUS
  <2> HIDE DEF Beaten
  <2> QED BY <1>1, <2>1, FS_Subset, FS_CardinalityType
<1> DEFINE K == {Cardinality(Beaten(S)) : S \in X}
<1>3. IsFiniteSet(K) /\ K \subseteq Nat /\ K # {}
  <2> HIDE DEF Beaten
  <2>1. PICK f : f = [S \in X |-> Cardinality(Beaten(S))] OBVIOUS
  <2>2. DOMAIN f = X /\ K = {f[S] : S \in X} BY <2>1
  <2>3. K \subseteq Nat BY <1>2
  <2>4. K # {} OBVIOUS
  <2> HIDE DEF K
  <2> QED BY <1>1, <2>2, <2>3, <2>4, ImageFinite
<1>4. Max(K) \in K /\ \A x \in K : Max(K) >= x
  <2> HIDE DEF K
  <2> QED BY <1>3, MinMax
<1>5. PICK S \in X : Cardinality(Beaten(S)) = Max(K) BY <1>4
<1>6. ASSUME NEW T \in X \ {S}, ~Beats(S, T)
      PROVE  FALSE
  <2>1. Beats(T, S) BY <1>6, BeatsOrders
  <2>2. \A U \in Beaten(S) : U \in Beaten(T)
    <3> TAKE U \in Beaten(S)
    <3>1. U \in X /\ U # S /\ Beats(S, U) /\ U # T BY <1>6
    <3>2. Beats(T, U) BY <2>1, <3>1, BeatsOrders
    <3> QED BY <3>1, <3>2
  <2>3. S \in Beaten(T) /\ S \notin Beaten(S) BY <2>1
  <2>4. Cardinality(Beaten(T)) \in K OBVIOUS
  <2> HIDE DEF Beaten, K
  <2>5. Beaten(S) \in SUBSET Beaten(T) /\ Beaten(S) # Beaten(T) BY <2>2, <2>3
  <2>6. /\ Cardinality(Beaten(S)) <= Cardinality(Beaten(T))
        /\ Cardinality(Beaten(S)) # Cardinality(Beaten(T))
    BY <1>2, <2>5, FS_Subset
  <2>7. Cardinality(Beaten(S)) \in Nat /\ Cardinality(Beaten(T)) \in Nat BY <1>2
  <2> QED BY <1>4, <1>5, <2>4, <2>6, <2>7
<1> QED BY <1>6

\* As many elements of a finite set as one likes.
LEMMA SubsetOfSize ==
  ASSUME NEW S, IsFiniteSet(S), NEW n \in 0 .. Cardinality(S)
  PROVE  \E T \in SUBSET S : IsFiniteSet(T) /\ Cardinality(T) = n
<1>1. PICK f : f \in Bijection(1 .. Cardinality(S), S)
  BY FS_CardinalityType DEF ExistsBijection
<1>2. Cardinality(S) \in Nat BY FS_CardinalityType
<1> DEFINE T == {f[i] : i \in 1 .. n}
           g == [i \in 1 .. n |-> f[i]]
<1>3. f \in [1 .. Cardinality(S) -> S] /\
      \A i, j \in 1 .. Cardinality(S) : f[i] = f[j] => i = j
  BY <1>1 DEF Bijection, Injection, IsInjective
<1>4. n \in Nat /\ 1 .. n \subseteq 1 .. Cardinality(S) BY <1>2
<1>5. g \in Bijection(1 .. n, T)
  BY <1>3, <1>4 DEF Bijection, Injection, Surjection, IsInjective
<1>6. IsFiniteSet(1 .. n) /\ Cardinality(1 .. n) = n
  <2>1. 1 \in Int /\ n \in Int BY <1>4
  <2>2. /\ IsFiniteSet(1 .. n)
        /\ Cardinality(1 .. n) = IF 1 > n THEN 0 ELSE n - 1 + 1
    BY <2>1, FS_Interval
  <2> QED BY <1>4, <2>2
<1>7. T \in SUBSET S BY <1>3, <1>4
<1> HIDE DEF T, g
<1>8. IsFiniteSet(T) /\ Cardinality(T) = n
  BY <1>5, <1>6, FS_Bijection DEF ExistsBijection
<1> QED BY <1>7, <1>8

\* Of any candidates that are enough, with the anchor among them, the selection
\* is a cohort that beats every other one, in whatever order they are compared
\* (select_candidate_ids).
THEOREM SelectionIsCohort ==
  ASSUME NEW C, C \subseteq Registry, Cardinality(C) >= CohortSize, Anchor \in C
  PROVE  /\ SelectCandidateIds[C] \in Cohorts(C)
         /\ \A T \in Cohorts(C) \ {SelectCandidateIds[C]} : Beats(SelectCandidateIds[C], T)
<1>1. IsFiniteSet(C) /\ Cardinality(C) \in Nat
  BY PlanAssumption, FS_Subset, FS_CardinalityType
<1>2. CohortSize \in Nat \ {0}
  <2>1. Cardinality(Registry) \in Nat BY PlanAssumption, FS_CardinalityType
  <2> QED BY <2>1, PlanAssumption
<1>3. Cohorts(C) # {}
  <2>1. IsFiniteSet(C \ {Anchor}) /\ Cardinality(C \ {Anchor}) = Cardinality(C) - 1
    BY <1>1, FS_RemoveElement
  <2>2. CohortSize - 1 \in 0 .. Cardinality(C \ {Anchor}) BY <1>1, <1>2, <2>1
  <2>3. PICK T \in SUBSET (C \ {Anchor}) : IsFiniteSet(T) /\ Cardinality(T) = CohortSize - 1
    BY <2>1, <2>2, SubsetOfSize
  <2>4. Cardinality(T \cup {Anchor}) = CohortSize
    <3>1. Anchor \notin T BY <2>3
    <3>2. Cardinality(T \cup {Anchor}) = Cardinality(T) + 1 BY <2>3, <3>1, FS_AddElement
    <3> QED BY <1>2, <2>3, <3>2
  <2>5. T \cup {Anchor} \in Cohorts(C) BY <2>3, <2>4, ScoresOf DEF Cohorts
  <2> QED BY <2>5
<1>4. Cohorts(C) \subseteq DOMAIN Scores BY DEF Cohorts
<1>5. \E S \in Cohorts(C) : \A T \in Cohorts(C) \ {S} : Beats(S, T)
  BY <1>3, <1>4, WinnerExists
<1>6. SelectCandidateIds[C] = CHOOSE S \in Cohorts(C) : \A T \in Cohorts(C) \ {S} : Beats(S, T)
  BY <1>3 DEF SelectCandidateIds
<1> QED BY <1>5, <1>6

-----------------------------------------------------------------------------
(* What the contracts demand of a protocol and its inventory.                 *)

\* A cohort the planner goes on with, and views it has collected for it.
GoodCohort(S) ==
  /\ S \in SUBSET Registry /\ Cardinality(S) = CohortSize /\ Anchor \in S
  /\ Policy.required \subseteq Covered(S)

GoodViews(S, views) ==
  /\ DOMAIN views = S
  /\ \A d \in S : views[d].applicable \in SUBSET Views /\ Identity \in views[d].applicable

LEMMA CohortFinite ==
  ASSUME NEW S, GoodCohort(S)
  PROVE  IsFiniteSet(S) /\ S \subseteq Nat /\ CohortSize \in Nat \ {0} /\ S # {}
<1>1. IsFiniteSet(S) /\ S \subseteq Nat BY PlanAssumption, FS_Subset DEF GoodCohort
<1>2. Cardinality(Registry) \in Nat BY PlanAssumption, FS_CardinalityType
<1>3. CohortSize \in Nat \ {0} BY <1>2, PlanAssumption
<1> QED BY <1>1, <1>3 DEF GoodCohort

\* One frozen record for each of them.
LEMMA SelectedAgree ==
  ASSUME NEW S, IsFiniteSet(S), NEW data
  PROVE  /\ Ids(SelectedDatasets(S, data)) = S
         /\ Cardinality(SelectedDatasets(S, data)) = Cardinality(S)
<1>1. PICK f : f = [d \in S |-> [dataset |-> d, at |-> data[d].at]] OBVIOUS
<1>2. f \in Bijection(S, SelectedDatasets(S, data))
  BY <1>1 DEF SelectedDatasets, Bijection, Injection, Surjection, IsInjective
<1>3. Cardinality(SelectedDatasets(S, data)) = Cardinality(S)
  BY <1>2, FS_Bijection DEF ExistsBijection
<1>4. Ids(SelectedDatasets(S, data)) = S
  <2>1. \A q \in SelectedDatasets(S, data) : q.dataset \in S BY DEF SelectedDatasets
  <2>2. ASSUME NEW d \in S
        PROVE  \E q \in SelectedDatasets(S, data) : q.dataset = d
    <3>1. [dataset |-> d, at |-> data[d].at] \in SelectedDatasets(S, data)
      BY DEF SelectedDatasets
    <3> QED BY <3>1
  <2> QED BY <2>1, <2>2 DEF Ids
<1> QED BY <1>3, <1>4

LEMMA ExcludedAgree ==
  ASSUME NEW S
  PROVE  Ids(ExcludedDatasets(S)) = Registry \ S
<1>1. \A q \in ExcludedDatasets(S) : q.dataset \in Registry \ S BY DEF ExcludedDatasets
<1>2. ASSUME NEW e \in Registry \ S
      PROVE  \E q \in ExcludedDatasets(S) : q.dataset = e
  <2>1. [dataset |-> e, describes |-> Max(S), competitor |-> Competitor(e, S)]
          \in ExcludedDatasets(S)
    BY DEF ExcludedDatasets
  <2> QED BY <2>1
<1> QED BY <1>1, <1>2 DEF Ids

LEMMA ProtocolAgrees ==
  ASSUME NEW r, GoodCohort(r.cohort), GoodViews(r.cohort, r.views)
  PROVE  ViewsHold(Protocol(r)) /\ ProtocolHolds(Protocol(r))
<1> DEFINE P == Protocol(r)
<1>1. /\ P.selected = SelectedDatasets(r.cohort, r.data)
      /\ P.excluded = ExcludedDatasets(r.cohort) /\ P.views = r.views
      /\ P.estimate = RuntimeEstimate(r.cohort, r.views, r.runtime, r.probes)
  BY DEF Protocol
<1> HIDE DEF P
<1>2. ViewsHold(P) BY <1>1 DEF ViewsHold, GoodViews
<1>3. /\ Ids(P.selected) = r.cohort /\ Cardinality(P.selected) = CohortSize
      /\ Ids(P.excluded) = Registry \ r.cohort
  BY <1>1, CohortFinite, SelectedAgree, ExcludedAgree DEF GoodCohort
<1>4. DOMAIN P.estimate.cpu = r.cohort /\ EstimateHolds(P.estimate)
  BY <1>1 DEF RuntimeEstimate, EstimateHolds
<1>5. \A d \in r.cohort : SelectionHolds(Meta[d]) BY MetaAssumption DEF GoodCohort
<1>6. ProtocolHolds(P) BY <1>3, <1>4, <1>5 DEF ProtocolHolds, GoodCohort
<1> QED BY <1>2, <1>6 DEF P

RecordsFor(S, A) == UNION {{<<d, v, m>> : v \in A[d], m \in Models} : d \in S}
RestFor(S, A) == UNION {{<<d, v>> : v \in Views \ A[d]} : d \in S}
TuplesOf(R) == {<<c[1], c[2]>> : c \in R}
ModelsAt(R, t) == {c[3] : c \in {q \in R : <<q[1], q[2]>> = t}}

\* Applicable tuples and the others are all tuples, and each applicable one has
\* a record for every model.
LEMMA TuplesAgree ==
  ASSUME NEW S, IsFiniteSet(S), NEW A,
         \A d \in S : A[d] \in SUBSET Views /\ Identity \in A[d]
  PROVE  /\ S \X {Identity} \X Models \subseteq RecordsFor(S, A)
         /\ TuplesOf(RecordsFor(S, A)) \cap RestFor(S, A) = {}
         /\ \A t \in TuplesOf(RecordsFor(S, A)) : ModelsAt(RecordsFor(S, A), t) = Models
         /\ Cardinality(TuplesOf(RecordsFor(S, A))) + Cardinality(RestFor(S, A))
              = Cardinality(S) * Cardinality(Views)
<1> PICK R : R = RecordsFor(S, A) OBVIOUS
<1> PICK N : N = RestFor(S, A) OBVIOUS
<1> PICK T : T = TuplesOf(R) OBVIOUS
<1>1. \A d, v, m : <<d, v, m>> \in R <=> d \in S /\ v \in A[d] /\ m \in Models
  BY DEF RecordsFor
<1>2. \A c \in R : \E d \in S : \E v \in A[d], m \in Models : c = <<d, v, m>>
  BY DEF RecordsFor
<1>3. \A d, v : <<d, v>> \in N <=> d \in S /\ v \in Views \ A[d]
  BY DEF RestFor
<1>4. \A t \in N : \E d \in S, v \in Views : t = <<d, v>>
  BY DEF RestFor
<1>5. \A d, v : <<d, v>> \in T <=> d \in S /\ v \in A[d]
  <2> TAKE d, v
  <2>1. ASSUME <<d, v>> \in T
        PROVE  d \in S /\ v \in A[d]
    <3>1. PICK c \in R : <<d, v>> = <<c[1], c[2]>> BY <2>1 DEF TuplesOf
    <3>2. PICK e \in S : \E w \in A[e], m \in Models : c = <<e, w, m>> BY <1>2
    <3> QED BY <3>1, <3>2
  <2>2. ASSUME d \in S, v \in A[d]
        PROVE  <<d, v>> \in T
    <3>1. PICK m : m \in Models BY PlanAssumption
    <3>2. <<d, v, m>> \in R BY <1>1, <2>2, <3>1
    <3>3. \E c \in R : <<d, v>> = <<c[1], c[2]>>
      <4> WITNESS <<d, v, m>> \in R
      <4> QED OBVIOUS
    <3> QED BY <3>3 DEF TuplesOf
  <2> QED BY <2>1, <2>2
<1>6. \A t \in T : \E d \in S : \E v \in A[d] : t = <<d, v>>
  <2> TAKE t \in T
  <2>1. PICK c \in R : t = <<c[1], c[2]>> BY DEF TuplesOf
  <2>2. PICK d \in S : \E v \in A[d], m \in Models : c = <<d, v, m>> BY <1>2
  <2> QED BY <2>1, <2>2
<1>7. S \X {Identity} \X Models \subseteq R BY <1>1
<1>8. T \cap N = {} BY <1>3, <1>5, <1>6
<1>9. T \cup N = S \X Views
  <2>1. \A t \in T : t \in S \X Views BY <1>6
  <2>2. \A t \in N : t \in S \X Views BY <1>4
  <2>3. \A d \in S, v \in Views : <<d, v>> \in T \/ <<d, v>> \in N BY <1>3, <1>5
  <2>4. \A t \in S \X Views : \E d \in S, v \in Views : t = <<d, v>> OBVIOUS
  <2> QED BY <2>1, <2>2, <2>3, <2>4
<1>10. ASSUME NEW t \in T
       PROVE  ModelsAt(R, t) = Models
  <2>1. PICK d \in S : \E v \in A[d] : t = <<d, v>> BY <1>6
  <2>2. PICK v \in A[d] : t = <<d, v>> BY <2>1
  <2> DEFINE Q == {q \in R : <<q[1], q[2]>> = t}
  <2>3. ASSUME NEW c \in Q
        PROVE  c[3] \in Models
    <3>1. PICK e \in S : \E w \in A[e], m \in Models : c = <<e, w, m>> BY <1>2, <2>3
    <3> QED BY <3>1
  <2>4. ASSUME NEW m \in Models
        PROVE  \E c \in Q : m = c[3]
    <3>1. <<d, v, m>> \in R BY <1>1, <2>4
    <3>2. <<d, v, m>> \in Q BY <2>2, <3>1
    <3> WITNESS <<d, v, m>> \in Q
    <3> QED OBVIOUS
  <2> HIDE DEF Q
  <2>5. {c[3] : c \in Q} = Models BY <2>3, <2>4
  <2> QED BY <2>5 DEF Q, ModelsAt
<1>11. Cardinality(T) + Cardinality(N) = Cardinality(S) * Cardinality(Views)
  <2>1. IsFiniteSet(S \X Views) /\ Cardinality(S \X Views) = Cardinality(S) * Cardinality(Views)
    BY PlanAssumption, FS_Product
  <2>2. IsFiniteSet(T) /\ IsFiniteSet(N)
    BY <1>9, <2>1, FS_Subset
  <2>3. Cardinality(T \cup N) = Cardinality(T) + Cardinality(N) - Cardinality(T \cap N)
    BY <2>2, FS_Union
  <2>4. Cardinality(T \cap N) = 0 BY <1>8, FS_EmptySet
  <2>5. Cardinality(T) \in Nat /\ Cardinality(N) \in Nat BY <2>2, FS_CardinalityType
  <2>6. Cardinality(T \cup N) = Cardinality(T) + Cardinality(N) BY <2>3, <2>4, <2>5
  <2> QED BY <1>9, <2>1, <2>6
<1> QED BY <1>7, <1>8, <1>10, <1>11

LEMMA InventoryAgrees ==
  ASSUME NEW r, GoodCohort(r.cohort), GoodViews(r.cohort, r.views)
  PROVE  InventoryHolds(Protocol(r), Inventory(Protocol(r)))
<1> PICK P : P = Protocol(r) OBVIOUS
<1> PICK I : I = Inventory(P) OBVIOUS
<1> PICK S : S = r.cohort OBVIOUS
<1> PICK A : A = [d \in S |-> r.views[d].applicable] OBVIOUS
<1>1. P.selected = SelectedDatasets(S, r.data) /\ P.views = r.views BY DEF Protocol
<1>2. IsFiniteSet(S) /\ Ids(P.selected) = S BY <1>1, CohortFinite, SelectedAgree
<1>3. \A d \in S : A[d] \in SUBSET Views /\ Identity \in A[d] BY DEF GoodViews
<1>4. I.records = RecordsFor(S, A) /\ I.notApplicable = RestFor(S, A)
  BY <1>1, <1>2 DEF Inventory, PlannedCondition, RecordsFor, RestFor
<1>5. /\ S \X {Identity} \X Models \subseteq I.records
      /\ TuplesOf(I.records) \cap I.notApplicable = {}
      /\ \A t \in TuplesOf(I.records) : ModelsAt(I.records, t) = Models
      /\ Cardinality(TuplesOf(I.records)) + Cardinality(I.notApplicable)
           = Cardinality(S) * Cardinality(Views)
  <2>1. /\ S \X {Identity} \X Models \subseteq RecordsFor(S, A)
        /\ TuplesOf(RecordsFor(S, A)) \cap RestFor(S, A) = {}
        /\ \A t \in TuplesOf(RecordsFor(S, A)) : ModelsAt(RecordsFor(S, A), t) = Models
        /\ Cardinality(TuplesOf(RecordsFor(S, A))) + Cardinality(RestFor(S, A))
              = Cardinality(S) * Cardinality(Views)
    BY <1>2, <1>3, TuplesAgree, Zenon
  <2> QED BY <1>4, <2>1
<1>6. InventoryHolds(P, I) BY <1>2, <1>5 DEF InventoryHolds, TuplesOf, ModelsAt
<1> QED BY <1>6

-----------------------------------------------------------------------------
(* What they demand of a schedule.                                            *)

Group(S, i) == {d \in S : Rank(S)[d] \div StageSize = i}

Stages == CohortSize \div StageSize

LEMMA StagesDivide ==
  /\ StageSize \in Nat \ {0} /\ CohortSize \in Nat \ {0}
  /\ Stages \in Nat /\ CohortSize = StageSize * Stages
<1>1. Cardinality(Registry) \in Nat BY PlanAssumption, FS_CardinalityType
<1>2. CohortSize \in Nat \ {0} /\ StageSize \in Nat \ {0} /\ CohortSize % StageSize = 0
  BY <1>1, PlanAssumption
<1>3. PICK q, m : q = CohortSize \div StageSize /\ m = CohortSize % StageSize OBVIOUS
<1>4. CohortSize = StageSize * q + m BY <1>2, <1>3
<1>5. q \in Nat BY <1>2, <1>3, Division
<1>6. CohortSize = StageSize * q BY <1>2, <1>3, <1>4, <1>5
<1> QED BY <1>2, <1>3, <1>5, <1>6 DEF Stages

LEMMA GroupsAre ==
  ASSUME NEW S, Cardinality(S) = CohortSize
  PROVE  StageGroups(S) = {Group(S, i) : i \in 0 .. Stages - 1}
BY DEF StageGroups, Group, Stages, Rank, Below

\* A group is the datasets of StageSize consecutive ranks.
LEMMA GroupOrders ==
  ASSUME NEW S, IsFiniteSet(S), S \subseteq Nat, Cardinality(S) = CohortSize,
         NEW i \in 0 .. Stages - 1
  PROVE  /\ Group(S, i) \subseteq S /\ IsFiniteSet(Group(S, i))
         /\ Cardinality(Group(S, i)) = StageSize /\ Group(S, i) # {}
         /\ \A d \in Group(S, i) :
              Rank(S)[d] \in StageSize * i .. StageSize * i + StageSize - 1
<1> PICK k : k = StageSize OBVIOUS
<1> PICK q : q = Stages OBVIOUS
<1> DEFINE I == k * i .. k * i + k - 1
<1>1. k \in Nat \ {0} /\ q \in Nat /\ CohortSize = k * q /\ i \in Nat /\ i < q
  BY StagesDivide
<1>2. k * i \in Nat /\ k * i + k - 1 \in Nat /\ k * i + k - 1 <= k * q - 1
  <2>1. \A x, y \in Nat : x <= y => k * x <= k * y BY <1>1
  <2>2. k * (i + 1) <= k * q BY <1>1, <2>1
  <2>3. k * (i + 1) = k * i + k BY <1>1
  <2>4. k * i \in Nat /\ k * q \in Nat BY <1>1
  <2> QED BY <1>1, <2>2, <2>3, <2>4
<1>3. I \subseteq 0 .. Cardinality(S) - 1 BY <1>1, <1>2
<1>4. /\ \A d \in S : Rank(S)[d] \in 0 .. Cardinality(S) - 1
      /\ \A c, d \in S : Rank(S)[c] = Rank(S)[d] => c = d
      /\ \A j \in 0 .. Cardinality(S) - 1 : \E d \in S : Rank(S)[d] = j
  <2>1. Rank(S) \in Bijection(S, 0 .. Cardinality(S) - 1) BY RankOrders
  <2> QED BY <2>1 DEF Bijection, Injection, Surjection, IsInjective
<1>5. \A d \in S : d \in Group(S, i) <=> Rank(S)[d] \in I
  <2> TAKE d \in S
  <2>1. Rank(S)[d] \in Nat BY <1>4
  <2>2. Rank(S)[d] \div k = i <=> Rank(S)[d] \in I BY <1>1, <2>1, Quotient
  <2> QED BY <2>2 DEF Group
<1>6. Group(S, i) \subseteq S BY DEF Group
<1>7. PICK g : g = [d \in Group(S, i) |-> Rank(S)[d]] OBVIOUS
<1>8. g \in Bijection(Group(S, i), I)
  <2>1. g \in [Group(S, i) -> I] BY <1>5, <1>6, <1>7
  <2>2. \A c, d \in Group(S, i) : g[c] = g[d] => c = d BY <1>4, <1>6, <1>7
  <2>3. \A j \in I : \E d \in Group(S, i) : g[d] = j
    <3> TAKE j \in I
    <3>1. PICK d \in S : Rank(S)[d] = j BY <1>3, <1>4
    <3> QED BY <1>5, <1>7, <3>1
  <2> HIDE DEF I
  <2> QED BY <2>1, <2>2, <2>3 DEF Bijection, Injection, Surjection, IsInjective
<1>9. IsFiniteSet(I) /\ Cardinality(I) = k
  <2>1. k * i \in Int /\ k * i + k - 1 \in Int /\ k * i <= k * i + k - 1 BY <1>1, <1>2
  <2>2. /\ IsFiniteSet(I)
        /\ Cardinality(I) = IF k * i > k * i + k - 1 THEN 0 ELSE (k * i + k - 1) - k * i + 1
    BY <2>1, FS_Interval
  <2>3. Cardinality(I) = (k * i + k - 1) - k * i + 1 BY <2>1, <2>2
  <2> HIDE DEF I
  <2>4. \A x \in Nat : (x + k - 1) - x + 1 = k BY <1>1
  <2> QED BY <1>2, <2>2, <2>3, <2>4
<1>10. IsFiniteSet(Group(S, i)) BY <1>6, FS_Subset
<1>11. Cardinality(Group(S, i)) = k
  <2> HIDE DEF I
  <2> QED BY <1>8, <1>9, <1>10, FS_Bijection DEF ExistsBijection
<1>12. Group(S, i) # {} BY <1>1, <1>11, FS_EmptySet
<1> QED BY <1>5, <1>6, <1>10, <1>11, <1>12

\* A group of smaller number lies below.
LEMMA GroupBelow ==
  ASSUME NEW S, IsFiniteSet(S), S \subseteq Nat, Cardinality(S) = CohortSize,
         NEW i \in 0 .. Stages - 1, NEW j \in 0 .. Stages - 1, i < j
  PROVE  /\ Group(S, i) \cap Group(S, j) = {}
         /\ Max(Group(S, i)) < Min(Group(S, j))
<1>1. ASSUME NEW c \in Group(S, i), NEW d \in Group(S, j)
      PROVE  c < d
  <2> PICK k : k = StageSize OBVIOUS
  <2>1. k \in Nat \ {0} /\ Stages \in Nat /\ i \in Nat /\ j \in Nat BY StagesDivide
  <2>2. /\ Rank(S)[c] \in k * i .. k * i + k - 1
        /\ Rank(S)[d] \in k * j .. k * j + k - 1
        /\ c \in S /\ d \in S
    BY GroupOrders
  <2>3. k * i + k <= k * j
    <3>1. \A x, y \in Nat : x <= y => k * x <= k * y BY <2>1
    <3>2. k * (i + 1) <= k * j BY <2>1, <3>1
    <3>3. k * (i + 1) = k * i + k BY <2>1
    <3> QED BY <3>2, <3>3
  <2>4. k * i \in Nat /\ k * j \in Nat BY <2>1
  <2>5. Rank(S)[c] < Rank(S)[d] BY <2>1, <2>2, <2>3, <2>4
  <2>6. c \in Nat /\ d \in Nat BY <2>2
  <2>7. ~(d < c)
    <3>1. d < c => Rank(S)[d] < Rank(S)[c] BY <2>2, RankOrders
    <3>2. Rank(S)[c] \in Int /\ Rank(S)[d] \in Int BY <2>1, <2>2, <2>4
    <3> QED BY <2>5, <3>1, <3>2
  <2>8. c # d
    <3>2. Rank(S)[c] \in Int /\ Rank(S)[d] \in Int BY <2>1, <2>2, <2>4
    <3> QED BY <2>5, <3>2
  <2> QED BY <2>6, <2>7, <2>8
<1>2. \A g \in {Group(S, i), Group(S, j)} : IsFiniteSet(g) /\ g \subseteq Nat /\ g # {}
  BY GroupOrders
<1>3. Max(Group(S, i)) \in Group(S, i) /\ Min(Group(S, j)) \in Group(S, j)
  BY <1>2, MinMax
<1>4. \A c \in Group(S, i) : c \in Nat BY <1>2
<1>5. Group(S, i) \cap Group(S, j) = {} BY <1>1, <1>4
<1> QED BY <1>1, <1>3, <1>5

\* Every dataset is in a group.
LEMMA GroupsCover ==
  ASSUME NEW S, IsFiniteSet(S), S \subseteq Nat, Cardinality(S) = CohortSize, NEW d \in S
  PROVE  \E i \in 0 .. Stages - 1 : d \in Group(S, i)
<1> PICK k : k = StageSize OBVIOUS
<1> PICK q : q = Stages OBVIOUS
<1> PICK a : a = Rank(S)[d] OBVIOUS
<1> PICK i : i = a \div k OBVIOUS
<1>1. k \in Nat \ {0} /\ q \in Nat /\ CohortSize = k * q BY StagesDivide
<1>2. a \in 0 .. CohortSize - 1
  BY RankOrders DEF Bijection, Injection
<1>3. a \in Nat /\ a < k * q BY <1>1, <1>2
<1>4. i \in Nat /\ k * i <= a BY <1>1, <1>3, Division
<1>5. i < q
  <2>1. \A x, y \in Nat : x <= y => k * x <= k * y BY <1>1
  <2>2. k * i \in Nat /\ k * q \in Nat BY <1>1, <1>4
  <2>3. CASE q <= i
    <3>1. k * q <= k * i BY <1>1, <1>4, <2>1, <2>3
    <3> QED BY <1>3, <1>4, <2>2, <3>1
  <2> QED BY <1>1, <1>4, <2>3
<1>6. i \in 0 .. Stages - 1 /\ d \in Group(S, i) BY <1>1, <1>4, <1>5 DEF Group
<1> QED BY <1>6

LEMMA ScheduleAgrees ==
  ASSUME NEW r, GoodCohort(r.cohort), GoodViews(r.cohort, r.views)
  PROVE  ScheduleHolds(Schedule(r))
<1> PICK P : P = Protocol(r) OBVIOUS
<1> PICK I : I = Inventory(P) OBVIOUS
<1> PICK S : S = r.cohort OBVIOUS
<1> PICK s : s = Schedule(r) OBVIOUS
<1>1. P.selected = SelectedDatasets(S, r.data) BY DEF Protocol
<1>2. /\ IsFiniteSet(S) /\ S \subseteq Nat /\ Cardinality(S) = CohortSize
      /\ Ids(P.selected) = S
  BY <1>1, CohortFinite, SelectedAgree DEF GoodCohort
<1>3. StageGroups(S) = {Group(S, i) : i \in 0 .. Stages - 1} BY <1>2, GroupsAre
<1>4. /\ s.stages = {Stage(g, P, I) : g \in StageGroups(S)}
      /\ s.inventory = I /\ s.wall = TotalWall(s.stages)
  BY <1>2 DEF Schedule, BuildStagedSchedule
<1>5. \A g : /\ Stage(g, P, I).datasets = g
             /\ Stage(g, P, I).conditions = {c \in I.records : c[1] \in g}
  BY DEF Stage
<1>6. \A a \in s.stages : \E i \in 0 .. Stages - 1 :
        /\ a = Stage(Group(S, i), P, I) /\ a.datasets = Group(S, i)
        /\ a.conditions = {c \in I.records : c[1] \in Group(S, i)}
  BY <1>3, <1>4, <1>5
<1>7. \A a \in s.stages : Cardinality(a.datasets) = StageSize
  BY <1>2, <1>6, GroupOrders
<1>8. ASSUME NEW a \in s.stages, NEW b \in s.stages, a # b
      PROVE  /\ a.datasets \cap b.datasets = {} /\ a.conditions \cap b.conditions = {}
             /\ Max(a.datasets) < Min(b.datasets) \/ Max(b.datasets) < Min(a.datasets)
  <2>1. PICK i \in 0 .. Stages - 1 :
          /\ a = Stage(Group(S, i), P, I) /\ a.datasets = Group(S, i)
          /\ a.conditions = {c \in I.records : c[1] \in Group(S, i)}
    BY <1>6
  <2>2. PICK j \in 0 .. Stages - 1 :
          /\ b = Stage(Group(S, j), P, I) /\ b.datasets = Group(S, j)
          /\ b.conditions = {c \in I.records : c[1] \in Group(S, j)}
    BY <1>6
  <2>3. i < j \/ j < i
    <3>1. i # j BY <1>8, <2>1, <2>2
    <3>2. i \in Int /\ j \in Int OBVIOUS
    <3> QED BY <3>1, <3>2
  <2>4. /\ Group(S, i) \cap Group(S, j) = {}
        /\ \/ Max(Group(S, i)) < Min(Group(S, j))
           \/ Max(Group(S, j)) < Min(Group(S, i))
    <3>1. CASE i < j BY <1>2, <3>1, GroupBelow
    <3>2. CASE j < i
      <4>1. /\ Group(S, j) \cap Group(S, i) = {}
            /\ Max(Group(S, j)) < Min(Group(S, i))
        BY <1>2, <3>2, GroupBelow
      <4> QED BY <4>1
    <3> QED BY <2>3, <3>1, <3>2
  <2> QED BY <2>1, <2>2, <2>4
<1>9. UNION {a.conditions : a \in s.stages} = I.records
  <2>1. \A a \in s.stages : a.conditions \subseteq I.records BY <1>6
  <2>2. ASSUME NEW c \in I.records
        PROVE  \E a \in s.stages : c \in a.conditions
    <3>1. c[1] \in S BY <1>2, <2>2 DEF Inventory, PlannedCondition
    <3>2. PICK i \in 0 .. Stages - 1 : c[1] \in Group(S, i) BY <1>2, <3>1, GroupsCover
    <3>3. Stage(Group(S, i), P, I) \in s.stages BY <1>3, <1>4
    <3>4. c \in Stage(Group(S, i), P, I).conditions BY <1>5, <3>2
    <3> QED BY <3>3, <3>4
  <2> QED BY <2>1, <2>2
<1> QED BY <1>4, <1>7, <1>8, <1>9 DEF ScheduleHolds

-----------------------------------------------------------------------------
(* No freezer is refused: the cohort and the views that reach the documents   *)
(* are as the contracts want them.                                            *)

\* What a planner has read at a step satisfies the contracts on it.
Fit(s, r) ==
  /\ s \in Selected => GoodCohort(r.cohort)
  /\ s \in {"sources", "estimate"} => GoodViews(r.cohort, r.views)
  /\ s # "refused"

\* What a producer may put in a file.
Sound(i) ==
  /\ i.views.applicable \in Applicabilities
  /\ i.runtime.unit \in Nat /\ i.probes.unit \in Nat

CInv ==
  /\ Sound(inputs)
  /\ \A p \in Planners : Fit(step[p], reads[p])

LEMMA FitElsewhere ==
  ASSUME NEW s, s \notin Selected, s # "refused", NEW r
  PROVE  Fit(s, r)
BY DEF Fit, Selected

\* Only p moves.
LEMMA FitStays ==
  ASSUME IInv, CInv, NEW p \in Planners, NEW s, Goto(p, s), UNCHANGED inputs,
         \A q \in Planners \ {p} : reads'[q] = reads[q],
         Fit(s, reads'[p])
  PROVE  CInv'
<1>1. \A q \in Planners : step'[q] = IF q = p THEN s ELSE step[q]
  BY Mover DEF Goto
<1>2. ASSUME NEW q \in Planners
      PROVE  Fit(step'[q], reads'[q])
  BY <1>1 DEF CInv
<1> QED BY <1>2 DEF CInv

\* One that no longer plans.
LEMMA FitLeaves ==
  ASSUME IInv, CInv, NEW p \in Planners, NEW s, Goto(p, s), UNCHANGED inputs,
         NEW r, reads' = reads \/ reads' = [reads EXCEPT ![p] = r],
         s \notin Selected, s # "refused"
  PROVE  CInv'
<1>1. \A q \in Planners \ {p} : reads'[q] = reads[q] BY Mover
<1> QED BY <1>1, FitElsewhere, FitStays

LEMMA FitRaise ==
  ASSUME IInv, CInv, NEW p \in Planners, Raise(p), UNCHANGED inputs
  PROVE  CInv'
<1>1. Goto(p, "blocked") /\ reads' = [reads EXCEPT ![p] = Unread] BY DEF Raise
<1>2. "blocked" \notin Selected BY DEF Selected
<1> QED BY <1>1, <1>2, FitLeaves

LEMMA FitProduce == ASSUME IInv, CInv, Produce PROVE CInv'
<1>0. inputs = [data |-> inputs.data, smoke |-> inputs.smoke, views |-> inputs.views,
                runtime |-> inputs.runtime, probes |-> inputs.probes]
  BY DEF IInv, Versioned
<1>1. UNCHANGED <<step, reads>>
  BY DEF Produce, Reprocess, ReviewSmoke, Certify, TimeSmoke, Probe, Replace
<1>2. Sound(inputs')
  <2>1. CASE \E d \in Changing : Reprocess(d)
    <3>1. PICK w : inputs' = [inputs EXCEPT !["data"] = w] BY <2>1 DEF Reprocess, Replace
    <3> QED BY <1>0, <3>1 DEF CInv, Sound
  <2>2. CASE ReviewSmoke
    <3>1. PICK w : inputs' = [inputs EXCEPT !["smoke"] = w] BY <2>2 DEF ReviewSmoke, Replace
    <3> QED BY <1>0, <3>1 DEF CInv, Sound
  <2>3. CASE Certify
    <3>1. PICK w : w.applicable \in Applicabilities /\ inputs' = [inputs EXCEPT !["views"] = w]
      <4>1. PICK a \in Applicabilities :
              Replace("views", [at |-> events + 1, applicable |-> a,
                                features |-> [d \in Registry |-> inputs.data[d].at]])
        BY <2>3 DEF Certify
      <4>2. PICK w : w = [at |-> events + 1, applicable |-> a,
                          features |-> [d \in Registry |-> inputs.data[d].at]]
        OBVIOUS
      <4> QED BY <4>1, <4>2 DEF Replace
    <3> QED BY <1>0, <3>1 DEF CInv, Sound
  <2>4. CASE TimeSmoke
    <3>1. PICK w : w.unit \in Nat /\ inputs' = [inputs EXCEPT !["runtime"] = w]
      <4>1. PICK u \in Units : Replace("runtime", [at |-> events + 1, unit |-> u])
        BY <2>4 DEF TimeSmoke
      <4>2. PICK w : w = [at |-> events + 1, unit |-> u] OBVIOUS
      <4> QED BY <4>1, <4>2, ProtocolAssumption DEF Replace
    <3> QED BY <1>0, <3>1 DEF CInv, Sound
  <2>5. CASE Probe
    <3>1. PICK w : w.unit \in Nat /\ inputs' = [inputs EXCEPT !["probes"] = w]
      <4>1. PICK u \in Units, ok \in BOOLEAN :
              Replace("probes", [at |-> events + 1, unit |-> u, pass |-> ok])
        BY <2>5 DEF Probe
      <4>2. PICK w : w = [at |-> events + 1, unit |-> u, pass |-> ok] OBVIOUS
      <4> QED BY <4>1, <4>2, ProtocolAssumption DEF Replace
    <3> QED BY <1>0, <3>1 DEF CInv, Sound
  <2> QED BY <2>1, <2>2, <2>3, <2>4, <2>5 DEF Produce
<1> QED BY <1>1, <1>2 DEF CInv

LEMMA FitSelect == ASSUME IInv, CInv, NEW p \in Planners, SelectCohort(p) PROVE CInv'
<1>0. UNCHANGED inputs BY DEF SelectCohort
<1>1. CASE Raise(p) BY <1>0, <1>1, FitRaise
<1>2. CASE ~Raise(p)
  <2>1. PICK C : C = Candidates(inputs.data) OBVIOUS
  <2>2. PICK S : S = SelectCandidateIds[C] OBVIOUS
  <2>3. PICK r : r = [Unread EXCEPT !.cohort = S, !.data = [d \in S |-> inputs.data[d]],
                                    !.matrix = BuildModelMatrix(inputs.probes)]
    OBVIOUS
  <2>4. CohortFound(C) /\ Goto(p, "views") /\ reads' = [reads EXCEPT ![p] = r]
    BY <1>2, <2>1, <2>2, <2>3 DEF SelectCohort
  <2>5. r.cohort = S BY <2>3 DEF Unread
  <2>6. C \subseteq Registry BY <2>1 DEF Candidates
  <2>7. S \in Cohorts(C) BY <2>2, <2>4, <2>6, SelectionIsCohort DEF CohortFound
  <2>8. GoodCohort(S)
    BY <2>2, <2>4, <2>7, ScoresOf DEF Cohorts, CohortFound, GoodCohort
  <2>9. Fit("views", r) BY <2>5, <2>8 DEF Fit
  <2>10. reads'[p] = r /\ \A q \in Planners \ {p} : reads'[q] = reads[q] BY <2>4, Mover
  <2> QED BY <1>0, <2>4, <2>9, <2>10, FitStays
<1> QED BY <1>1, <1>2

LEMMA FitCollect == ASSUME IInv, CInv, NEW p \in Planners, CollectViews(p) PROVE CInv'
<1>0. UNCHANGED inputs BY DEF CollectViews
<1>1. CASE Raise(p) BY <1>0, <1>1, FitRaise
<1>2. CASE ~Raise(p)
  <2>1. PICK w : w = CollectViewApplicability(reads[p].cohort, inputs.views) OBVIOUS
  <2>2. step[p] = "views" /\ Goto(p, "sources") /\ reads' = [reads EXCEPT ![p].views = w]
    BY <1>2, <2>1 DEF CollectViews, Keep
  <2>3. PICK r : r = [reads[p] EXCEPT !.views = w] OBVIOUS
  <2>4. reads' = [reads EXCEPT ![p] = r] BY <2>2, <2>3
  <2>5. reads[p] = [cohort |-> reads[p].cohort, data |-> reads[p].data,
                    matrix |-> reads[p].matrix, views |-> reads[p].views,
                    sources |-> reads[p].sources, runtime |-> reads[p].runtime,
                    probes |-> reads[p].probes]
    BY Mover DEF ReadRecord
  <2>6. r.cohort = reads[p].cohort /\ r.views = w BY <2>3, <2>5
  <2>7. GoodCohort(reads[p].cohort) BY <2>2 DEF CInv, Fit, Selected
  <2>8. PICK a \in Applicabilities : a = inputs.views.applicable BY DEF CInv, Sound
  <2>9. \A d \in Registry : a[d] \in SUBSET Views /\ Identity \in a[d] BY ProtocolAssumption
  <2>10. GoodViews(r.cohort, w)
    BY <2>1, <2>6, <2>7, <2>8, <2>9 DEF GoodViews, GoodCohort, CollectViewApplicability
  <2>11. Fit("sources", r) BY <2>6, <2>7, <2>10 DEF Fit
  <2>12. reads'[p] = r /\ \A q \in Planners \ {p} : reads'[q] = reads[q] BY <2>4, Mover
  <2> QED BY <1>0, <2>2, <2>11, <2>12, FitStays
<1> QED BY <1>1, <1>2

LEMMA FitHashes == ASSUME IInv, CInv, NEW p \in Planners, AllSourceHashes(p) PROVE CInv'
<1>1. PICK w : w = SourceHashes(inputs, reads[p].cohort) OBVIOUS
<1>2. /\ step[p] = "sources" /\ Goto(p, "estimate") /\ UNCHANGED inputs
      /\ reads' = [reads EXCEPT ![p].sources = w]
  BY <1>1 DEF AllSourceHashes, Keep
<1>3. PICK r : r = [reads[p] EXCEPT !.sources = w] OBVIOUS
<1>4. reads' = [reads EXCEPT ![p] = r] BY <1>2, <1>3
<1>5. reads[p] = [cohort |-> reads[p].cohort, data |-> reads[p].data,
                  matrix |-> reads[p].matrix, views |-> reads[p].views,
                  sources |-> reads[p].sources, runtime |-> reads[p].runtime,
                  probes |-> reads[p].probes]
  BY Mover DEF ReadRecord
<1>6. r.cohort = reads[p].cohort /\ r.views = reads[p].views BY <1>3, <1>5
<1>7. Fit("sources", reads[p]) BY <1>2 DEF CInv
<1>8. Fit("estimate", r) BY <1>6, <1>7 DEF Fit, Selected
<1>9. reads'[p] = r /\ \A q \in Planners \ {p} : reads'[q] = reads[q] BY <1>4, Mover
<1> QED BY <1>2, <1>8, <1>9, FitStays

\* What is complete passes the contracts, and no freezer is refused.
LEMMA FitFreeze == ASSUME IInv, CInv, NEW p \in Planners, Freeze(p) PROVE CInv'
<1>1. step[p] = "estimate" /\ UNCHANGED inputs BY DEF Freeze
<1>2. PICK r : r = Complete(p) OBVIOUS
<1>3. r.cohort = reads[p].cohort /\ r.views = reads[p].views BY <1>2, Completed
<1>4. GoodCohort(r.cohort) /\ GoodViews(r.cohort, r.views)
  BY <1>1, <1>3 DEF CInv, Fit, Selected
<1>5. PlanHolds(r) BY <1>4, ProtocolAgrees, InventoryAgrees DEF PlanHolds
<1>6. ScheduleHolds(Schedule(r)) BY <1>4, ScheduleAgrees
<1>7. Goto(p, "protocol") /\ reads' = [reads EXCEPT ![p] = r]
  BY <1>2, <1>5, <1>6 DEF Freeze
<1>8. "protocol" \notin Selected BY DEF Selected
<1> QED BY <1>1, <1>7, <1>8, FitLeaves

LEMMA FitWrite == ASSUME IInv, CInv, NEW p \in Freezers, Write(p) PROVE CInv'
<1>1. p \in Planners /\ UNCHANGED inputs BY DEF Planners, Write
<1>2. \/ Goto(p, "inventory") /\ UNCHANGED reads
      \/ Goto(p, "schedule") /\ UNCHANGED reads
      \/ Goto(p, "done") /\ reads' = [reads EXCEPT ![p] = Unread]
  BY DEF Write
<1>3. {"inventory", "schedule", "done"} \cap Selected = {} BY DEF Selected
<1> QED BY <1>1, <1>2, <1>3, FitLeaves

LEMMA FitReview == ASSUME IInv, CInv, NEW p \in Planners, ValidateAcceptedSmoke(p) PROVE CInv'
<1>1. UNCHANGED inputs BY DEF ValidateAcceptedSmoke
<1>2. Raise(p) \/ (Goto(p, "datasets") /\ UNCHANGED reads) BY DEF ValidateAcceptedSmoke
<1> QED BY <1>1, <1>2, FitLeaves, FitRaise DEF Selected

LEMMA FitValidate == ASSUME IInv, CInv, NEW v \in Validators, Validate(v) PROVE CInv'
<1>0. v \in Planners BY DEF Planners
<1>1. UNCHANGED inputs
  BY DEF Validate, LoadProtocol, LoadInventory, LoadSchedule, Snapshot, Rebuild, LateGates,
         Conclude, Report
<1>2. \/ Raise(v)
      \/ \E s \in {"pair", "stages", "before", "review", "gates", "after", "report", "done"} :
           Goto(v, s) /\ (UNCHANGED reads \/ reads' = [reads EXCEPT ![v] = Unread])
  <2>1. CASE LoadProtocol(v) BY <2>1 DEF LoadProtocol
  <2>2. CASE LoadInventory(v) BY <2>2 DEF LoadInventory
  <2>3. CASE LoadSchedule(v) BY <2>3 DEF LoadSchedule
  <2>4. CASE Snapshot(v) BY <2>4 DEF Snapshot
  <2>5. CASE Rebuild(v) BY <2>5 DEF Rebuild
  <2>6. CASE LateGates(v) BY <2>6 DEF LateGates
  <2>7. CASE Conclude(v) BY <2>7 DEF Conclude
  <2>8. CASE Report(v) BY <2>8 DEF Report
  <2> QED BY <2>1, <2>2, <2>3, <2>4, <2>5, <2>6, <2>7, <2>8 DEF Validate
<1>3. CASE Raise(v) BY <1>0, <1>1, <1>3, FitRaise
<1>4. CASE ~Raise(v)
  <2>1. PICK s \in {"pair", "stages", "before", "review", "gates", "after", "report", "done"} :
          Goto(v, s) /\ (UNCHANGED reads \/ reads' = [reads EXCEPT ![v] = Unread])
    BY <1>2, <1>4
  <2>2. s \notin Selected /\ s # "refused" BY DEF Selected
  <2> QED BY <1>0, <1>1, <2>1, <2>2, FitLeaves
<1> QED BY <1>3, <1>4

LEMMA FitNext == ASSUME IInv, CInv, [Next]_vars PROVE CInv'
<1>1. CASE Produce BY <1>1, FitProduce
<1>2. ASSUME NEW p \in Planners, Plan(p)
      PROVE  CInv'
  BY <1>2, FitReview, FitSelect, FitCollect, FitHashes DEF Plan
<1>3. ASSUME NEW p \in Freezers, Freeze(p) \/ Write(p)
      PROVE  CInv'
  <2>1. p \in Planners BY DEF Planners
  <2> QED BY <1>3, <2>1, FitFreeze, FitWrite
<1>4. ASSUME NEW v \in Validators, Validate(v)
      PROVE  CInv'
  BY <1>4, FitValidate
<1>5. CASE UNCHANGED vars BY <1>5 DEF vars, CInv
<1> QED BY <1>1, <1>2, <1>3, <1>4, <1>5 DEF Next

LEMMA FitInit == ASSUME Init PROVE CInv
<1>1. Sound(inputs) BY DEF Init, Sound
<1>2. ASSUME NEW p \in Planners
      PROVE  Fit(step[p], reads[p])
  <2>1. step[p] \in {"review", "load"} BY DEF Init
  <2> QED BY <2>1, FitElsewhere DEF Selected
<1> QED BY <1>1, <1>2 DEF CInv

\* Whatever is replaced while a freezer reads, the documents it makes satisfy
\* the contracts, so that it never ends in their refusal (build_pilot_plan,
\* PilotProtocolArtifact, PilotConditionInventory, PilotStagedSchedule).
THEOREM NothingIsRefused == Spec => []ContractsAgree
<1>1. Init => CInv BY FitInit
<1>2. IInv /\ CInv /\ [Next]_vars => CInv' BY FitNext
<1>3. CInv => ContractsAgree BY DEF CInv, Fit, ContractsAgree
<1> QED BY <1>1, <1>2, <1>3, ReadsAreDated, PTL DEF Spec

-----------------------------------------------------------------------------
(* The stages of a schedule together are the whole plan.                      *)

\* The sums of the model that map a set are sums of a function.
SecondsOf(ms, runtime, probes) ==
  MapThenSumSet(LAMBDA m : BaseSeconds(m, runtime, probes), ms)

LEMMA WorkIsSum ==
  ASSUME NEW ms, IsFiniteSet(ms), NEW runtime, NEW probes
  PROVE  SecondsOf(ms, runtime, probes)
           = SumFunctionOnSet([m \in ms |-> BaseSeconds(m, runtime, probes)], ms)
<1> PICK f : f = [m \in ms |-> BaseSeconds(m, runtime, probes)] OBVIOUS
<1> DEFINE Of(g, s) == IF s = {} THEN 0
                       ELSE BaseSeconds(Pick(s), runtime, probes) + g[s \ {Pick(s)}]
           P(g) == g = [s \in SUBSET ms |-> Of(g, s)]
<1>1. PICK it : it = CHOOSE g : P(g) OBVIOUS
<1>2. SecondsOf(ms, runtime, probes) = it[ms]
  BY <1>1 DEF SecondsOf, MapThenSumSet, MapThenFoldSet, Pick
<1>3. ASSUME NEW g
      PROVE  P(g) <=> Sums(f, ms, g)
  <2>1. \A s \in SUBSET ms : Of(g, s) = Summed(f, g, s) BY Picked DEF Summed
  <2> HIDE DEF Of
  <2> QED BY <2>1 DEF Sums
<1>4. \E g : P(g) BY <1>3, SumsExist
<1>5. P(it)
  <2> HIDE DEF P
  <2> QED BY <1>1, <1>4
<1>6. Sums(f, ms, it) BY <1>3, <1>5
<1> QED BY <1>2, <1>6, SumIs

LEMMA WallIsSum ==
  ASSUME NEW S, IsFiniteSet(S)
  PROVE  TotalWall(S) = SumFunctionOnSet([s \in S |-> s.wall], S)
<1> PICK f : f = [s \in S |-> s.wall] OBVIOUS
<1> DEFINE Of(g, s) == IF s = {} THEN 0 ELSE Pick(s).wall + g[s \ {Pick(s)}]
           P(g) == g = [s \in SUBSET S |-> Of(g, s)]
<1>1. PICK it : it = CHOOSE g : P(g) OBVIOUS
<1>2. TotalWall(S) = it[S]
  BY <1>1 DEF TotalWall, MapThenSumSet, MapThenFoldSet, Pick
<1>3. ASSUME NEW g
      PROVE  P(g) <=> Sums(f, S, g)
  <2>1. \A s \in SUBSET S : Of(g, s) = Summed(f, g, s) BY Picked DEF Summed
  <2> HIDE DEF Of
  <2> QED BY <2>1 DEF Sums
<1>4. \E g : P(g) BY <1>3, SumsExist
<1>5. P(it)
  <2> HIDE DEF P
  <2> QED BY <1>1, <1>4
<1>6. Sums(f, S, it) BY <1>3, <1>5
<1> QED BY <1>2, <1>6, SumIs

LEMMA MaxAdds ==
  ASSUME NEW a \in Nat, NEW b \in Nat, NEW c \in Nat, NEW d \in Nat,
         NEW w \in Nat, NEW f \in Nat
  PROVE  MaxOf(a + b, w * (c + d)) * f <= MaxOf(a, w * c) * f + MaxOf(b, w * d) * f
<1>1. w * (c + d) = w * c + w * d /\ w * c \in Nat /\ w * d \in Nat OBVIOUS
<1>2. PICK x, y, z : x = MaxOf(a, w * c) /\ y = MaxOf(b, w * d) /\ z = MaxOf(a + b, w * (c + d))
  OBVIOUS
<1>3. x \in Nat /\ y \in Nat /\ z \in Nat /\ z <= x + y
  <2>1. \A p, q \in Nat : MaxOf(p, q) \in Nat /\ p <= MaxOf(p, q) /\ q <= MaxOf(p, q)
    BY DEF MaxOf
  <2>2. PICK u, v : u = w * c /\ v = w * d OBVIOUS
  <2>3. z = a + b \/ z = u + v BY <1>1, <1>2, <2>2 DEF MaxOf
  <2>4. /\ x \in Nat /\ a <= x /\ u <= x
        /\ y \in Nat /\ b <= y /\ v <= y
    BY <1>1, <1>2, <2>1, <2>2
  <2>5. u \in Nat /\ v \in Nat BY <1>1, <2>2
  <2> QED BY <2>3, <2>4, <2>5
<1>4. z * f <= (x + y) * f
  <2>1. \A p, q \in Nat : p <= q => p * f <= q * f OBVIOUS
  <2> QED BY <1>3, <2>1
<1>5. (x + y) * f = x * f + y * f BY <1>3
<1> QED BY <1>2, <1>4, <1>5

LEMMA ModelsFinite ==
  ASSUME NEW ms \in SUBSET Models, NEW runtime, NEW probes,
         runtime.unit \in Nat, probes.unit \in Nat
  PROVE  SecondsOf(ms, runtime, probes) \in Nat
<1>1. IsFiniteSet(ms) BY PlanAssumption, FS_Subset
<1>2. \A m \in ms : BaseSeconds(m, runtime, probes) \in Nat
  <2> TAKE m \in ms
  <2>1. Seconds[m] \in Nat BY PlanAssumption
  <2>2. MaxOf(runtime.unit, probes.unit) \in Nat BY DEF MaxOf
  <2>3. \A x, y \in Nat : x * y \in Nat OBVIOUS
  <2> QED BY <2>1, <2>2, <2>3 DEF BaseSeconds
<1>3. PICK f : f = [m \in ms |-> BaseSeconds(m, runtime, probes)] OBVIOUS
<1>4. \A m \in ms : f[m] \in Nat BY <1>2, <1>3
<1>5. SumFunctionOnSet(f, ms) \in Nat BY <1>1, <1>4, SumNatural
<1> QED BY <1>1, <1>3, <1>5, WorkIsSum

\* The estimate of each dataset is a number, and that of the whole their sum.
LEMMA EstimateIs ==
  ASSUME NEW r, GoodCohort(r.cohort), GoodViews(r.cohort, r.views),
         r.runtime.unit \in Nat, r.probes.unit \in Nat
  PROVE  LET e == Protocol(r).estimate IN
         /\ \A d \in r.cohort : e.cpu[d] \in Nat /\ e.gpu[d] \in Nat
         /\ e.wall = Wall(SumFunctionOnSet(e.cpu, r.cohort), SumFunctionOnSet(e.gpu, r.cohort))
<1> DEFINE E == RuntimeEstimate(r.cohort, r.views, r.runtime, r.probes)
<1>1. PICK e : e = Protocol(r).estimate OBVIOUS
<1>2. e = E BY <1>1 DEF Protocol
<1>3. /\ e.cpu = [d \in r.cohort |-> Work(d, r.views, Models \ OnGpu, r.runtime, r.probes)]
      /\ e.gpu = [d \in r.cohort |-> Work(d, r.views, OnGpu, r.runtime, r.probes)]
      /\ e.wall = Wall(SumFunction(e.cpu), SumFunction(e.gpu))
  BY <1>2 DEF RuntimeEstimate
<1>4. ASSUME NEW d \in r.cohort, NEW ms \in SUBSET Models
      PROVE  Work(d, r.views, ms, r.runtime, r.probes) \in Nat
  <2>1. PICK n : n = SecondsOf(ms, r.runtime, r.probes) OBVIOUS
  <2>2. n \in Nat BY <2>1, ModelsFinite
  <2>3. IsFiniteSet(r.views[d].applicable) BY PlanAssumption, FS_Subset DEF GoodViews
  <2>4. PICK c, w : c = Cardinality(r.views[d].applicable) /\ w = Weight[d] OBVIOUS
  <2>5. c \in Nat /\ w \in Nat BY <2>3, <2>4, PlanAssumption, FS_CardinalityType DEF GoodCohort
  <2>6. c * w * n \in Nat BY <2>2, <2>5
  <2> QED BY <2>1, <2>4, <2>6 DEF Work, SecondsOf
<1>5. OnGpu \in SUBSET Models /\ Models \ OnGpu \in SUBSET Models BY PlanAssumption
<1>6. \A d \in r.cohort : e.cpu[d] \in Nat /\ e.gpu[d] \in Nat BY <1>3, <1>4, <1>5
<1>7. DOMAIN e.cpu = r.cohort /\ DOMAIN e.gpu = r.cohort BY <1>3
<1>8. e.wall = Wall(SumFunctionOnSet(e.cpu, r.cohort), SumFunctionOnSet(e.gpu, r.cohort))
  BY <1>3, <1>7 DEF SumFunction
<1> QED BY <1>1, <1>6, <1>8

\* The datasets and the stages of the groups below n.
Until(S, n) == {d \in S : Rank(S)[d] \div StageSize < n}
StagesUntil(S, P, I, n) == {Stage(Group(S, i), P, I) : i \in 0 .. n - 1}

LEMMA RanksDivide ==
  ASSUME NEW S, IsFiniteSet(S), S \subseteq Nat, NEW d \in S
  PROVE  Rank(S)[d] \div StageSize \in Nat
<1>1. PICK a, k : a = Rank(S)[d] /\ k = StageSize OBVIOUS
<1>2. Rank(S) \in Bijection(S, 0 .. Cardinality(S) - 1) /\ Cardinality(S) \in Nat BY RankOrders
<1>3. a \in Nat BY <1>1, <1>2 DEF Bijection, Injection
<1>4. k \in Nat \ {0} BY <1>1, StagesDivide
<1>5. PICK q : q = a \div k OBVIOUS
<1>6. q \in Nat BY <1>3, <1>4, <1>5, Division
<1> QED BY <1>1, <1>5, <1>6

LEMMA UntilGrows ==
  ASSUME NEW S, IsFiniteSet(S), S \subseteq Nat, Cardinality(S) = CohortSize
  PROVE  /\ Until(S, 0) = {} /\ Until(S, Stages) = S
         /\ \A n \in Nat : /\ Until(S, n + 1) = Until(S, n) \cup Group(S, n)
                           /\ Until(S, n) \cap Group(S, n) = {}
<1>1. \A d \in S : Rank(S)[d] \div StageSize \in Nat BY RanksDivide
<1>2. Until(S, 0) = {}
  <2>1. \A x \in Nat : ~(x < 0) OBVIOUS
  <2>2. \A d \in S : ~(Rank(S)[d] \div StageSize < 0) BY <1>1, <2>1
  <2> QED BY <2>2 DEF Until
<1>3. Until(S, Stages) = S
  <2>1. \A d \in S : \E i \in 0 .. Stages - 1 : d \in Group(S, i) BY GroupsCover
  <2>2. \A d \in S : Rank(S)[d] \div StageSize < Stages BY <2>1, StagesDivide DEF Group
  <2> QED BY <2>2 DEF Until
<1>4. ASSUME NEW n \in Nat
      PROVE  /\ Until(S, n + 1) = Until(S, n) \cup Group(S, n)
             /\ Until(S, n) \cap Group(S, n) = {}
  <2>1. \A x \in Nat : x < n + 1 <=> x < n \/ x = n OBVIOUS
  <2>2. \A x \in Nat : ~(x < n /\ x = n) OBVIOUS
  <2>3. \A d \in S : d \in Until(S, n + 1) <=> d \in Until(S, n) \/ d \in Group(S, n)
    BY <1>1, <2>1 DEF Until, Group
  <2>4. Until(S, n + 1) \subseteq S /\ Until(S, n) \subseteq S /\ Group(S, n) \subseteq S
    BY DEF Until, Group
  <2>5. \A d \in S : ~(d \in Until(S, n) /\ d \in Group(S, n)) BY <1>1, <2>2 DEF Until, Group
  <2> QED BY <2>3, <2>4, <2>5
<1> QED BY <1>2, <1>3, <1>4

LEMMA StagesDiffer ==
  ASSUME NEW S, IsFiniteSet(S), S \subseteq Nat, Cardinality(S) = CohortSize,
         NEW P, NEW I, NEW i \in 0 .. Stages - 1, NEW j \in 0 .. Stages - 1, i # j
  PROVE  Stage(Group(S, i), P, I) # Stage(Group(S, j), P, I)
<1>1. Group(S, i) # {} BY GroupOrders
<1>2. \A d \in Group(S, i) : d \notin Group(S, j) BY DEF Group
<1>3. Group(S, i) # Group(S, j) BY <1>1, <1>2
<1>4. \A g : Stage(g, P, I).datasets = g BY DEF Stage
<1> QED BY <1>3, <1>4

LEMMA StagesGrow ==
  ASSUME NEW S, IsFiniteSet(S), S \subseteq Nat, Cardinality(S) = CohortSize,
         NEW P, NEW I, NEW n \in 0 .. Stages - 1
  PROVE  /\ StagesUntil(S, P, I, n + 1) = StagesUntil(S, P, I, n) \cup {Stage(Group(S, n), P, I)}
         /\ Stage(Group(S, n), P, I) \notin StagesUntil(S, P, I, n)
         /\ IsFiniteSet(StagesUntil(S, P, I, n + 1)) /\ IsFiniteSet(StagesUntil(S, P, I, n))
<1>1. n \in Nat /\ Stages \in Nat BY StagesDivide
<1>2. \A i : i \in 0 .. (n + 1) - 1 <=> i \in 0 .. n - 1 \/ i = n BY <1>1
<1>3. StagesUntil(S, P, I, n + 1) = StagesUntil(S, P, I, n) \cup {Stage(Group(S, n), P, I)}
  BY <1>2 DEF StagesUntil
<1>4. ASSUME NEW i \in 0 .. n - 1
      PROVE  Stage(Group(S, n), P, I) # Stage(Group(S, i), P, I)
  <2>1. i \in 0 .. Stages - 1 /\ i # n BY <1>1
  <2> QED BY <2>1, StagesDiffer
<1>5. \A m \in Nat : IsFiniteSet(StagesUntil(S, P, I, m))
  <2> TAKE m \in Nat
  <2>1. IsFiniteSet(0 .. m - 1)
    <3>1. m - 1 \in Int OBVIOUS
    <3> QED BY <3>1, FS_Interval
  <2>2. PICK f : f = [i \in 0 .. m - 1 |-> Stage(Group(S, i), P, I)] OBVIOUS
  <2>3. PICK T : T = StagesUntil(S, P, I, m) OBVIOUS
  <2>4. T = {f[i] : i \in 0 .. m - 1} BY <2>2, <2>3 DEF StagesUntil
  <2>5. IsFiniteSet(T)
    <3>1. PICK A : A = 0 .. m - 1 OBVIOUS
    <3>2. IsFiniteSet(A) /\ DOMAIN f = A /\ T = {f[i] : i \in A} BY <2>1, <2>2, <2>4, <3>1
    <3> QED BY <3>2, ImageFinite
  <2> QED BY <2>3, <2>5
<1>6. Stage(Group(S, n), P, I) \notin StagesUntil(S, P, I, n) BY <1>4 DEF StagesUntil
<1>7. n + 1 \in Nat BY <1>1
<1> QED BY <1>1, <1>3, <1>5, <1>6, <1>7

\* One stage more adds its wall time.
LEMMA WallAdds ==
  ASSUME NEW T, IsFiniteSet(T), NEW U, NEW x, x \notin T, U = T \cup {x},
         \A s \in U : s.wall \in Nat
  PROVE  TotalWall(U) = TotalWall(T) + x.wall /\ TotalWall(T) \in Nat
<1>1. IsFiniteSet(U) BY FS_AddElement
<1>2. PICK f : f = [s \in U |-> s.wall] OBVIOUS
<1>3. PICK e : e = [s \in T |-> s.wall] OBVIOUS
<1>4. TotalWall(U) = SumFunctionOnSet(f, U) /\ TotalWall(T) = SumFunctionOnSet(e, T)
  BY <1>1, <1>2, <1>3, WallIsSum
<1>5. x \in U /\ T = U \ {x} /\ f[x] = x.wall BY <1>2
<1>6. SumFunctionOnSet(f, U) = f[x] + SumFunctionOnSet(f, T)
  <2>1. \A s \in U : f[s] \in Int BY <1>2
  <2>2. SumFunctionOnSet(f, U) = f[x] + SumFunctionOnSet(f, U \ {x})
    BY <1>1, <1>5, <2>1, SumSteps
  <2>3. PICK R : R = U \ {x} OBVIOUS
  <2>4. R = T BY <1>5, <2>3
  <2> QED BY <2>2, <2>3, <2>4
<1>7. SumFunctionOnSet(f, T) = SumFunctionOnSet(e, T)
  <2>1. \A s \in T : e[s] = f[s] BY <1>2, <1>3
  <2> QED BY <2>1, SumSame
<1>8. SumFunctionOnSet(e, T) \in Nat
  <2>1. \A s \in T : e[s] \in Nat BY <1>3
  <2> QED BY <2>1, SumNatural
<1>9. x.wall \in Nat BY <1>5
<1> QED BY <1>4, <1>5, <1>6, <1>7, <1>8, <1>9

\* The stages together take no less time than what their datasets take at once.
LEMMA StagesTakeNoLess ==
  ASSUME NEW r, GoodCohort(r.cohort), GoodViews(r.cohort, r.views),
         r.runtime.unit \in Nat, r.probes.unit \in Nat
  PROVE  Schedule(r).wall >= Protocol(r).estimate.wall
<1> PICK P : P = Protocol(r) OBVIOUS
<1> PICK I : I = Inventory(P) OBVIOUS
<1> PICK S : S = r.cohort OBVIOUS
<1> PICK e : e = P.estimate OBVIOUS
<1> PICK c, g : c = e.cpu /\ g = e.gpu OBVIOUS
<1> PICK w, f, z : w = Workers /\ f = Safety /\ z = Workers * Coordination OBVIOUS
<1>1. /\ IsFiniteSet(S) /\ S \subseteq Nat /\ Cardinality(S) = CohortSize
      /\ CohortSize \in Nat \ {0}
  BY CohortFinite DEF GoodCohort
<1>2. /\ \A d \in S : c[d] \in Nat /\ g[d] \in Nat
      /\ e.wall = Wall(SumFunctionOnSet(c, S), SumFunctionOnSet(g, S))
  BY EstimateIs
<1>3. w \in Nat \ {0} /\ f \in Nat \ {0} /\ z \in Nat
  BY PlanAssumption
<1> DEFINE Cpu(D) == SumFunctionOnSet(c, D)
           Gpu(D) == SumFunctionOnSet(g, D)
           Busy(D) == MaxOf(Cpu(D), w * Gpu(D)) * f
<1>4. ASSUME NEW D \in SUBSET S
      PROVE  /\ Cpu(D) \in Nat /\ Gpu(D) \in Nat /\ Busy(D) \in Nat
             /\ Wall(Cpu(D), Gpu(D)) = Busy(D) + z
  <2>1. IsFiniteSet(D) /\ \A d \in D : c[d] \in Nat /\ g[d] \in Nat BY <1>1, <1>2, FS_Subset
  <2>2. Cpu(D) \in Nat /\ Gpu(D) \in Nat BY <2>1, SumNatural
  <2>3. \A x, y \in Nat : MaxOf(x, y) \in Nat /\ x * y \in Nat BY DEF MaxOf
  <2>4. Wall(Cpu(D), Gpu(D)) = Busy(D) + z BY DEF Wall
  <2> HIDE DEF Cpu, Gpu
  <2>5. Busy(D) \in Nat BY <1>3, <2>2, <2>3
  <2> QED BY <2>2, <2>4, <2>5
<1>5. ASSUME NEW D \in SUBSET S, NEW E \in SUBSET S, D \cap E = {}
      PROVE  Busy(D \cup E) <= Busy(D) + Busy(E)
  <2>1. (\A d \in S : c[d] \in Int) /\ (\A d \in S : g[d] \in Int) BY <1>2
  <2>2. Cpu(D \cup E) = Cpu(D) + Cpu(E) /\ Gpu(D \cup E) = Gpu(D) + Gpu(E)
    BY <1>1, <1>5, <2>1, SumDisjoint
  <2>3. Cpu(D) \in Nat /\ Cpu(E) \in Nat /\ Gpu(D) \in Nat /\ Gpu(E) \in Nat BY <1>4
  <2> HIDE DEF Cpu, Gpu
  <2> QED BY <1>3, <2>2, <2>3, MaxAdds
<1> DEFINE Total(n) == TotalWall(StagesUntil(S, P, I, n))
           K == {n \in Nat : n <= Stages =>
                   Total(n) \in Nat /\ Total(n) >= Busy(Until(S, n)) + n * z}
<1>6. Stages \in Nat \ {0}
  <2>1. PICK k, q : k = StageSize /\ q = Stages OBVIOUS
  <2>2. k \in Nat \ {0} /\ q \in Nat /\ k * q # 0 BY <1>1, <2>1, StagesDivide
  <2>3. q # 0 BY <2>2
  <2> QED BY <2>1, <2>2, <2>3
<1>7. 0 \in K
  <2>1. StagesUntil(S, P, I, 0) = {}
    <3>1. 0 .. 0 - 1 = {} OBVIOUS
    <3> QED BY <3>1 DEF StagesUntil
  <2>2. Total(0) = 0
    <3>1. IsFiniteSet({}) BY FS_EmptySet
    <3>2. PICK q : q = [s \in {} |-> s.wall] OBVIOUS
    <3>3. TotalWall({}) = SumFunctionOnSet(q, {}) BY <3>1, <3>2, WallIsSum
    <3>4. SumFunctionOnSet(q, {}) = 0
      <4>1. \A x \in {} : q[x] \in Int OBVIOUS
      <4> QED BY <3>1, <4>1, SumSteps
    <3> QED BY <2>1, <3>3, <3>4
  <2>3. Busy(Until(S, 0)) = 0
    <3>1. Until(S, 0) = {} BY <1>1, UntilGrows
    <3>2. Cpu({}) = 0 /\ Gpu({}) = 0 BY <1>1, <1>2, SumSteps
    <3>3. MaxOf(0, w * 0) * f = 0
      <4>1. w * 0 = 0 BY <1>3
      <4>2. MaxOf(0, w * 0) = 0 BY <4>1 DEF MaxOf
      <4>3. 0 * f = 0 BY <1>3
      <4> QED BY <4>2, <4>3
    <3>4. Busy({}) = 0 BY <3>2, <3>3
    <3> HIDE DEF Busy
    <3> QED BY <3>1, <3>4
  <2>4. 0 * z = 0 BY <1>3
  <2> HIDE DEF Total, Busy
  <2> QED BY <2>2, <2>3, <2>4
<1>8. ASSUME NEW n \in Nat, n \in K
      PROVE  n + 1 \in K
  <2> SUFFICES ASSUME n + 1 <= Stages
               PROVE  /\ Total(n + 1) \in Nat
                      /\ Total(n + 1) >= Busy(Until(S, n + 1)) + (n + 1) * z
    OBVIOUS
  <2>1. n \in 0 .. Stages - 1 /\ n <= Stages BY <1>6
  <2>2. PICK G, D : G = Group(S, n) /\ D = Until(S, n) OBVIOUS
  <2>3. /\ G \in SUBSET S /\ D \in SUBSET S /\ D \cap G = {}
        /\ Until(S, n + 1) = D \cup G
    BY <1>1, <2>2, UntilGrows DEF Until, Group
  <2>4. \A h \in SUBSET S : Stage(h, P, I).wall = Busy(h) + z
    BY <1>4 DEF Stage
  <2>5. \A s \in StagesUntil(S, P, I, n + 1) : s.wall \in Nat
    <3> TAKE s \in StagesUntil(S, P, I, n + 1)
    <3>1. PICK i : s = Stage(Group(S, i), P, I) BY DEF StagesUntil
    <3>2. Group(S, i) \in SUBSET S BY DEF Group
    <3>3. Busy(Group(S, i)) \in Nat BY <1>4, <3>2
    <3> HIDE DEF Busy
    <3> QED BY <1>3, <2>4, <3>1, <3>2, <3>3
  <2>6. PICK T, U, x : /\ T = StagesUntil(S, P, I, n) /\ U = StagesUntil(S, P, I, n + 1)
                       /\ x = Stage(G, P, I)
    OBVIOUS
  <2>7. U = T \cup {x} /\ x \notin T /\ IsFiniteSet(T) BY <1>1, <2>1, <2>2, <2>6, StagesGrow
  <2>8. TotalWall(U) = TotalWall(T) + x.wall /\ TotalWall(T) \in Nat
    BY <2>5, <2>6, <2>7, WallAdds
  <2>9. TotalWall(T) >= Busy(D) + n * z BY <1>8, <2>1, <2>2, <2>6
  <2>10. x.wall = Busy(G) + z BY <2>3, <2>4, <2>6
  <2>11. Busy(D \cup G) <= Busy(D) + Busy(G) BY <1>5, <2>3
  <2>12. Busy(D) \in Nat /\ Busy(G) \in Nat /\ Busy(D \cup G) \in Nat
    <3>1. D \cup G \in SUBSET S BY <2>3
    <3> QED BY <1>4, <2>3, <3>1
  <2>13. (n + 1) * z = n * z + z /\ n * z \in Nat BY <1>3
  <2>14. Total(n + 1) = TotalWall(T) + x.wall BY <2>6, <2>8
  <2>15. Busy(Until(S, n + 1)) = Busy(D \cup G)
    <3>1. PICK V : V = Until(S, n + 1) OBVIOUS
    <3>2. PICK Y : Y = D \cup G OBVIOUS
    <3>3. V = Y BY <2>3, <3>1, <3>2
    <3> HIDE DEF Busy
    <3> QED BY <3>1, <3>2, <3>3
  <2> HIDE DEF Busy, Total
  <2>16. PICK a, b, t, m : a = Busy(D) /\ b = Busy(G) /\ t = TotalWall(T) /\ m = n * z OBVIOUS
  <2>17. a \in Nat /\ b \in Nat /\ t \in Nat /\ m \in Nat BY <2>8, <2>12, <2>13, <2>16
  <2>18. Total(n + 1) = t + (b + z) BY <2>10, <2>14, <2>16
  <2>19. t >= a + m BY <2>9, <2>16
  <2>20. PICK y : y = Busy(Until(S, n + 1)) OBVIOUS
  <2>21. y \in Nat /\ y <= a + b BY <2>11, <2>12, <2>15, <2>16, <2>20
  <2>22. (n + 1) * z = m + z BY <2>13, <2>16
  <2>23. t + (b + z) >= y + (m + z) /\ t + (b + z) \in Nat BY <1>3, <2>17, <2>19, <2>21
  <2> QED BY <2>18, <2>20, <2>22, <2>23
<1>9. \A n \in Nat : n \in K
  <2> HIDE DEF K
  <2> QED BY <1>7, <1>8, NumberInduction
<1>10. Total(Stages) \in Nat /\ Total(Stages) >= Busy(S) + Stages * z
  <2>1. Stages \in Nat /\ Stages <= Stages BY <1>6
  <2>2. Until(S, Stages) = S BY <1>1, UntilGrows
  <2>3. /\ Total(Stages) \in Nat
        /\ Total(Stages) >= Busy(Until(S, Stages)) + Stages * z
    BY <1>9, <2>1
  <2>4. PICK V : V = Until(S, Stages) OBVIOUS
  <2>5. V = S BY <2>2, <2>4
  <2> HIDE DEF Total, Busy
  <2> QED BY <2>3, <2>4, <2>5
<1>11. Schedule(r).wall = Total(Stages)
  <2>1. P.selected = SelectedDatasets(S, r.data) BY DEF Protocol
  <2>2. Ids(P.selected) = S BY <1>1, <2>1, SelectedAgree
  <2>3. StageGroups(S) = {Group(S, i) : i \in 0 .. Stages - 1} BY <1>1, GroupsAre
  <2>4. {Stage(h, P, I) : h \in StageGroups(S)} = StagesUntil(S, P, I, Stages)
    BY <2>3 DEF StagesUntil
  <2>5. Schedule(r).wall = TotalWall({Stage(h, P, I) : h \in StageGroups(S)})
    BY <2>2 DEF Schedule, BuildStagedSchedule
  <2>6. PICK V : V = {Stage(h, P, I) : h \in StageGroups(S)} OBVIOUS
  <2>7. V = StagesUntil(S, P, I, Stages) BY <2>4, <2>6
  <2> QED BY <2>5, <2>6, <2>7
<1>12. e.wall = Busy(S) + z /\ Busy(S) \in Nat
  <2>1. S \in SUBSET S OBVIOUS
  <2> QED BY <1>2, <1>4, <2>1
<1>13. Stages * z >= z
  <2>1. PICK q : q = Stages OBVIOUS
  <2>2. q \in Nat /\ q >= 1 BY <1>6, <2>1
  <2>3. \A x, y \in Nat : x <= y => x * z <= y * z BY <1>3
  <2>4. 1 * z <= q * z BY <2>2, <2>3
  <2>5. 1 * z = z BY <1>3
  <2>6. q * z \in Nat BY <1>3, <2>2
  <2> QED BY <1>3, <2>1, <2>4, <2>5, <2>6
<1> HIDE DEF Total, Busy
<1>14. PICK y, t : y = Stages * z /\ t = Total(Stages) OBVIOUS
<1>15. y \in Nat BY <1>3, <1>6, <1>14
<1>16. PICK a : a = Busy(S) OBVIOUS
<1>17. t >= a + z BY <1>3, <1>10, <1>12, <1>13, <1>14, <1>15, <1>16
<1>18. Schedule(r).wall >= e.wall BY <1>11, <1>12, <1>14, <1>16, <1>17
<1> QED BY <1>18

\* Every condition of the inventory is in the stage of its dataset and in no other.
LEMMA StagesHoldOnce ==
  ASSUME NEW r, GoodCohort(r.cohort),
         NEW c \in Inventory(Protocol(r)).records
  PROVE  Cardinality({a \in Schedule(r).stages : c \in a.conditions}) = 1
<1> PICK P : P = Protocol(r) OBVIOUS
<1> PICK I : I = Inventory(P) OBVIOUS
<1> PICK S : S = r.cohort OBVIOUS
<1>1. P.selected = SelectedDatasets(S, r.data) BY DEF Protocol
<1>2. /\ IsFiniteSet(S) /\ S \subseteq Nat /\ Cardinality(S) = CohortSize
      /\ Ids(P.selected) = S
  BY <1>1, CohortFinite, SelectedAgree DEF GoodCohort
<1>3. StageGroups(S) = {Group(S, i) : i \in 0 .. Stages - 1} BY <1>2, GroupsAre
<1>4. Schedule(r).stages = {Stage(g, P, I) : g \in StageGroups(S)}
  BY <1>2 DEF Schedule, BuildStagedSchedule
<1>5. c \in I.records /\ c[1] \in S BY <1>2 DEF Inventory, PlannedCondition
<1>6. PICK i \in 0 .. Stages - 1 : c[1] \in Group(S, i) BY <1>2, <1>5, GroupsCover
<1>7. PICK x : x = Stage(Group(S, i), P, I) OBVIOUS
<1>8. \A g : c \in Stage(g, P, I).conditions <=> c[1] \in g BY <1>5 DEF Stage
<1>9. x \in Schedule(r).stages /\ c \in x.conditions BY <1>3, <1>4, <1>6, <1>7, <1>8
<1>10. ASSUME NEW a \in Schedule(r).stages, c \in a.conditions
       PROVE  a = x
  <2>1. PICK j \in 0 .. Stages - 1 : a = Stage(Group(S, j), P, I) BY <1>3, <1>4
  <2>2. c[1] \in Group(S, j) BY <1>8, <1>10, <2>1
  <2>3. i = j BY <1>6, <2>2 DEF Group
  <2> QED BY <1>7, <2>1, <2>3
<1>11. PICK A : A = {a \in Schedule(r).stages : c \in a.conditions} OBVIOUS
<1>12. A = {x} BY <1>9, <1>10, <1>11
<1>13. Cardinality(A) = 1 BY <1>12, FS_Singleton
<1> QED BY <1>11, <1>13

\* Only a freezer whose plan holds goes on to write.
LEMMA OnlyFreeze ==
  ASSUME IInv, NEW p \in Freezers, step[p] = "estimate", step'[p] = "protocol", [Next]_vars
  PROVE  Freeze(p)
<1>1. p \in Planners /\ p \notin Validators BY ProtocolAssumption DEF Planners
<1>2. DOMAIN step = Planners BY <1>1, Mover
<1>3. ASSUME NEW q \in Planners, q # p, NEW s, Goto(q, s)
      PROVE  FALSE
  <2>1. step'[p] = step[p] BY <1>1, <1>2, <1>3 DEF Goto
  <2> QED BY <2>1
<1>4. CASE Produce
  <2>1. step' = step BY <1>4 DEF Produce, Reprocess, ReviewSmoke, Certify, TimeSmoke, Probe, Replace
  <2> QED BY <2>1
<1>5. ASSUME NEW q \in Planners, Plan(q)
      PROVE  FALSE
  <2>1. \E s : Goto(q, s)
    BY <1>5 DEF Plan, ValidateAcceptedSmoke, SelectCohort, CollectViews, AllSourceHashes, Raise
  <2>2. q = p BY <1>3, <2>1
  <2>3. step[q] \in {"review", "datasets", "views", "sources"}
    BY <1>5 DEF Plan, ValidateAcceptedSmoke, SelectCohort, CollectViews, AllSourceHashes
  <2> QED BY <2>2, <2>3
<1>6. ASSUME NEW q \in Freezers, Freeze(q)
      PROVE  Freeze(p)
  <2>1. q \in Planners BY DEF Planners
  <2>2. \E s : Goto(q, s) BY <1>6 DEF Freeze
  <2> QED BY <1>3, <1>6, <2>1, <2>2
<1>7. ASSUME NEW q \in Freezers, Write(q)
      PROVE  FALSE
  <2>1. q \in Planners BY DEF Planners
  <2>2. \E s : Goto(q, s) BY <1>7 DEF Write
  <2>3. q = p BY <1>3, <2>1, <2>2
  <2>4. step[q] # "estimate" BY <1>7 DEF Write
  <2> QED BY <2>3, <2>4
<1>8. ASSUME NEW v \in Validators, Validate(v)
      PROVE  FALSE
  <2>1. v \in Planners /\ v # p BY <1>1 DEF Planners
  <2>2. \E s : Goto(v, s)
    BY <1>8 DEF Validate, LoadProtocol, LoadInventory, LoadSchedule, Snapshot, Rebuild, LateGates,
                Conclude, Report, Raise
  <2> QED BY <1>3, <2>1, <2>2
<1>9. CASE UNCHANGED vars BY <1>9 DEF vars
<1> QED BY <1>4, <1>5, <1>6, <1>7, <1>8, <1>9 DEF Next

\* A schedule that is written holds each condition of its inventory in one
\* stage, and its stages together take no less time than the estimate that
\* says whether staging is needed (build_staged_schedule, _runtime_estimate).
THEOREM StagesLoseNothing == Spec => StagingLosesNothing
<1> DEFINE A == \A p \in Freezers :
                  step[p] = "estimate" /\ step'[p] = "protocol" =>
                    \A s \in {Schedule(reads'[p])} :
                      /\ \A c \in s.inventory.records :
                           Cardinality({a \in s.stages : c \in a.conditions}) = 1
                      /\ s.wall >= s.protocol.estimate.wall
<1>1. ASSUME IInv, CInv, [Next]_vars
      PROVE  A
  <2> SUFFICES ASSUME NEW p \in Freezers, step[p] = "estimate", step'[p] = "protocol"
               PROVE  /\ \A c \in Schedule(reads'[p]).inventory.records :
                           Cardinality({a \in Schedule(reads'[p]).stages : c \in a.conditions}) = 1
                      /\ Schedule(reads'[p]).wall >= Schedule(reads'[p]).protocol.estimate.wall
    OBVIOUS
  <2>1. p \in Planners BY DEF Planners
  <2>2. Freeze(p) BY <1>1, OnlyFreeze
  <2>3. PICK r : r = Complete(p) OBVIOUS
  <2>4. reads'[p] = r
    <3>1. step' = [step EXCEPT ![p] = "protocol"] \/ step' = [step EXCEPT ![p] = "refused"]
      BY <2>2 DEF Freeze, Goto
    <3>2. reads' = [reads EXCEPT ![p] = r]
      BY <1>1, <2>1, <2>2, <2>3, Mover DEF Freeze, Goto
    <3> QED BY <1>1, <2>1, <3>2, Mover
  <2>5. /\ r.cohort = reads[p].cohort /\ r.views = reads[p].views
        /\ r.runtime = inputs.runtime /\ r.probes = inputs.probes
    BY <1>1, <2>1, <2>3, Completed
  <2>6. GoodCohort(r.cohort) /\ GoodViews(r.cohort, r.views)
    BY <1>1, <2>1, <2>5 DEF CInv, Fit, Selected
  <2>7. r.runtime.unit \in Nat /\ r.probes.unit \in Nat BY <1>1, <2>5 DEF CInv, Sound
  <2>8. Schedule(r).inventory = Inventory(Protocol(r)) /\ Schedule(r).protocol = Protocol(r)
    BY DEF Schedule, BuildStagedSchedule
  <2>9. Schedule(r).wall >= Schedule(r).protocol.estimate.wall
    BY <2>6, <2>7, <2>8, StagesTakeNoLess
  <2>10. \A c \in Schedule(r).inventory.records :
           Cardinality({a \in Schedule(r).stages : c \in a.conditions}) = 1
    BY <2>6, <2>8, StagesHoldOnce
  <2> QED BY <2>4, <2>9, <2>10
<1>2. Spec => [](IInv /\ CInv)
  <2>1. Init => CInv BY FitInit
  <2>2. IInv /\ CInv /\ [Next]_vars => CInv' BY FitNext
  <2> QED BY <2>1, <2>2, ReadsAreDated, PTL DEF Spec
<1>3. IInv /\ CInv /\ [Next]_vars => [A]_vars BY <1>1
<1>4. StagingLosesNothing <=> [][A]_vars BY DEF StagingLosesNothing
<1> HIDE DEF A
<1> QED BY <1>2, <1>3, <1>4, PTL DEF Spec

=============================================================================
