------------------------ MODULE DataFoundation_proofs ------------------------
(* Proofs about DataFoundation, for any number of programs, versions, deaths  *)
(* and changes: a source manifest describes the raw file beside it, a program *)
(* about to record a pass has one chain of files before it, what is frozen    *)
(* stays, and as long as nobody removes files what was recorded remains true  *)
(* and deaths leave nothing that a later program stumbles over.               *)
EXTENDS DataFoundation, TLAPS

-----------------------------------------------------------------------------
(* Records as functions: the prover takes one field at a time.                *)

LocalFields == {"pc", "flags", "number", "again", "md5", "content", "source", "tables",
                "split", "summary", "first", "cause"}
DiskFields == {"raw", "metadata", "source", "quality", "features", "targets", "schema",
               "dataManifest", "assignments", "splitManifest", "summary", "stage", "tmp",
               "parts"}

IsLocal(r) == r = [f \in LocalFields |-> r[f]]
IsDisk(d) == d = [f \in DiskFields |-> d[f]]
Setting(r, f, x) == [r EXCEPT ![f] = x]

LEMMA SetLocal ==
  ASSUME NEW r, IsLocal(r), NEW f \in LocalFields, NEW x
  PROVE  /\ IsLocal(Setting(r, f, x)) /\ Setting(r, f, x)[f] = x
         /\ \A g \in LocalFields : g # f => Setting(r, f, x)[g] = r[g]
  BY DEF IsLocal, Setting

LEMMA SetDisk ==
  ASSUME NEW d, IsDisk(d), NEW f \in DiskFields, NEW x
  PROVE  /\ IsDisk(Setting(d, f, x)) /\ Setting(d, f, x)[f] = x
         /\ \A g \in DiskFields : g # f => Setting(d, f, x)[g] = d[g]
  BY DEF IsDisk, Setting

LEMMA IdleIsLocal == IsLocal(Idle)
  BY DEF IsLocal, LocalFields, Idle

\* All fields of a local record whose field f is set.
LEMMA SetPc ==
  ASSUME NEW r, IsLocal(r), NEW x
  PROVE  LET s == Setting(r, "pc", x) IN
         /\ IsLocal(s) /\ s.pc = x /\ s.flags = r.flags /\ s.number = r.number
         /\ s.again = r.again /\ s.md5 = r.md5 /\ s.content = r.content
         /\ s.source = r.source /\ s.tables = r.tables /\ s.split = r.split
         /\ s.summary = r.summary /\ s.first = r.first /\ s.cause = r.cause
  BY SetLocal DEF LocalFields

-----------------------------------------------------------------------------
(* The inductive invariant.                                                   *)

Downloading == {"metadata", "stream", "promote", "describe"}
Gone == {"idle", "failing", "leaving"}
Settled(pc) == pc \notin Gone \cup Acquiring \cup Auditing

ManifestOf(s) == [raw |-> s.describes, source |-> s, features |-> s.describes,
                  targets |-> s.describes, schema |-> s.describes]

\* The raw file is there and its source manifest is true.
Sourced(d) ==
  /\ d.raw \in Versions /\ d.source \in SourceManifests
  /\ d.source.describes = d.raw /\ d.source.provider \in {None, d.raw}

\* The tables and their manifest are those of the raw file.
Built(d) ==
  /\ d.features = d.raw /\ d.targets = d.raw /\ d.schema = d.raw
  /\ d.dataManifest = ManifestOf(d.source)

\* A split manifest that states what is on disk.
Fits(m, d) ==
  m \in SplitManifests /\ m.assignments = d.raw /\ m.data = ManifestOf(d.source)

\* What a program may rely on where it is.
Ending == {"summary", "pass", "finish"}
Assigned == {"split", "write_split"} \cup Ending
Loaded == {"processed", "assign", "write_assignments"} \cup Assigned

Knows(d, r) ==
  /\ r.pc = "promote" => r.content \in Versions /\ r.md5 \in {None, r.content}
  /\ r.pc = "describe" => d.raw \in Versions /\ r.md5 \in {None, d.raw}
  /\ Settled(r.pc) => Sourced(d) /\ r.source = d.source
  /\ r.pc \in {"targets", "schema", "data_manifest"} => d.features = d.raw
  /\ r.pc \in {"schema", "data_manifest"} => d.targets = d.raw
  /\ r.pc = "data_manifest" => d.schema = d.raw
  /\ r.pc = "load_tables" \/ r.pc \in Loaded => Built(d)
  /\ r.pc \in Loaded => /\ r.tables.features = d.raw /\ r.tables.targets = d.raw
                        /\ r.tables.manifest = ManifestOf(d.source)
  /\ r.pc = "write_assignments" => d.assignments \in {None, d.raw}
  /\ r.pc \in Assigned => d.assignments = d.raw
  /\ r.pc = "write_split" => Fits(r.split, d)
  /\ r.pc \in Ending => Fits(d.splitManifest, d)

\* Only tables of the source that is there can claim to be derived from it,
\* because every source manifest carries a number of its own.
DiskOK(d, n) ==
  /\ d.raw \in Versions \cup {None} /\ d.source \in SourceManifests \cup {None}
  /\ d.dataManifest \in DataManifests \cup {None}
  /\ d.splitManifest \in SplitManifests \cup {None}
  /\ d.source # None => d.source.provider \in {None, d.source.describes} /\ d.source.stamp <= n
  /\ d.dataManifest # None => d.dataManifest.source.stamp <= n
  /\ d.dataManifest # None /\ d.dataManifest.source = d.source =>
       /\ d.dataManifest = ManifestOf(d.source)
       /\ d.features \in {None, d.source.describes} /\ d.targets \in {None, d.source.describes}
       /\ d.schema \in {None, d.source.describes}

\* A program that may yet write a source manifest has a number nobody used.
Serial(d, r, n) ==
  /\ r.number \in 0..n
  /\ r.pc \in Acquiring \/ Settled(r.pc) => r.number # 0
  /\ r.pc \in Downloading => ~r.again
  /\ r.pc \in Acquiring /\ ~r.again =>
       /\ d.source # None => d.source.stamp # r.number
       /\ d.dataManifest # None => d.dataManifest.source.stamp # r.number

Distinct == \A p, q \in Programs : p # q /\ run[p].number # 0 => run[p].number # run[q].number

Shape ==
  /\ run = [p \in Programs |-> run[p]] /\ \A p \in Programs : IsLocal(run[p])
  /\ IsDisk(disk)
  /\ trouble = [deaths |-> trouble.deaths, changes |-> trouble.changes] /\ trouble.changes \in Nat
  /\ provider = [content |-> provider.content, md5 |-> provider.md5, frozen |-> provider.frozen]
  /\ provider.content \in Versions
  /\ starts \in 0..MaxStarts

Locked ==
  /\ lock \in Programs \cup {None}
  /\ \A p \in Programs : lock = p <=> run[p].pc \in Downloading
  /\ \A p \in Programs : Settled(run[p].pc) => lock = None

AllKnow == \A p \in Programs : Knows(disk, run[p])
AllSerial == \A p \in Programs : Serial(disk, run[p], starts)

IInv == Shape /\ Locked /\ AllKnow /\ AllSerial /\ Distinct /\ DiskOK(disk, starts)

-----------------------------------------------------------------------------
(* Steps that leave the chain of files as it is, or make it what it should be.*)

Tame(d, e) ==
  /\ e.raw = d.raw /\ e.source = d.source
  /\ e.features = d.features \/ (Sourced(d) /\ e.features = d.raw)
  /\ e.targets = d.targets \/ (Sourced(d) /\ e.targets = d.raw)
  /\ e.schema = d.schema \/ (Sourced(d) /\ e.schema = d.raw)
  /\ \/ e.dataManifest = d.dataManifest
     \/ /\ Sourced(d) /\ d.features = d.raw /\ d.targets = d.raw /\ d.schema = d.raw
        /\ e.dataManifest = ManifestOf(d.source)
  /\ \/ e.assignments = d.assignments
     \/ /\ Sourced(d) /\ d.assignments \in {None, d.raw} /\ e.assignments = d.raw
  /\ e.splitManifest = d.splitManifest \/ (Sourced(d) /\ Fits(e.splitManifest, d))

LEMMA ManifestFacts ==
  ASSUME NEW s \in SourceManifests
  PROVE  /\ ManifestOf(s) \in DataManifests /\ ManifestOf(s) # None /\ s # None
         /\ ManifestOf(s).source = s /\ ManifestOf(s).raw = s.describes
         /\ s.describes \in Versions /\ s.stamp \in 1..MaxStarts
  <1>1. /\ s.describes \in Versions /\ s.stamp \in 1..MaxStarts
    BY DEF SourceManifests
  <1>2. ManifestOf(s) \in DataManifests
    BY <1>1 DEF ManifestOf, DataManifests
  <1> QED BY <1>1, <1>2, FilesAssumption DEF ManifestOf

LEMMA TameKeepsKnowledge ==
  ASSUME NEW d, NEW e, NEW r, Tame(d, e), Knows(d, r)
  PROVE  Knows(e, r)
  <1>1. Sourced(d) => Sourced(e)
    BY DEF Tame, Sourced
  <1>2. e.raw = d.raw /\ e.source = d.source
    BY DEF Tame
  <1>3. \A m : Fits(m, d) <=> Fits(m, e)
    BY <1>2 DEF Fits
  <1>4. Built(d) => Built(e)
    BY <1>2 DEF Built, Tame
  <1> QED BY <1>1, <1>2, <1>3, <1>4 DEF Knows, Tame

LEMMA TameKeepsDisk ==
  ASSUME NEW d, NEW e, NEW n \in Nat, Tame(d, e), DiskOK(d, n)
  PROVE  DiskOK(e, n)
  <1>1. e.raw = d.raw /\ e.source = d.source
    BY DEF Tame
  <1>2. e.splitManifest \in SplitManifests \cup {None}
    BY DEF Tame, DiskOK, Fits
  <1>3. CASE e.dataManifest = d.dataManifest
    BY <1>1, <1>2, <1>3 DEF Tame, DiskOK, Sourced
  <1>4. CASE /\ Sourced(d) /\ d.features = d.raw /\ d.targets = d.raw /\ d.schema = d.raw
             /\ e.dataManifest = ManifestOf(d.source)
    <2>1. /\ e.features = d.raw /\ e.targets = d.raw /\ e.schema = d.raw
      BY <1>4 DEF Tame
    <2>2. d.source \in SourceManifests /\ d.source.describes = d.raw
      BY <1>4 DEF Sourced
    <2> QED BY <1>1, <1>2, <1>4, <2>1, <2>2, ManifestFacts DEF DiskOK
  <1> QED BY <1>3, <1>4 DEF Tame

LEMMA TameKeepsSerial ==
  ASSUME NEW d, NEW e, NEW r, NEW n, Tame(d, e), Serial(d, r, n)
  PROVE  Serial(e, r, n)
  <1>1. e.source = d.source /\ (e.dataManifest # d.dataManifest =>
          d.source \in SourceManifests /\ e.dataManifest = ManifestOf(d.source))
    BY DEF Tame, Sourced
  <1> QED BY <1>1, ManifestFacts DEF Serial

-----------------------------------------------------------------------------
(* Steps of one program.                                                      *)

RunMoves(p) ==
  /\ run' = [q \in Programs |-> run'[q]] /\ \A q \in Programs : IsLocal(run'[q])
  /\ \A q \in Programs : q # p => run'[q] = run[q]

LockMoves(p) ==
  /\ lock' = IF run'[p].pc \in Downloading THEN p ELSE IF lock = p THEN None ELSE lock
  /\ run'[p].pc \in Downloading =>
       lock = p \/ (lock = None /\ \A q \in Programs : ~Settled(run[q].pc))
  /\ Settled(run'[p].pc) => lock' = None

\* A step that starts no program keeps its number, or loses it for good.
NumberMoves(p) ==
  /\ starts' = starts
  /\ run'[p].number \in {0, run[p].number}
  /\ run'[p].pc \in Acquiring \/ Settled(run'[p].pc) => run'[p].number # 0
  /\ run'[p].pc \in Downloading => ~run'[p].again
  /\ run'[p].pc \in Acquiring /\ ~run'[p].again => run[p].pc \in Acquiring /\ ~run[p].again

Surroundings ==
  /\ trouble' = [deaths |-> trouble'.deaths, changes |-> trouble'.changes]
  /\ trouble'.changes = trouble.changes
  /\ UNCHANGED provider

Moves(p) ==
  /\ RunMoves(p) /\ LockMoves(p) /\ NumberMoves(p) /\ Surroundings
  /\ IsDisk(disk') /\ Tame(disk, disk')
  /\ Knows(disk', run'[p])

LEMMA MovesKeepLock ==
  ASSUME IInv, NEW p \in Programs, RunMoves(p), LockMoves(p)
  PROVE  Locked'
  <1>1. None \notin Programs
    BY DataFoundationAssumption
  <1>2. lock' \in Programs \cup {None}
    BY DEF LockMoves, IInv, Locked
  <1>3. ASSUME NEW q \in Programs PROVE lock' = q <=> run'[q].pc \in Downloading
    <2>1. CASE q = p
      BY <1>1, <2>1 DEF LockMoves
    <2>2. CASE q # p
      <3>1. run'[q] = run[q] /\ (lock = q <=> run[q].pc \in Downloading)
        BY <2>2 DEF RunMoves, IInv, Locked
      <3> QED BY <1>1, <2>2, <3>1 DEF LockMoves
    <2> QED BY <2>1, <2>2
  <1>4. ASSUME NEW q \in Programs, Settled(run'[q].pc) PROVE lock' = None
    <2>1. CASE q = p
      BY <1>4, <2>1 DEF LockMoves
    <2>2. CASE q # p
      <3>1. Settled(run[q].pc) /\ lock = None
        BY <1>4, <2>2 DEF RunMoves, IInv, Locked
      <3> QED BY <1>1, <3>1 DEF LockMoves
    <2> QED BY <2>1, <2>2
  <1> QED BY <1>2, <1>3, <1>4 DEF Locked

LEMMA MovesKeepSerial ==
  ASSUME IInv, NEW p \in Programs, RunMoves(p), NumberMoves(p), Tame(disk, disk')
  PROVE  AllSerial' /\ Distinct'
  <1>1. ASSUME NEW q \in Programs PROVE Serial(disk', run'[q], starts')
    <2>1. Serial(disk', run[q], starts)
      BY TameKeepsSerial DEF IInv, AllSerial
    <2>2. CASE q = p
      <3>1. run'[p].number \in 0..starts
        BY <2>1, <2>2 DEF NumberMoves, Serial, IInv, Shape
      <3>2. CASE run'[p].number = 0
        BY <2>2, <3>1, <3>2 DEF NumberMoves, Serial, Downloading, Acquiring
      <3>3. CASE run'[p].number = run[p].number
        BY <2>1, <2>2, <3>1, <3>3 DEF NumberMoves, Serial
      <3> QED BY <3>2, <3>3 DEF NumberMoves
    <2>3. CASE q # p
      BY <2>1, <2>3 DEF RunMoves, NumberMoves
    <2> QED BY <2>2, <2>3
  <1>2. Distinct'
    BY DEF RunMoves, NumberMoves, IInv, Distinct
  <1> QED BY <1>1, <1>2 DEF AllSerial

LEMMA MovesKeep ==
  ASSUME IInv, NEW p \in Programs, Moves(p)
  PROVE  IInv'
  <1>1. Shape'
    BY DEF Moves, RunMoves, NumberMoves, Surroundings, IInv, Shape
  <1>2. Locked'
    BY MovesKeepLock DEF Moves
  <1>3. ASSUME NEW q \in Programs PROVE Knows(disk', run'[q])
    <2>1. CASE q = p
      BY <2>1 DEF Moves
    <2>2. CASE q # p
      <3>1. Knows(disk', run[q])
        BY TameKeepsKnowledge DEF IInv, AllKnow, Moves
      <3> QED BY <2>2, <3>1 DEF Moves, RunMoves
    <2> QED BY <2>1, <2>2
  <1>4. AllSerial' /\ Distinct'
    BY MovesKeepSerial DEF Moves
  <1>5. DiskOK(disk', starts')
    <2>1. starts \in Nat
      BY DataFoundationAssumption DEF IInv, Shape
    <2>2. DiskOK(disk', starts)
      BY <2>1, TameKeepsDisk DEF Moves, IInv
    <2> QED BY <2>2 DEF Moves, NumberMoves
  <1> QED BY <1>1, <1>2, <1>3, <1>4, <1>5 DEF IInv, AllKnow

-----------------------------------------------------------------------------
(* What the ways to change a program's record come to.                        *)

LEMMA Doing ==
  ASSUME Shape, NEW p \in Programs, NEW f, IsLocal(f), Does(p, f)
  PROVE  run'[p] = f /\ RunMoves(p)
  BY DEF Shape, Does, RunMoves

LEMMA Going ==
  ASSUME Shape, NEW p \in Programs, NEW pc, Goes(p, pc)
  PROVE  /\ RunMoves(p)
         /\ LET s == run'[p] r == run[p] IN
            /\ s.pc = pc /\ s.flags = r.flags /\ s.number = r.number
            /\ s.again = r.again /\ s.md5 = r.md5 /\ s.content = r.content
            /\ s.source = r.source /\ s.tables = r.tables /\ s.split = r.split
            /\ s.summary = r.summary /\ s.first = r.first /\ s.cause = r.cause
  <1>1. IsLocal(run[p])
    BY DEF Shape
  <1>2. Does(p, Setting(run[p], "pc", pc))
    BY DEF Goes, Setting
  <1>3. IsLocal(Setting(run[p], "pc", pc))
    BY <1>1, SetPc
  <1>4. run'[p] = Setting(run[p], "pc", pc) /\ RunMoves(p)
    BY <1>2, <1>3, Doing
  <1> QED BY <1>1, <1>4, SetPc

SettingTwo(r, f, x, g, y) == [r EXCEPT ![f] = x, ![g] = y]
SettingThree(r, f, x, g, y, h, z) == [r EXCEPT ![f] = x, ![g] = y, ![h] = z]

LEMMA SetTwo ==
  ASSUME NEW r, IsLocal(r), NEW f \in LocalFields, NEW x, NEW g \in LocalFields, NEW y, f # g
  PROVE  LET s == SettingTwo(r, f, x, g, y) IN
         /\ IsLocal(s) /\ s[f] = x /\ s[g] = y
         /\ \A h \in LocalFields : h \notin {f, g} => s[h] = r[h]
  <1>1. SettingTwo(r, f, x, g, y) = Setting(Setting(r, f, x), g, y)
    BY DEF Setting, SettingTwo
  <1>2. IsLocal(Setting(r, f, x))
    BY SetLocal
  <1> QED BY <1>1, <1>2, SetLocal

LEMMA SetThree ==
  ASSUME NEW r, IsLocal(r), NEW f \in LocalFields, NEW x, NEW g \in LocalFields, NEW y,
         NEW h \in LocalFields, NEW z, f # g, f # h, g # h
  PROVE  LET s == SettingThree(r, f, x, g, y, h, z) IN
         /\ IsLocal(s) /\ s[f] = x /\ s[g] = y /\ s[h] = z
         /\ \A i \in LocalFields : i \notin {f, g, h} => s[i] = r[i]
  <1>1. SettingThree(r, f, x, g, y, h, z) = Setting(SettingTwo(r, f, x, g, y), h, z)
    BY DEF Setting, SettingTwo, SettingThree
  <1>2. IsLocal(SettingTwo(r, f, x, g, y))
    BY SetTwo
  <1> QED BY <1>1, <1>2, SetTwo, SetLocal

\* A program that ends in whatever way keeps no number and claims nothing.
Retires(p) ==
  RunMoves(p) /\ run'[p].pc \in Gone /\ run'[p].number = 0 /\ ~run'[p].again

LEMMA Leaving ==
  ASSUME Shape, NEW p \in Programs, NEW pc \in Gone, NEW cause, Left(p, pc, cause)
  PROVE  Retires(p) /\ run'[p].pc = pc
  <1> DEFINE s == SettingThree(Idle, "pc", pc, "flags", run[p].flags, "cause", cause)
  <1>1. /\ "pc" \in LocalFields /\ "flags" \in LocalFields /\ "cause" \in LocalFields
        /\ "number" \in LocalFields /\ "again" \in LocalFields
    BY DEF LocalFields
  <1>2. Does(p, s)
    BY DEF Left, SettingThree
  <1> HIDE DEF s
  <1>5. /\ IsLocal(s) /\ s.pc = pc
        /\ \A i \in LocalFields : i \notin {"pc", "flags", "cause"} => s[i] = Idle[i]
    BY <1>1, SetThree, IdleIsLocal DEF s
  <1>6. s.number = Idle.number /\ s.again = Idle.again
    BY <1>1, <1>5
  <1>3. run'[p] = s /\ RunMoves(p)
    BY <1>2, <1>5, Doing
  <1>4. Idle.number = 0 /\ ~Idle.again
    BY DEF Idle
  <1> QED BY <1>3, <1>4, <1>5, <1>6 DEF Retires

LEMMA BecomingIdle ==
  ASSUME Shape, NEW p \in Programs, Does(p, Idle)
  PROVE  Retires(p) /\ run'[p].pc = "idle"
  <1>1. run'[p] = Idle /\ RunMoves(p)
    BY IdleIsLocal, Doing
  <1> QED BY <1>1 DEF Retires, Idle, Gone

LEMMA AsideMoves ==
  ASSUME IInv, NEW p \in Programs, RunMoves(p), run'[p].pc \in Gone \cup Auditing,
         run'[p].number \in {0, run[p].number}, IsDisk(disk'), Tame(disk, disk'),
         lock' = IF lock = p THEN None ELSE lock, starts' = starts, Surroundings
  PROVE  Moves(p)
  <1>1. run'[p].pc \notin Downloading /\ run'[p].pc \notin Acquiring /\ ~Settled(run'[p].pc)
    BY DEF Gone, Auditing, Downloading, Acquiring, Settled
  <1>2. LockMoves(p)
    BY <1>1 DEF LockMoves
  <1>3. NumberMoves(p)
    BY <1>1 DEF NumberMoves
  <1>4. Knows(disk', run'[p])
    BY <1>1 DEF Gone, Auditing, Knows, Settled, Loaded, Assigned, Ending
  <1> QED BY <1>2, <1>3, <1>4 DEF Moves

LEMMA RetiringMoves ==
  ASSUME IInv, NEW p \in Programs, Retires(p), IsDisk(disk'), Tame(disk, disk'),
         lock' = IF lock = p THEN None ELSE lock, starts' = starts, Surroundings
  PROVE  Moves(p)
  BY AsideMoves DEF Retires

\* A program past its acquisition has nothing to do with the lock.
LEMMA AdvancingMoves ==
  ASSUME IInv, NEW p \in Programs, RunMoves(p), Settled(run[p].pc), Settled(run'[p].pc),
         run'[p].number = run[p].number, IsDisk(disk'), Tame(disk, disk'),
         lock' = lock, starts' = starts, Surroundings, Knows(disk', run'[p])
  PROVE  Moves(p)
  <1>1. run'[p].pc \notin Downloading /\ run'[p].pc \notin Acquiring
    BY DEF Downloading, Acquiring, Settled
  <1>2. lock = None /\ None \notin Programs
    BY DataFoundationAssumption DEF IInv, Locked
  <1>3. run[p].number # 0
    BY DEF IInv, AllSerial, Serial
  <1>4. LockMoves(p) /\ NumberMoves(p)
    BY <1>1, <1>2, <1>3 DEF LockMoves, NumberMoves
  <1> QED BY <1>4 DEF Moves

LEMMA Unlocked ==
  ASSUME IInv, NEW p \in Programs, Settled(run[p].pc) \/ run[p].pc \in Gone \cup Auditing,
         lock' = lock
  PROVE  lock' = IF lock = p THEN None ELSE lock
  BY DEF IInv, Locked, Settled, Gone, Auditing, Acquiring, Downloading

LEMMA Still ==
  ASSUME Shape, UNCHANGED disk
  PROVE  IsDisk(disk') /\ Tame(disk, disk')
  <1>1. Tame(disk, disk)
    BY DEF Tame
  <1>2. disk' = disk /\ IsDisk(disk)
    BY DEF Shape
  <1> QED BY <1>1, <1>2

Chain == {"raw", "source", "features", "targets", "schema", "dataManifest", "assignments",
          "splitManifest"}

LEMMA WritingField ==
  ASSUME Shape, NEW f \in DiskFields, NEW x, Writes(f, x)
  PROVE  /\ IsDisk(disk') /\ disk'[f] = x
         /\ \A g \in DiskFields : g # f => disk'[g] = disk[g]
  <1>1. disk' = Setting(disk, f, x) /\ IsDisk(disk)
    BY DEF Writes, Setting, Shape
  <1>2. /\ IsDisk(Setting(disk, f, x)) /\ Setting(disk, f, x)[f] = x
        /\ \A g \in DiskFields : g # f => Setting(disk, f, x)[g] = disk[g]
    BY <1>1, SetDisk
  <1> QED BY <1>1, <1>2

LEMMA WritingAside ==
  ASSUME Shape, NEW f \in DiskFields \ Chain, NEW x, Writes(f, x)
  PROVE  /\ IsDisk(disk') /\ Tame(disk, disk') /\ disk'[f] = x
         /\ \A g \in DiskFields : g # f => disk'[g] = disk[g]
  <1>2. /\ IsDisk(disk') /\ disk'[f] = x /\ \A g \in DiskFields : g # f => disk'[g] = disk[g]
    BY WritingField
  <1>3. \A g \in Chain : g \in DiskFields /\ g # f
    BY DEF Chain, DiskFields
  <1>4. \A g \in Chain : disk'[g] = disk[g]
    BY <1>2, <1>3
  <1>5. Tame(disk, disk')
    BY <1>4 DEF Chain, Tame
  <1> QED BY <1>2, <1>5

LEMMA Around ==
  ASSUME Shape, UNCHANGED <<provider, trouble>>
  PROVE  Surroundings
  BY DEF Shape, Surroundings

LEMMA Known ==
  ASSUME IInv, NEW p \in Programs
  PROVE  /\ Shape /\ Knows(disk, run[p]) /\ Serial(disk, run[p], starts) /\ IsLocal(run[p])
  BY DEF IInv, AllKnow, AllSerial, Shape

-----------------------------------------------------------------------------
(* Every action that neither starts a program nor touches the raw file and    *)
(* its manifest moves tamely.                                                 *)

LEMMA FailingMoves ==
  ASSUME IInv, NEW p \in Programs, NEW cause, Fails(p, cause) \/ Leaves(p, cause),
         IsDisk(disk'), Tame(disk, disk'),
         lock' = IF lock = p THEN None ELSE lock, starts' = starts, UNCHANGED <<provider, trouble>>
  PROVE  Moves(p)
  <1>1. Retires(p)
    BY Leaving, Known DEF Fails, Leaves, Gone
  <1>2. Surroundings
    BY Around, Known
  <1> QED BY <1>1, <1>2, RetiringMoves

LEMMA LockTimesOutMoves ==
  ASSUME IInv, NEW p \in Programs, LockTimesOut(p)
  PROVE  Moves(p)
  <1>1. lock' = IF lock = p THEN None ELSE lock
    BY DEF LockTimesOut, At, IInv, Locked, Downloading
  <1> QED BY <1>1, Still, Known, FailingMoves DEF LockTimesOut

LEMMA TransportFailsMoves ==
  ASSUME IInv, NEW p \in Programs, TransportFails(p)
  PROVE  Moves(p)
  <1>1. lock = p
    BY DEF TransportFails, IInv, Locked, Downloading
  <1> QED BY <1>1, Still, Known, FailingMoves DEF TransportFails

LEMMA CheckCacheMoves ==
  ASSUME IInv, NEW p \in Programs, CheckCache(p)
  PROVE  Moves(p)
  <1>0. /\ Shape /\ IsLocal(run[p]) /\ Serial(disk, run[p], starts) /\ run[p].pc = "acquire"
        /\ lock = None /\ None \notin Programs /\ starts' = starts
        /\ IsDisk(disk') /\ Tame(disk, disk') /\ Surroundings /\ disk' = disk
    BY Known, Still, Around, DataFoundationAssumption DEF CheckCache, At
  <1>1. ASSUME ~Missing({"raw", "source"}), CacheManifestIsValid, UNCHANGED lock,
               Does(p, [run[p] EXCEPT !.pc = "validate", !.source = disk.source])
        PROVE  Moves(p)
    <2> DEFINE s == SettingTwo(run[p], "pc", "validate", "source", disk.source)
    <2>1. /\ "pc" \in LocalFields /\ "source" \in LocalFields /\ "number" \in LocalFields
      BY DEF LocalFields
    <2>2. Does(p, s)
      BY <1>1 DEF SettingTwo
    <2> HIDE DEF s
    <2>3. /\ IsLocal(s) /\ s.pc = "validate" /\ s.source = disk.source
          /\ \A i \in LocalFields : i \notin {"pc", "source"} => s[i] = run[p][i]
      BY <1>0, <2>1, SetTwo DEF s
    <2>4. run'[p] = s /\ RunMoves(p)
      BY <1>0, <2>2, <2>3, Doing
    <2>5. s.number = run[p].number
      BY <2>1, <2>3
    <2>6. Sourced(disk)
      BY <1>1 DEF IInv, DiskOK, Missing, CacheManifestIsValid, Sourced
    <2>7. Settled(s.pc) /\ s.pc \notin Acquiring /\ s.pc \notin Downloading
      BY <2>3 DEF Settled, Gone, Acquiring, Auditing, Downloading
    <2>8. Knows(disk', run'[p])
      BY <1>0, <2>3, <2>4, <2>6 DEF Knows, Loaded, Assigned, Ending
    <2>9. LockMoves(p) /\ NumberMoves(p)
      BY <1>0, <1>1, <2>4, <2>5, <2>7 DEF LockMoves, NumberMoves, Serial, Acquiring
    <2> QED BY <1>0, <2>4, <2>8, <2>9 DEF Moves
  <1>2. ASSUME NEW cause, Fails(p, cause), UNCHANGED lock
        PROVE  Moves(p)
    BY <1>0, <1>2, FailingMoves DEF CheckCache
  <1>3. ASSUME Missing({"raw", "source"}), ~Offline(p), Goes(p, "metadata"), lock' = p
        PROVE  Moves(p)
    <2>1. RunMoves(p) /\ run'[p].pc = "metadata" /\ run'[p].number = run[p].number
          /\ run'[p].again = run[p].again
      BY <1>0, <1>3, Going
    <2>2. ~run[p].again
      BY <1>3 DEF Offline
    <2>3. ~Sourced(disk)
      BY <1>3, FilesAssumption, DataFoundationAssumption DEF Missing, Sourced
    <2>4. \A q \in Programs : ~Settled(run[q].pc)
      BY <2>3 DEF IInv, AllKnow, Knows
    <2>5. Knows(disk', run'[p])
      BY <2>1 DEF Knows, Settled, Loaded, Assigned, Ending, Acquiring
    <2>6. LockMoves(p) /\ NumberMoves(p)
      BY <1>0, <1>3, <2>1, <2>2, <2>4 DEF LockMoves, NumberMoves, Serial, Acquiring, Downloading,
         Settled
    <2> QED BY <1>0, <2>1, <2>5, <2>6 DEF Moves
  <1> QED BY <1>1, <1>2, <1>3 DEF CheckCache

LEMMA Fields ==
  /\ "pc" \in LocalFields /\ "flags" \in LocalFields /\ "number" \in LocalFields
  /\ "again" \in LocalFields /\ "md5" \in LocalFields /\ "content" \in LocalFields
  /\ "source" \in LocalFields /\ "tables" \in LocalFields /\ "split" \in LocalFields
  /\ "summary" \in LocalFields /\ "first" \in LocalFields /\ "cause" \in LocalFields
  BY DEF LocalFields

LEMMA DoingTwo ==
  ASSUME Shape, NEW p \in Programs, NEW r, IsLocal(r), NEW f \in LocalFields, NEW x,
         NEW g \in LocalFields, NEW y, f # g, Does(p, SettingTwo(r, f, x, g, y))
  PROVE  /\ RunMoves(p) /\ run'[p][f] = x /\ run'[p][g] = y
         /\ \A h \in LocalFields : h \notin {f, g} => run'[p][h] = r[h]
  BY SetTwo, Doing

LEMMA DoingThree ==
  ASSUME Shape, NEW p \in Programs, NEW r, IsLocal(r), NEW f \in LocalFields, NEW x,
         NEW g \in LocalFields, NEW y, NEW h \in LocalFields, NEW z, f # g, f # h, g # h,
         Does(p, SettingThree(r, f, x, g, y, h, z))
  PROVE  /\ RunMoves(p) /\ run'[p][f] = x /\ run'[p][g] = y /\ run'[p][h] = z
         /\ \A i \in LocalFields : i \notin {f, g, h} => run'[p][i] = r[i]
  BY SetThree, Doing

LEMMA FetchMetadataMoves ==
  ASSUME IInv, NEW p \in Programs, FetchMetadata(p)
  PROVE  Moves(p)
  <1>0. /\ Shape /\ IsLocal(run[p]) /\ Serial(disk, run[p], starts) /\ run[p].pc = "metadata"
        /\ None \notin Programs /\ starts' = starts /\ Surroundings
    BY Known, Around, DataFoundationAssumption DEF FetchMetadata, At
  <1>1. lock = p
    BY <1>0 DEF IInv, Locked, Downloading
  <1>2. IsDisk(disk') /\ Tame(disk, disk')
    <2>1. CASE UNCHANGED disk
      BY <1>0, <2>1, Still
    <2>2. CASE Writes("metadata", provider.content)
      <3>1. "metadata" \in DiskFields \ Chain
        BY DEF DiskFields, Chain
      <3> QED BY <1>0, <2>2, <3>1, WritingAside
    <2> QED BY <2>1, <2>2 DEF FetchMetadata
  <1>3. ASSUME Does(p, [run[p] EXCEPT !.pc = "stream", !.md5 = provider.md5]), UNCHANGED lock
        PROVE  Moves(p)
    <2>1. Does(p, SettingTwo(run[p], "pc", "stream", "md5", provider.md5))
      BY <1>3 DEF SettingTwo
    <2>a. /\ RunMoves(p) /\ run'[p].pc = "stream"
          /\ \A h \in LocalFields : h \notin {"pc", "md5"} => run'[p][h] = run[p][h]
      <3>1. "pc" \in LocalFields /\ "md5" \in LocalFields /\ "pc" # "md5"
        BY Fields
      <3> QED BY <1>0, <2>1, <3>1, DoingTwo
    <2>2. /\ RunMoves(p) /\ run'[p].pc = "stream"
          /\ run'[p].number = run[p].number /\ run'[p].again = run[p].again
      BY <2>a, Fields
    <2>3. Knows(disk', run'[p])
      BY <2>2 DEF Knows, Settled, Loaded, Assigned, Ending, Acquiring
    <2>4. LockMoves(p) /\ NumberMoves(p)
      BY <1>0, <1>1, <1>3, <2>2 DEF LockMoves, NumberMoves, Serial, Acquiring, Downloading,
         Settled
    <2> QED BY <1>0, <1>2, <2>2, <2>3, <2>4 DEF Moves
  <1>4. ASSUME Fails(p, "integrity"), lock' = None
        PROVE  Moves(p)
    BY <1>0, <1>1, <1>2, <1>4, FailingMoves DEF FetchMetadata
  <1> QED BY <1>3, <1>4 DEF FetchMetadata

LEMMA StreamMoves ==
  ASSUME IInv, NEW p \in Programs, Stream(p)
  PROVE  Moves(p)
  <1>0. /\ Shape /\ IsLocal(run[p]) /\ Serial(disk, run[p], starts) /\ run[p].pc = "stream"
        /\ None \notin Programs /\ starts' = starts /\ Surroundings
        /\ IsDisk(disk') /\ Tame(disk, disk')
    BY Known, Around, Still, DataFoundationAssumption DEF Stream, At
  <1>1. lock = p
    BY <1>0 DEF IInv, Locked, Downloading
  <1>2. CASE run[p].md5 \in {None, provider.content}
    <2>1. Does(p, SettingTwo(run[p], "pc", "promote", "content", provider.content))
      BY <1>2 DEF SettingTwo, Stream
    <2>a. /\ RunMoves(p) /\ run'[p].pc = "promote" /\ run'[p].content = provider.content
          /\ \A h \in LocalFields : h \notin {"pc", "content"} => run'[p][h] = run[p][h]
      BY <1>0, <2>1, DoingTwo, Fields
    <2>2. /\ RunMoves(p) /\ run'[p].pc = "promote" /\ run'[p].content = provider.content
          /\ run'[p].number = run[p].number /\ run'[p].again = run[p].again
          /\ run'[p].md5 = run[p].md5
      BY <2>a, Fields
    <2>3. provider.content \in Versions
      BY <1>0 DEF Shape
    <2>4. Knows(disk', run'[p])
      BY <1>2, <2>2, <2>3 DEF Knows, Settled, Loaded, Assigned, Ending, Acquiring
    <2>5. LockMoves(p) /\ NumberMoves(p)
      BY <1>0, <1>1, <1>2, <2>2 DEF LockMoves, NumberMoves, Serial, Acquiring, Downloading,
         Settled, Stream
    <2> QED BY <1>0, <2>2, <2>4, <2>5 DEF Moves
  <1>3. CASE run[p].md5 \notin {None, provider.content}
    BY <1>0, <1>1, <1>3, FailingMoves DEF Stream
  <1> QED BY <1>2, <1>3

LEMMA ValidateSourceMoves ==
  ASSUME IInv, NEW p \in Programs, ValidateSource(p)
  PROVE  Moves(p)
  <1>0. /\ Shape /\ Knows(disk, run[p]) /\ run[p].pc = "validate"
        /\ starts' = starts /\ Surroundings /\ UNCHANGED <<lock, provider, trouble>>
    BY Known, Around DEF ValidateSource, At
  <1>1. Settled(run[p].pc)
    BY <1>0 DEF Settled, Gone, Acquiring, Auditing
  <1>2. IsDisk(disk') /\ Tame(disk, disk')
    <2>1. "quality" \in DiskFields \ Chain
      BY DEF DiskFields, Chain
    <2> QED BY <1>0, <2>1, WritingAside, Still DEF ValidateSource
  <1>3. lock' = IF lock = p THEN None ELSE lock
    BY <1>0, <1>1, Unlocked
  <1>4. CASE Goes(p, "tables")
    <2>1. /\ RunMoves(p) /\ run'[p].pc = "tables"
          /\ run'[p].number = run[p].number /\ run'[p].source = run[p].source
      BY <1>0, <1>4, Going
    <2>2. Settled(run'[p].pc)
      BY <2>1 DEF Settled, Gone, Acquiring, Auditing
    <2>3. Sourced(disk') /\ run'[p].source = disk'.source
      BY <1>0, <1>1, <1>2, <2>1 DEF Knows, Tame, Sourced
    <2>4. Knows(disk', run'[p])
      BY <2>1, <2>3 DEF Knows, Loaded, Assigned, Ending
    <2> QED BY <1>0, <1>1, <1>2, <2>1, <2>2, <2>4, AdvancingMoves
  <1>5. ASSUME NEW cause, Fails(p, cause) PROVE Moves(p)
    BY <1>0, <1>2, <1>3, <1>5, FailingMoves
  <1> QED BY <1>4, <1>5 DEF ValidateSource

LEMMA ChooseTablesMoves ==
  ASSUME IInv, NEW p \in Programs, ChooseTables(p)
  PROVE  Moves(p)
  <1>0. /\ Shape /\ Knows(disk, run[p]) /\ run[p].pc = "tables" /\ disk' = disk
        /\ starts' = starts /\ Surroundings /\ lock' = lock
        /\ IsDisk(disk') /\ Tame(disk, disk')
    BY Known, Around, Still DEF ChooseTables, At
  <1>1. PICK pc \in {"load_manifest", "features"} : Goes(p, pc)
    BY DEF ChooseTables
  <1>2. /\ RunMoves(p) /\ run'[p].pc = pc
        /\ run'[p].number = run[p].number /\ run'[p].source = run[p].source
    BY <1>0, <1>1, Going
  <1>3. Settled(run[p].pc) /\ Settled(run'[p].pc)
    BY <1>0, <1>2 DEF Settled, Gone, Acquiring, Auditing
  <1>4. Knows(disk', run'[p])
    BY <1>0, <1>2, <1>3 DEF Knows, Loaded, Assigned, Ending
  <1> QED BY <1>0, <1>2, <1>3, <1>4, AdvancingMoves

LEMMA LoadManifestMoves ==
  ASSUME IInv, NEW p \in Programs, LoadManifest(p)
  PROVE  Moves(p)
  <1>0. /\ Shape /\ Knows(disk, run[p]) /\ run[p].pc = "load_manifest" /\ disk' = disk
        /\ starts' = starts /\ Surroundings /\ UNCHANGED <<lock, provider, trouble>>
        /\ IsDisk(disk') /\ Tame(disk, disk')
    BY Known, Around, Still DEF LoadManifest, At
  <1>1. Settled(run[p].pc)
    BY <1>0 DEF Settled, Gone, Acquiring, Auditing
  <1>2. lock' = IF lock = p THEN None ELSE lock
    BY <1>0, <1>1, Unlocked
  <1>3. ASSUME ~Missing(Processed), disk.dataManifest.source = disk.source,
               Goes(p, "load_tables")
        PROVE  Moves(p)
    <2>1. /\ RunMoves(p) /\ run'[p].pc = "load_tables"
          /\ run'[p].number = run[p].number /\ run'[p].source = run[p].source
      BY <1>0, <1>3, Going
    <2>2. Settled(run'[p].pc)
      BY <2>1 DEF Settled, Gone, Acquiring, Auditing
    <2>3. /\ disk.features # None /\ disk.targets # None /\ disk.schema # None
          /\ disk.dataManifest # None
      BY <1>3 DEF Missing, Processed
    <2>4. Sourced(disk) /\ run[p].source = disk.source
      BY <1>0, <1>1 DEF Knows
    <2>5. Built(disk)
      BY <1>3, <2>3, <2>4 DEF Built, Sourced, IInv, DiskOK
    <2>6. Knows(disk', run'[p])
      BY <1>0, <2>1, <2>4, <2>5 DEF Knows, Loaded, Assigned, Ending
    <2> QED BY <1>0, <1>1, <2>1, <2>2, <2>6, AdvancingMoves
  <1>4. ASSUME NEW cause, Fails(p, cause) PROVE Moves(p)
    BY <1>0, <1>2, <1>4, FailingMoves
  <1> QED BY <1>3, <1>4 DEF LoadManifest

LEMMA LoadTablesMoves ==
  ASSUME IInv, NEW p \in Programs, LoadTables(p)
  PROVE  Moves(p)
  <1>0. /\ Shape /\ Knows(disk, run[p]) /\ run[p].pc = "load_tables" /\ disk' = disk
        /\ starts' = starts /\ Surroundings /\ lock' = lock /\ IsLocal(run[p])
        /\ IsDisk(disk') /\ Tame(disk, disk')
    BY Known, Around, Still DEF LoadTables, At
  <1>1. Does(p, SettingTwo(run[p], "pc", "processed", "tables", Tables))
    BY DEF LoadTables, SettingTwo
  <1>a. /\ RunMoves(p) /\ run'[p].pc = "processed" /\ run'[p].tables = Tables
        /\ \A h \in LocalFields : h \notin {"pc", "tables"} => run'[p][h] = run[p][h]
    BY <1>0, <1>1, DoingTwo, Fields
  <1>2. /\ RunMoves(p) /\ run'[p].pc = "processed" /\ run'[p].tables = Tables
        /\ run'[p].number = run[p].number /\ run'[p].source = run[p].source
    BY <1>a, Fields
  <1>3. Settled(run[p].pc) /\ Settled(run'[p].pc)
    BY <1>0, <1>2 DEF Settled, Gone, Acquiring, Auditing
  <1>4. Sourced(disk) /\ Built(disk) /\ run[p].source = disk.source
    BY <1>0, <1>3 DEF Knows
  <1>5. /\ Tables.features = disk.raw /\ Tables.targets = disk.raw
        /\ Tables.manifest = ManifestOf(disk.source)
    BY <1>4 DEF Tables, Built
  <1>6. Knows(disk', run'[p])
    BY <1>0, <1>2, <1>4, <1>5 DEF Knows, Assigned, Ending
  <1> QED BY <1>0, <1>2, <1>3, <1>6, AdvancingMoves

LEMMA ChainFields ==
  /\ "raw" \in DiskFields /\ "source" \in DiskFields /\ "features" \in DiskFields
  /\ "targets" \in DiskFields /\ "schema" \in DiskFields /\ "dataManifest" \in DiskFields
  /\ "assignments" \in DiskFields /\ "splitManifest" \in DiskFields
  BY DEF DiskFields

LEMMA WriteTableMoves ==
  ASSUME IInv, NEW p \in Programs, WriteTable(p)
  PROVE  Moves(p)
  <1>0. /\ Shape /\ Knows(disk, run[p]) /\ starts' = starts /\ Surroundings
        /\ UNCHANGED <<lock, provider, trouble>>
    BY Known, Around DEF WriteTable
  <1>1. PICK f \in Writing :
          /\ run[p].pc = f
          /\ \/ Fails(p, "round_trip") /\ UNCHANGED disk
             \/ Writes(f, run[p].source.describes) /\ Goes(p, After[f])
    BY DEF WriteTable, At
  <1>2. Settled(run[p].pc)
    BY <1>1 DEF Writing, Settled, Gone, Acquiring, Auditing
  <1>3. Sourced(disk) /\ run[p].source = disk.source /\ run[p].source.describes = disk.raw
    BY <1>0, <1>2 DEF Knows, Sourced
  <1>4. lock' = IF lock = p THEN None ELSE lock
    BY <1>0, <1>2, Unlocked
  <1>5. CASE Fails(p, "round_trip") /\ UNCHANGED disk
    BY <1>0, <1>4, <1>5, Still, FailingMoves
  <1>6. CASE Writes(f, run[p].source.describes) /\ Goes(p, After[f])
    <2>1. /\ RunMoves(p) /\ run'[p].pc = After[f]
          /\ run'[p].number = run[p].number /\ run'[p].source = run[p].source
      BY <1>0, <1>6, Going
    <2>2. Settled(run'[p].pc)
      BY <2>1 DEF Writing, After, Settled, Gone, Acquiring, Auditing
    <2>3. Writing \subseteq DiskFields
      BY DEF Writing, DiskFields
    <2>4. /\ IsDisk(disk') /\ disk'[f] = disk.raw
          /\ \A g \in DiskFields : g # f => disk'[g] = disk[g]
      BY <1>0, <1>3, <1>6, <2>3, WritingField
    <2>5. /\ disk'.raw = disk.raw /\ disk'.source = disk.source
          /\ disk'.dataManifest = disk.dataManifest /\ disk'.assignments = disk.assignments
          /\ disk'.splitManifest = disk.splitManifest
      BY <2>4, ChainFields DEF Writing
    <2>6. CASE f = "features"
      <3>1. /\ disk'.features = disk.raw /\ disk'.targets = disk.targets
            /\ disk'.schema = disk.schema /\ run'[p].pc = "targets"
        BY <2>1, <2>4, <2>6, ChainFields DEF After
      <3>2. Tame(disk, disk')
        BY <1>3, <2>5, <3>1 DEF Tame
      <3>3. Knows(disk', run'[p])
        BY <1>3, <2>1, <2>5, <3>1 DEF Knows, Sourced, Loaded, Assigned, Ending
      <3> QED BY <1>0, <1>2, <2>1, <2>2, <2>4, <3>2, <3>3, AdvancingMoves
    <2>7. CASE f = "targets"
      <3>1. /\ disk'.targets = disk.raw /\ disk'.features = disk.features
            /\ disk'.schema = disk.schema /\ run'[p].pc = "schema"
        BY <2>1, <2>4, <2>7, ChainFields DEF After
      <3>2. Tame(disk, disk')
        BY <1>3, <2>5, <3>1 DEF Tame
      <3>3. Knows(disk', run'[p])
        BY <1>0, <1>1, <1>3, <2>1, <2>5, <2>7, <3>1 DEF Knows, Sourced, Loaded, Assigned, Ending
      <3> QED BY <1>0, <1>2, <2>1, <2>2, <2>4, <3>2, <3>3, AdvancingMoves
    <2>8. CASE f = "schema"
      <3>1. /\ disk'.schema = disk.raw /\ disk'.features = disk.features
            /\ disk'.targets = disk.targets /\ run'[p].pc = "data_manifest"
        BY <2>1, <2>4, <2>8, ChainFields DEF After
      <3>2. Tame(disk, disk')
        BY <1>3, <2>5, <3>1 DEF Tame
      <3>3. Knows(disk', run'[p])
        BY <1>0, <1>1, <1>3, <2>1, <2>5, <2>8, <3>1 DEF Knows, Sourced, Loaded, Assigned, Ending
      <3> QED BY <1>0, <1>2, <2>1, <2>2, <2>4, <3>2, <3>3, AdvancingMoves
    <2> QED BY <2>6, <2>7, <2>8 DEF Writing
  <1> QED BY <1>1, <1>5, <1>6

LEMMA WriteDataManifestMoves ==
  ASSUME IInv, NEW p \in Programs, WriteDataManifest(p)
  PROVE  Moves(p)
  <1> DEFINE manifest == [raw |-> run[p].source.describes, source |-> run[p].source,
                          features |-> disk.features, targets |-> disk.targets,
                          schema |-> disk.schema]
             tables == [features |-> run[p].source.describes,
                        targets |-> run[p].source.describes, manifest |-> manifest]
  <1>0. /\ Shape /\ IsLocal(run[p]) /\ Knows(disk, run[p]) /\ starts' = starts /\ Surroundings
        /\ lock' = lock /\ run[p].pc = "data_manifest"
    BY Known, Around DEF WriteDataManifest, At
  <1>1. Writes("dataManifest", manifest)
    BY DEF WriteDataManifest
  <1>2. Does(p, SettingTwo(run[p], "pc", "processed", "tables", tables))
    BY DEF WriteDataManifest, SettingTwo
  <1>3. Settled(run[p].pc)
    BY <1>0 DEF Settled, Gone, Acquiring, Auditing
  <1>4. /\ Sourced(disk) /\ run[p].source = disk.source /\ disk.source.describes = disk.raw
        /\ disk.features = disk.raw /\ disk.targets = disk.raw /\ disk.schema = disk.raw
    BY <1>0, <1>3 DEF Knows, Sourced
  <1>5. manifest = ManifestOf(disk.source)
    BY <1>4 DEF ManifestOf
  <1>6. /\ tables.features = disk.raw /\ tables.targets = disk.raw
        /\ tables.manifest = ManifestOf(disk.source)
    BY <1>4, <1>5
  <1> HIDE DEF manifest, tables
  <1>7. /\ RunMoves(p) /\ run'[p].pc = "processed" /\ run'[p].tables = tables
        /\ \A h \in LocalFields : h \notin {"pc", "tables"} => run'[p][h] = run[p][h]
    BY <1>0, <1>2, DoingTwo, Fields
  <1>8. run'[p].number = run[p].number /\ run'[p].source = run[p].source /\ Settled(run'[p].pc)
    BY <1>7, Fields DEF Settled, Gone, Acquiring, Auditing
  <1>9. /\ IsDisk(disk') /\ disk'.dataManifest = ManifestOf(disk.source)
        /\ \A g \in DiskFields : g # "dataManifest" => disk'[g] = disk[g]
    BY <1>0, <1>1, <1>5, WritingField, ChainFields
  <1>10. /\ disk'.raw = disk.raw /\ disk'.source = disk.source /\ disk'.features = disk.features
         /\ disk'.targets = disk.targets /\ disk'.schema = disk.schema
         /\ disk'.assignments = disk.assignments /\ disk'.splitManifest = disk.splitManifest
    BY <1>9, ChainFields
  <1>11. Tame(disk, disk')
    BY <1>4, <1>9, <1>10 DEF Tame
  <1>12. Sourced(disk') /\ Built(disk')
    BY <1>4, <1>9, <1>10 DEF Sourced, Built
  <1>13. Knows(disk', run'[p])
    BY <1>4, <1>6, <1>7, <1>8, <1>10, <1>12 DEF Knows, Assigned, Ending
  <1> QED BY <1>0, <1>3, <1>7, <1>8, <1>9, <1>11, <1>13, AdvancingMoves

LEMMA ValidateProcessedMoves ==
  ASSUME IInv, NEW p \in Programs, ValidateProcessed(p)
  PROVE  Moves(p)
  <1>0. /\ Shape /\ Knows(disk, run[p]) /\ run[p].pc = "processed"
        /\ starts' = starts /\ Surroundings /\ UNCHANGED <<lock, provider, trouble>>
    BY Known, Around DEF ValidateProcessed, At
  <1>1. Settled(run[p].pc)
    BY <1>0 DEF Settled, Gone, Acquiring, Auditing
  <1>2. IsDisk(disk') /\ Tame(disk, disk')
    <2>1. "quality" \in DiskFields \ Chain
      BY DEF DiskFields, Chain
    <2> QED BY <1>0, <2>1, WritingAside DEF ValidateProcessed
  <1>3. lock' = IF lock = p THEN None ELSE lock
    BY <1>0, <1>1, Unlocked
  <1>4. CASE Goes(p, "assign")
    <2>1. /\ RunMoves(p) /\ run'[p].pc = "assign" /\ run'[p].tables = run[p].tables
          /\ run'[p].number = run[p].number /\ run'[p].source = run[p].source
      BY <1>0, <1>4, Going
    <2>2. Settled(run'[p].pc)
      BY <2>1 DEF Settled, Gone, Acquiring, Auditing
    <2>3. Knows(disk', run[p])
      BY <1>0, <1>2, TameKeepsKnowledge
    <2>4. Knows(disk', run'[p])
      BY <1>0, <1>1, <2>1, <2>3 DEF Knows, Loaded, Assigned, Ending
    <2> QED BY <1>0, <1>1, <1>2, <2>1, <2>2, <2>4, AdvancingMoves
  <1>5. ASSUME NEW cause, Fails(p, cause) PROVE Moves(p)
    BY <1>0, <1>2, <1>3, <1>5, FailingMoves
  <1> QED BY <1>4, <1>5 DEF ValidateProcessed

LEMMA CheckAssignmentsMoves ==
  ASSUME IInv, NEW p \in Programs, CheckAssignments(p)
  PROVE  Moves(p)
  <1>0. /\ Shape /\ Knows(disk, run[p]) /\ run[p].pc = "assign" /\ disk' = disk
        /\ starts' = starts /\ Surroundings /\ UNCHANGED <<lock, provider, trouble>>
        /\ IsDisk(disk') /\ Tame(disk, disk')
    BY Known, Around, Still DEF CheckAssignments, At
  <1>1. Settled(run[p].pc)
    BY <1>0 DEF Settled, Gone, Acquiring, Auditing
  <1>2. Assignment(run[p].tables) = disk.raw
    BY <1>0 DEF Knows, Loaded, Assignment
  <1>3. lock' = IF lock = p THEN None ELSE lock
    BY <1>0, <1>1, Unlocked
  <1>4. CASE Goes(p, "write_assignments") /\ disk.assignments = None
    <2>1. /\ RunMoves(p) /\ run'[p].pc = "write_assignments" /\ run'[p].tables = run[p].tables
          /\ run'[p].number = run[p].number /\ run'[p].source = run[p].source
      BY <1>0, <1>4, Going
    <2>2. Settled(run'[p].pc)
      BY <2>1 DEF Settled, Gone, Acquiring, Auditing
    <2>3. Knows(disk', run'[p])
      BY <1>0, <1>1, <1>4, <2>1 DEF Knows, Loaded, Assigned, Ending
    <2> QED BY <1>0, <1>1, <2>1, <2>2, <2>3, AdvancingMoves
  <1>5. CASE Goes(p, "split") /\ disk.assignments = Assignment(run[p].tables)
    <2>1. /\ RunMoves(p) /\ run'[p].pc = "split" /\ run'[p].tables = run[p].tables
          /\ run'[p].number = run[p].number /\ run'[p].source = run[p].source
      BY <1>0, <1>5, Going
    <2>2. Settled(run'[p].pc)
      BY <2>1 DEF Settled, Gone, Acquiring, Auditing
    <2>3. Knows(disk', run'[p])
      BY <1>0, <1>1, <1>2, <1>5, <2>1 DEF Knows, Loaded, Assigned, Ending
    <2> QED BY <1>0, <1>1, <2>1, <2>2, <2>3, AdvancingMoves
  <1>6. ASSUME NEW cause, Fails(p, cause) PROVE Moves(p)
    BY <1>0, <1>3, <1>6, FailingMoves
  <1> QED BY <1>4, <1>5, <1>6 DEF CheckAssignments

LEMMA WriteAssignmentsMoves ==
  ASSUME IInv, NEW p \in Programs, WriteAssignments(p)
  PROVE  Moves(p)
  <1>0. /\ Shape /\ Knows(disk, run[p]) /\ run[p].pc = "write_assignments"
        /\ starts' = starts /\ Surroundings /\ lock' = lock
    BY Known, Around DEF WriteAssignments, At
  <1>1. Settled(run[p].pc)
    BY <1>0 DEF Settled, Gone, Acquiring, Auditing
  <1>2. /\ Assignment(run[p].tables) = disk.raw /\ disk.assignments \in {None, disk.raw}
        /\ Sourced(disk) /\ Built(disk)
    BY <1>0, <1>1 DEF Knows, Loaded, Assignment
  <1>3. /\ IsDisk(disk') /\ disk'.assignments = disk.raw
        /\ \A g \in DiskFields : g # "assignments" => disk'[g] = disk[g]
    BY <1>0, <1>2, WritingField, ChainFields DEF WriteAssignments
  <1>4. /\ disk'.raw = disk.raw /\ disk'.source = disk.source /\ disk'.features = disk.features
        /\ disk'.targets = disk.targets /\ disk'.schema = disk.schema
        /\ disk'.dataManifest = disk.dataManifest /\ disk'.splitManifest = disk.splitManifest
    BY <1>3, ChainFields
  <1>5. Tame(disk, disk')
    BY <1>2, <1>3, <1>4 DEF Tame
  <1>6. /\ RunMoves(p) /\ run'[p].pc = "split" /\ run'[p].tables = run[p].tables
        /\ run'[p].number = run[p].number /\ run'[p].source = run[p].source
    BY <1>0, Going DEF WriteAssignments
  <1>7. Settled(run'[p].pc)
    BY <1>6 DEF Settled, Gone, Acquiring, Auditing
  <1>8. Knows(disk', run[p])
    BY <1>0, <1>5, TameKeepsKnowledge
  <1>9. Knows(disk', run'[p])
    BY <1>0, <1>1, <1>3, <1>4, <1>6, <1>8 DEF Knows, Loaded, Assigned, Ending
  <1> QED BY <1>0, <1>1, <1>3, <1>5, <1>6, <1>7, <1>9, AdvancingMoves

LEMMA ReadSplitManifestMoves ==
  ASSUME IInv, NEW p \in Programs, ReadSplitManifest(p)
  PROVE  Moves(p)
  <1> DEFINE old == disk.splitManifest
             new == [assignments |-> disk.assignments, data |-> run[p].tables.manifest,
                     stamp |-> IF old = None THEN run[p].number ELSE old.stamp]
             pc == IF new = old THEN "summary" ELSE "write_split"
  <1>0. /\ Shape /\ Knows(disk, run[p]) /\ run[p].pc = "split" /\ disk' = disk
        /\ starts' = starts /\ Surroundings /\ lock' = lock /\ IsLocal(run[p])
        /\ IsDisk(disk') /\ Tame(disk, disk') /\ Serial(disk, run[p], starts)
    BY Known, Around, Still DEF ReadSplitManifest, At
  <1>1. Settled(run[p].pc)
    BY <1>0 DEF Settled, Gone, Acquiring, Auditing
  <1>2. /\ disk.assignments = disk.raw /\ Sourced(disk)
        /\ run[p].tables.manifest = ManifestOf(disk.source)
    BY <1>0, <1>1 DEF Knows, Loaded, Assigned
  <1>3. run[p].number \in 1..MaxStarts
    BY <1>0, <1>1, DataFoundationAssumption DEF Serial, Shape
  <1>4. old # None => old.stamp \in 1..MaxStarts
    BY DEF IInv, DiskOK, SplitManifests
  <1>5. (IF old = None THEN run[p].number ELSE old.stamp) \in 1..MaxStarts
    BY <1>3, <1>4
  <1>6. ManifestOf(disk.source) \in DataManifests /\ disk.raw \in Versions
    BY <1>2, ManifestFacts DEF Sourced
  <1>7. new \in SplitManifests
    BY <1>2, <1>5, <1>6 DEF SplitManifests
  <1>8. Fits(new, disk)
    BY <1>2, <1>7 DEF Fits
  <1>9. Does(p, SettingTwo(run[p], "pc", pc, "split", new))
    BY DEF ReadSplitManifest, SettingTwo
  <1>10. pc = "write_split" \/ (pc = "summary" /\ Fits(disk.splitManifest, disk))
    BY <1>8
  <1> HIDE DEF new, old, pc
  <1>11. /\ RunMoves(p) /\ run'[p].pc = pc /\ run'[p].split = new
         /\ \A h \in LocalFields : h \notin {"pc", "split"} => run'[p][h] = run[p][h]
    BY <1>0, <1>9, DoingTwo, Fields
  <1>12. /\ run'[p].number = run[p].number /\ run'[p].source = run[p].source
         /\ run'[p].tables = run[p].tables
    BY <1>11, Fields
  <1>13. Settled(run'[p].pc)
    BY <1>10, <1>11 DEF Settled, Gone, Acquiring, Auditing
  <1>14. Knows(disk', run'[p])
    BY <1>0, <1>1, <1>8, <1>10, <1>11, <1>12 DEF Knows, Loaded, Assigned, Ending
  <1> QED BY <1>0, <1>1, <1>11, <1>12, <1>13, <1>14, AdvancingMoves

LEMMA WriteSplitManifestMoves ==
  ASSUME IInv, NEW p \in Programs, WriteSplitManifest(p)
  PROVE  Moves(p)
  <1>0. /\ Shape /\ Knows(disk, run[p]) /\ run[p].pc = "write_split"
        /\ starts' = starts /\ Surroundings /\ lock' = lock
    BY Known, Around DEF WriteSplitManifest, At
  <1>1. Settled(run[p].pc)
    BY <1>0 DEF Settled, Gone, Acquiring, Auditing
  <1>2. Sourced(disk) /\ Fits(run[p].split, disk)
    BY <1>0, <1>1 DEF Knows
  <1>3. /\ IsDisk(disk') /\ disk'.splitManifest = run[p].split
        /\ \A g \in DiskFields : g # "splitManifest" => disk'[g] = disk[g]
    BY <1>0, WritingField, ChainFields DEF WriteSplitManifest
  <1>4. /\ disk'.raw = disk.raw /\ disk'.source = disk.source /\ disk'.features = disk.features
        /\ disk'.targets = disk.targets /\ disk'.schema = disk.schema
        /\ disk'.dataManifest = disk.dataManifest /\ disk'.assignments = disk.assignments
    BY <1>3, ChainFields
  <1>5. Tame(disk, disk')
    BY <1>2, <1>3, <1>4 DEF Tame
  <1>6. /\ RunMoves(p) /\ run'[p].pc = "summary" /\ run'[p].tables = run[p].tables
        /\ run'[p].number = run[p].number /\ run'[p].source = run[p].source
    BY <1>0, Going DEF WriteSplitManifest
  <1>7. Settled(run'[p].pc)
    BY <1>6 DEF Settled, Gone, Acquiring, Auditing
  <1>8. Knows(disk', run[p]) /\ Fits(disk'.splitManifest, disk')
    BY <1>0, <1>2, <1>3, <1>4, <1>5, TameKeepsKnowledge DEF Fits
  <1>9. Knows(disk', run'[p])
    BY <1>0, <1>1, <1>6, <1>8 DEF Knows, Loaded, Assigned, Ending
  <1> QED BY <1>0, <1>1, <1>3, <1>5, <1>6, <1>7, <1>9, AdvancingMoves

LEMMA AsideFields ==
  /\ "metadata" \in DiskFields \ Chain /\ "quality" \in DiskFields \ Chain
  /\ "summary" \in DiskFields \ Chain /\ "stage" \in DiskFields \ Chain
  /\ "tmp" \in DiskFields \ Chain /\ "parts" \in DiskFields \ Chain
  BY DEF DiskFields, Chain

LEMMA WriteSummaryMoves ==
  ASSUME IInv, NEW p \in Programs, WriteSummary(p)
  PROVE  Moves(p)
  <1> DEFINE kept == IF run[p].again THEN run[p].summary ELSE Summary
  <1>0. /\ Shape /\ IsLocal(run[p]) /\ Knows(disk, run[p]) /\ run[p].pc = "summary"
        /\ starts' = starts /\ Surroundings /\ lock' = lock
    BY Known, Around DEF WriteSummary, At
  <1>1. Does(p, SettingTwo(run[p], "pc", "pass", "summary", kept))
    BY DEF WriteSummary, SettingTwo
  <1>2. IsDisk(disk') /\ Tame(disk, disk')
    BY <1>0, AsideFields, WritingAside DEF WriteSummary
  <1> HIDE DEF kept
  <1>3. /\ RunMoves(p) /\ run'[p].pc = "pass"
        /\ \A h \in LocalFields : h \notin {"pc", "summary"} => run'[p][h] = run[p][h]
    BY <1>0, <1>1, DoingTwo, Fields
  <1>4. /\ run'[p].number = run[p].number /\ run'[p].source = run[p].source
        /\ run'[p].tables = run[p].tables
    BY <1>3, Fields
  <1>5. Settled(run[p].pc) /\ Settled(run'[p].pc)
    BY <1>0, <1>3 DEF Settled, Gone, Acquiring, Auditing
  <1>6. Knows(disk', run[p])
    BY <1>0, <1>2, TameKeepsKnowledge
  <1>7. Knows(disk', run'[p])
    BY <1>0, <1>3, <1>4, <1>5, <1>6 DEF Knows, Loaded, Assigned, Ending
  <1> QED BY <1>0, <1>2, <1>3, <1>4, <1>5, <1>7, AdvancingMoves

\* The second run of a program keeps its number, what the first one found, and
\* the summary of the first.
LEMMA RunningAgain ==
  ASSUME Shape, NEW p \in Programs, WritePass(p), ~Offline(p)
  PROVE  /\ RunMoves(p) /\ run'[p].pc = "acquire" /\ run'[p].again
         /\ run'[p].number = run[p].number /\ run'[p].summary = run[p].summary
         /\ run'[p].flags = run[p].flags /\ run'[p].first = Outcome(p)
         /\ run'[p].cause = "none"
  <1> DEFINE half == SettingThree(Idle, "pc", "acquire", "flags", run[p].flags, "again", TRUE)
             whole == SettingThree(half, "number", run[p].number, "first", Outcome(p),
                                   "summary", run[p].summary)
  <1>1. Does(p, whole)
    BY DEF WritePass, SettingThree
  <1> HIDE DEF half
  <1>2. /\ IsLocal(half) /\ half.pc = "acquire" /\ half.again = TRUE
        /\ half.flags = run[p].flags /\ half.cause = Idle.cause
    <2>1. ASSUME NEW flags, NEW b
          PROVE  LET s == SettingThree(Idle, "pc", "acquire", "flags", flags, "again", b) IN
                 /\ IsLocal(s) /\ s.pc = "acquire" /\ s.again = b
                 /\ s.flags = flags /\ s.cause = Idle.cause
      <3>1. /\ "pc" \in LocalFields /\ "flags" \in LocalFields /\ "again" \in LocalFields
            /\ "pc" # "flags" /\ "pc" # "again" /\ "flags" # "again"
            /\ "cause" \in LocalFields /\ "cause" \notin {"pc", "flags", "again"}
        BY Fields
      <3> QED BY <3>1, IdleIsLocal, SetThree
    <2> QED BY <2>1, Zenon DEF half
  <1>3. /\ RunMoves(p) /\ run'[p].number = run[p].number /\ run'[p].summary = run[p].summary
        /\ run'[p].first = Outcome(p)
        /\ \A i \in LocalFields : i \notin {"number", "first", "summary"} =>
             run'[p][i] = half[i]
    BY <1>1, <1>2, DoingThree, Fields
  <1>4. /\ run'[p].pc = half.pc /\ run'[p].again = half.again
        /\ run'[p].flags = half.flags /\ run'[p].cause = half.cause
    BY <1>3, Fields
  <1>5. Idle.cause = "none"
    BY DEF Idle
  <1> QED BY <1>2, <1>3, <1>4, <1>5

LEMMA WritePassMoves ==
  ASSUME IInv, NEW p \in Programs, WritePass(p)
  PROVE  Moves(p)
  <1>0. /\ Shape /\ Knows(disk, run[p]) /\ run[p].pc = "pass" /\ Serial(disk, run[p], starts)
        /\ starts' = starts /\ Surroundings /\ lock' = lock
    BY Known, Around DEF WritePass, At
  <1>1. Settled(run[p].pc)
    BY <1>0 DEF Settled, Gone, Acquiring, Auditing
  <1>2. IsDisk(disk') /\ Tame(disk, disk')
    BY <1>0, AsideFields, WritingAside DEF WritePass
  <1>3. CASE Offline(p)
    <2>1. /\ RunMoves(p) /\ run'[p].pc = "finish" /\ run'[p].tables = run[p].tables
          /\ run'[p].number = run[p].number /\ run'[p].source = run[p].source
      BY <1>0, <1>3, Going DEF WritePass
    <2>2. Settled(run'[p].pc)
      BY <2>1 DEF Settled, Gone, Acquiring, Auditing
    <2>3. Knows(disk', run[p])
      BY <1>0, <1>2, TameKeepsKnowledge
    <2>4. Knows(disk', run'[p])
      BY <1>0, <1>1, <2>1, <2>3 DEF Knows, Loaded, Assigned, Ending
    <2> QED BY <1>0, <1>1, <1>2, <2>1, <2>2, <2>4, AdvancingMoves
  <1>4. CASE ~Offline(p)
    <2>1. /\ RunMoves(p) /\ run'[p].pc = "acquire" /\ run'[p].again
          /\ run'[p].number = run[p].number
      BY <1>0, <1>4, RunningAgain
    <2>2. Knows(disk', run'[p])
      BY <2>1 DEF Knows, Settled, Loaded, Assigned, Ending, Acquiring
    <2>3. lock' = IF lock = p THEN None ELSE lock
      BY <1>0, <1>1, Unlocked
    <2>4. LockMoves(p)
      BY <2>1, <2>3 DEF LockMoves, Downloading, Settled, Acquiring
    <2>5. NumberMoves(p)
      BY <1>0, <1>1, <2>1 DEF NumberMoves, Serial, Downloading, Acquiring
    <2> QED BY <1>0, <1>2, <2>1, <2>2, <2>4, <2>5 DEF Moves
  <1> QED BY <1>3, <1>4

LEMMA WriteFailureMoves ==
  ASSUME IInv, NEW p \in Programs, WriteFailure(p)
  PROVE  Moves(p)
  <1>1. /\ Shape /\ Surroundings /\ starts' = starts /\ Retires(p)
        /\ IsDisk(disk') /\ Tame(disk, disk')
    BY Known, Around, AsideFields, WritingAside, BecomingIdle DEF WriteFailure
  <1>2. lock' = IF lock = p THEN None ELSE lock
    BY Unlocked DEF WriteFailure, At, Gone
  <1> QED BY <1>1, <1>2, RetiringMoves

LEMMA FinishMoves ==
  ASSUME IInv, NEW p \in Programs, Finish(p)
  PROVE  Moves(p)
  <1>1. /\ Shape /\ UNCHANGED <<provider, trouble>> /\ starts' = starts
        /\ IsDisk(disk') /\ Tame(disk, disk') /\ \E cause : Leaves(p, cause)
    BY Known, AsideFields, WritingAside DEF Finish
  <1>2. Settled(run[p].pc) /\ lock' = lock
    BY DEF Finish, At, Settled, Gone, Acquiring, Auditing
  <1> QED BY <1>1, <1>2, Unlocked, FailingMoves

LEMMA CheckSplitEvidenceMoves ==
  ASSUME IInv, NEW p \in Programs, CheckSplitEvidence(p)
  PROVE  Moves(p)
  <1>1. /\ Shape /\ IsLocal(run[p]) /\ UNCHANGED <<provider, trouble>> /\ Surroundings
        /\ starts' = starts
    BY Known, Around DEF CheckSplitEvidence
  <1>2. lock' = IF lock = p THEN None ELSE lock
    BY Unlocked DEF CheckSplitEvidence, At, Auditing
  <1>3. IsDisk(disk') /\ Tame(disk, disk')
    BY <1>1, AsideFields, WritingAside, Still DEF CheckSplitEvidence, Raises
  <1>4. ASSUME NEW cause, Raises(p, cause)
        PROVE  Moves(p)
    BY <1>1, <1>2, <1>3, <1>4, FailingMoves DEF Raises
  <1>5. ASSUME Does(p, [run[p] EXCEPT !.pc = "audit_gates", !.split = disk.splitManifest])
        PROVE  Moves(p)
    <2>1. Does(p, SettingTwo(run[p], "pc", "audit_gates", "split", disk.splitManifest))
      BY <1>5 DEF SettingTwo
    <2>2. /\ RunMoves(p) /\ run'[p].pc = "audit_gates"
          /\ \A h \in LocalFields : h \notin {"pc", "split"} => run'[p][h] = run[p][h]
      BY <1>1, <2>1, DoingTwo, Fields
    <2>3. run'[p].number = run[p].number /\ run'[p].pc \in Gone \cup Auditing
      BY <2>2, Fields DEF Auditing
    <2> QED BY <1>1, <1>2, <1>3, <2>2, <2>3, AsideMoves
  <1> QED BY <1>4, <1>5 DEF CheckSplitEvidence

LEMMA JudgeGatesMoves ==
  ASSUME IInv, NEW p \in Programs, JudgeGates(p)
  PROVE  Moves(p)
  <1>1. /\ Shape /\ UNCHANGED <<provider, trouble>> /\ Surroundings /\ starts' = starts
        /\ IsDisk(disk') /\ Tame(disk, disk')
    BY Known, Around, Still DEF JudgeGates
  <1>2. lock' = IF lock = p THEN None ELSE lock
    BY Unlocked DEF JudgeGates, At, Auditing
  <1>3. ASSUME NEW cause, Leaves(p, cause)
        PROVE  Moves(p)
    BY <1>1, <1>2, <1>3, FailingMoves
  <1>4. ASSUME NEW cause,
               Does(p, [Idle EXCEPT !.pc = "audit_back", !.content = disk.stage, !.cause = cause])
        PROVE  Moves(p)
    <2>1. Does(p, SettingThree(Idle, "pc", "audit_back", "content", disk.stage, "cause", cause))
      BY <1>4 DEF SettingThree
    <2>2. /\ RunMoves(p) /\ run'[p].pc = "audit_back"
          /\ \A h \in LocalFields : h \notin {"pc", "content", "cause"} => run'[p][h] = Idle[h]
      BY <1>1, <2>1, IdleIsLocal, DoingThree, Fields
    <2>3. run'[p].number = Idle.number /\ run'[p].pc \in Gone \cup Auditing
      BY <2>2, Fields DEF Auditing
    <2>4. Idle.number = 0
      BY DEF Idle
    <2> QED BY <1>1, <1>2, <2>2, <2>3, <2>4, AsideMoves
  <1> QED BY <1>3, <1>4 DEF JudgeGates

LEMMA WriteStageBackMoves ==
  ASSUME IInv, NEW p \in Programs, WriteStageBack(p)
  PROVE  Moves(p)
  <1>1. /\ Shape /\ UNCHANGED <<provider, trouble>> /\ starts' = starts
        /\ IsDisk(disk') /\ Tame(disk, disk')
    BY Known, AsideFields, WritingAside DEF WriteStageBack
  <1>2. lock' = IF lock = p THEN None ELSE lock
    BY Unlocked DEF WriteStageBack, At, Auditing
  <1> QED BY <1>1, <1>2, FailingMoves DEF WriteStageBack

LEMMA ValidateLegacySmokeMoves ==
  ASSUME IInv, NEW p \in Programs, ValidateLegacySmoke(p)
  PROVE  Moves(p)
  <1>1. lock' = IF lock = p THEN None ELSE lock
    BY Unlocked DEF ValidateLegacySmoke, At, Auditing
  <1> QED BY <1>1, Known, Still, FailingMoves DEF ValidateLegacySmoke

LEMMA ExitMoves ==
  ASSUME IInv, NEW p \in Programs, Exit(p)
  PROVE  Moves(p)
  <1>1. lock' = IF lock = p THEN None ELSE lock
    BY Unlocked DEF Exit, At, Gone
  <1> QED BY <1>1, Known, Still, Around, BecomingIdle, RetiringMoves DEF Exit

LEMMA DieMoves ==
  ASSUME IInv, NEW p \in Programs, Die(p)
  PROVE  Moves(p)
  <1>1. /\ Shape /\ starts' = starts /\ Retires(p)
        /\ lock' = IF lock = p THEN None ELSE lock
    BY Known, BecomingIdle DEF Die
  <1>2. IsDisk(disk') /\ Tame(disk, disk')
    BY <1>1, AsideFields, WritingAside, Still DEF Die
  <1>3. Surroundings
    BY <1>1 DEF Die, Trouble, Shape, Surroundings
  <1> QED BY <1>1, <1>2, <1>3, RetiringMoves

-----------------------------------------------------------------------------
(* Starting a program, and the steps that change what is described.           *)

LEMMA StartingKeeps ==
  ASSUME IInv, NEW p \in Programs, run[p].pc = "idle", RunMoves(p),
         starts < MaxStarts, starts' = starts + 1, UNCHANGED <<disk, provider, lock, trouble>>,
         run'[p].pc \in {"acquire"} \cup Gone \cup Auditing,
         run'[p].number \in {0, starts + 1},
         run'[p].pc = "acquire" => run'[p].number = starts + 1
  PROVE  IInv'
  <1>1. /\ starts \in Nat /\ MaxStarts \in Nat /\ starts' \in 0..MaxStarts
    BY DataFoundationAssumption DEF IInv, Shape
  <1>2. Shape'
    BY <1>1 DEF IInv, Shape, RunMoves
  <1>3. run'[p].pc \notin Downloading /\ ~Settled(run'[p].pc)
    BY DEF Gone, Auditing, Downloading, Settled, Acquiring
  <1>4. run[p].pc \notin Downloading
    BY DEF Downloading
  <1>5. Locked'
    BY <1>3, <1>4 DEF IInv, Locked, RunMoves
  <1>6. ASSUME NEW q \in Programs PROVE Knows(disk', run'[q])
    <2>1. CASE q = p
      BY <1>3, <2>1 DEF Knows, Settled, Gone, Auditing, Loaded, Assigned, Ending, Acquiring
    <2>2. CASE q # p
      BY <2>2 DEF RunMoves, IInv, AllKnow
    <2> QED BY <2>1, <2>2
  <1>7. DiskOK(disk', starts')
    <2>1. /\ disk.source # None => disk.source.stamp \in Nat
          /\ disk.dataManifest # None => disk.dataManifest.source.stamp \in Nat
      BY DEF IInv, DiskOK, SourceManifests, DataManifests
    <2> QED BY <1>1, <2>1 DEF IInv, DiskOK
  <1>8. ASSUME NEW q \in Programs PROVE Serial(disk', run'[q], starts')
    <2>1. CASE q = p
      <3>1. /\ disk.source # None => disk.source.stamp # starts + 1
            /\ disk.dataManifest # None => disk.dataManifest.source.stamp # starts + 1
        <4>1. /\ disk.source # None => disk.source.stamp \in Nat
              /\ disk.dataManifest # None => disk.dataManifest.source.stamp \in Nat
          BY DEF IInv, DiskOK, SourceManifests, DataManifests
        <4> QED BY <1>1, <4>1 DEF IInv, DiskOK
      <3>2. run'[p].pc \in Acquiring => run'[p].pc = "acquire"
        BY DEF Acquiring, Gone, Auditing
      <3>3. run'[p].number \in 0..(starts + 1)
        BY <1>1
      <3>4. run'[p].pc \in Acquiring => run'[p].number = starts + 1
        BY <3>2
      <3>5. starts + 1 # 0
        BY <1>1
      <3> QED BY <1>3, <2>1, <3>1, <3>3, <3>4, <3>5 DEF Serial
    <2>2. CASE q # p
      <3>1. Serial(disk, run[q], starts) /\ run'[q] = run[q]
        BY <2>2 DEF RunMoves, IInv, AllSerial
      <3>2. run[q].number \in 0..starts'
        BY <1>1, <3>1 DEF Serial
      <3> QED BY <3>1, <3>2 DEF Serial
    <2> QED BY <2>1, <2>2
  <1>9. Distinct'
    <2>1. \A q \in Programs : run[q].number \in 0..starts
      BY DEF IInv, AllSerial, Serial
    <2>2. \A q \in Programs : run[q].number # starts + 1
      BY <1>1, <2>1
    <2>3. ASSUME NEW a \in Programs, NEW b \in Programs, a # b, run'[a].number # 0
          PROVE  run'[a].number # run'[b].number
      <3>1. CASE a = p
        BY <2>2, <2>3, <3>1 DEF RunMoves
      <3>2. CASE b = p
        BY <2>2, <2>3, <3>2 DEF RunMoves
      <3>3. CASE a # p /\ b # p
        BY <2>3, <3>3 DEF RunMoves, IInv, Distinct
      <3> QED BY <3>1, <3>2, <3>3
    <2> QED BY <2>3 DEF Distinct
  <1> QED BY <1>2, <1>5, <1>6, <1>7, <1>8, <1>9 DEF IInv, AllKnow, AllSerial

LEMMA StartPreparationKeeps ==
  ASSUME IInv, NEW p \in Programs, StartPreparation(p)
  PROVE  IInv'
  <1>0. Shape
    BY Known
  <1> DEFINE next == starts + 1
  <1>1. PICK flags \in Invocations :
          Does(p, SettingThree(Idle, "pc", "acquire", "flags", flags, "number", next))
    BY DEF StartPreparation, SettingThree
  <1>2. "pc" # "flags" /\ "pc" # "number" /\ "flags" # "number"
    OBVIOUS
  <1> HIDE DEF next
  <1> DEFINE s == SettingThree(Idle, "pc", "acquire", "flags", flags, "number", next)
  <1>3. IsLocal(s) /\ s["pc"] = "acquire" /\ s["number"] = next
    BY <1>2, IdleIsLocal, SetThree, Fields
  <1> HIDE DEF s
  <1>4. RunMoves(p) /\ run'[p] = s
    BY <1>0, <1>1, <1>3, Doing DEF s
  <1>5. run'[p].pc = "acquire" /\ run'[p].number = starts + 1
    BY <1>3, <1>4 DEF next
  <1> QED BY <1>4, <1>5, StartingKeeps DEF StartPreparation, Active

LEMMA StartAuditKeeps ==
  ASSUME IInv, NEW p \in Programs, StartAudit(p)
  PROVE  IInv'
  <1>0. Shape
    BY Known
  <1>1. CASE Leaves(p, "missing")
    BY <1>0, <1>1, Leaving, StartingKeeps DEF StartAudit, Active, Leaves, Retires, Gone
  <1>2. CASE Does(p, [Idle EXCEPT !.pc = "audit_split", !.source = disk.source,
                                  !.number = starts + 1, !.tables = Tables])
    <2> DEFINE half == SettingTwo(Idle, "source", disk.source, "tables", Tables)
               next == starts + 1
    <2>1. Does(p, SettingTwo(half, "pc", "audit_split", "number", next))
      BY <1>2 DEF SettingTwo
    <2>2. IsLocal(half)
      BY IdleIsLocal, SetTwo, Fields
    <2>3. "pc" # "number"
      OBVIOUS
    <2> HIDE DEF half, next
    <2> DEFINE s == SettingTwo(half, "pc", "audit_split", "number", next)
    <2>4. IsLocal(s) /\ s["pc"] = "audit_split" /\ s["number"] = next
      BY <2>2, <2>3, SetTwo, Fields
    <2> HIDE DEF s
    <2>5. RunMoves(p) /\ run'[p] = s
      BY <1>0, <2>1, <2>4, Doing DEF s
    <2>6. run'[p].pc = "audit_split" /\ run'[p].number = starts + 1
      BY <2>4, <2>5 DEF next
    <2> QED BY <2>5, <2>6, StartingKeeps DEF StartAudit, Active, Auditing
  <1> QED BY <1>1, <1>2 DEF StartAudit

LEMMA StartLegacyCheckKeeps ==
  ASSUME IInv, NEW p \in Programs, StartLegacyCheck(p)
  PROVE  IInv'
  <1>0. Shape
    BY Known
  <1>1. CASE Leaves(p, "missing")
    BY <1>0, <1>1, Leaving, StartingKeeps DEF StartLegacyCheck, Active, Leaves, Retires, Gone
  <1>2. CASE Does(p, [Idle EXCEPT !.pc = "legacy", !.source = disk.source, !.tables = Tables])
    <2>1. Does(p, SettingThree(Idle, "pc", "legacy", "source", disk.source, "tables", Tables))
      BY <1>2 DEF SettingThree
    <2>a. "pc" # "source" /\ "pc" # "tables" /\ "source" # "tables"
      OBVIOUS
    <2> DEFINE s == SettingThree(Idle, "pc", "legacy", "source", disk.source, "tables", Tables)
    <2>b. /\ IsLocal(s) /\ s["pc"] = "legacy"
          /\ \A i \in LocalFields : i \notin {"pc", "source", "tables"} => s[i] = Idle[i]
      BY <2>a, IdleIsLocal, SetThree, Fields
    <2> HIDE DEF s
    <2>2. RunMoves(p) /\ run'[p] = s /\ run'[p].pc = "legacy"
      BY <1>0, <2>1, <2>b, Doing DEF s
    <2>3. run'[p].number = Idle.number /\ Idle.number = 0
      BY <2>2, <2>b, Fields DEF Idle
    <2> QED BY <2>2, <2>3, StartingKeeps DEF StartLegacyCheck, Active, Auditing
  <1> QED BY <1>1, <1>2 DEF StartLegacyCheck

\* Whoever downloads is alone: nobody else knows anything of the files.
LEMMA Alone ==
  ASSUME IInv, NEW p \in Programs, run[p].pc \in Downloading
  PROVE  /\ lock = p /\ None \notin Programs
         /\ \A q \in Programs : q # p => run[q].pc \notin Downloading /\ ~Settled(run[q].pc)
         /\ \A q \in Programs : \A d : q # p => Knows(d, run[q])
  <1>1. lock = p /\ None \notin Programs
    BY DataFoundationAssumption DEF IInv, Locked
  <1>2. \A q \in Programs : q # p => run[q].pc \notin Downloading /\ ~Settled(run[q].pc)
    BY <1>1 DEF IInv, Locked
  <1>3. ASSUME NEW q \in Programs, NEW d, q # p PROVE Knows(d, run[q])
    BY <1>2, <1>3 DEF Knows, Settled, Downloading, Gone, Acquiring, Auditing, Loaded, Assigned,
       Ending
  <1> QED BY <1>1, <1>2, <1>3

LEMMA PromoteKeeps ==
  ASSUME IInv, NEW p \in Programs, Promote(p)
  PROVE  IInv'
  <1>0. /\ Shape /\ Knows(disk, run[p]) /\ run[p].pc = "promote" /\ Serial(disk, run[p], starts)
        /\ starts' = starts /\ Surroundings /\ UNCHANGED <<provider, trouble>>
    BY Known, Around DEF Promote, At
  <1>1. run[p].pc \in Downloading /\ run[p].pc \in Acquiring
    BY <1>0 DEF Downloading, Acquiring
  <1>2. run[p].content \in Versions /\ run[p].md5 \in {None, run[p].content}
    BY <1>0 DEF Knows
  <1>3. ASSUME Goes(p, "describe"), lock' = lock
        PROVE  /\ RunMoves(p) /\ LockMoves(p) /\ NumberMoves(p)
               /\ run'[p].pc = "describe" /\ run'[p].md5 = run[p].md5
               /\ run'[p].number = run[p].number /\ run'[p].again = run[p].again
    <2>1. /\ RunMoves(p) /\ run'[p].pc = "describe" /\ run'[p].number = run[p].number
          /\ run'[p].again = run[p].again /\ run'[p].md5 = run[p].md5
      BY <1>0, <1>3, Going
    <2>2. LockMoves(p)
      BY <1>1, <1>3, <2>1, Alone DEF LockMoves, Downloading, Settled, Acquiring
    <2>3. NumberMoves(p)
      BY <1>0, <1>1, <2>1 DEF NumberMoves, Serial
    <2> QED BY <2>1, <2>2, <2>3
  <1>4. CASE disk.raw = run[p].content /\ Goes(p, "describe") /\ UNCHANGED <<disk, lock>>
    <2>1. Knows(disk', run'[p])
      BY <1>2, <1>3, <1>4 DEF Knows, Settled, Acquiring, Loaded, Assigned, Ending
    <2> QED BY <1>0, <1>3, <1>4, <2>1, Still, MovesKeep DEF Moves
  <1>5. CASE Fails(p, "integrity") /\ lock' = None /\ UNCHANGED disk
    BY <1>0, <1>1, <1>5, Alone, Still, FailingMoves, MovesKeep
  <1>6. CASE /\ disk.raw = None /\ Writes("raw", run[p].content)
             /\ Goes(p, "describe") /\ UNCHANGED lock
    <2>1. /\ IsDisk(disk') /\ disk'.raw = run[p].content
          /\ \A g \in DiskFields : g # "raw" => disk'[g] = disk[g]
      BY <1>0, <1>6, WritingField, ChainFields
    <2>2. /\ disk'.source = disk.source /\ disk'.features = disk.features
          /\ disk'.targets = disk.targets /\ disk'.schema = disk.schema
          /\ disk'.dataManifest = disk.dataManifest /\ disk'.splitManifest = disk.splitManifest
      BY <2>1, ChainFields
    <2>3. Shape'
      BY <1>0, <1>3, <1>6, <2>1 DEF Shape, RunMoves, Surroundings
    <2>4. Locked'
      BY <1>3, <1>6, MovesKeepLock
    <2>5. ASSUME NEW q \in Programs PROVE Knows(disk', run'[q])
      <3>1. CASE q = p
        BY <1>2, <1>3, <1>6, <2>1, <3>1 DEF Knows, Settled, Acquiring, Loaded, Assigned, Ending
      <3>2. CASE q # p
        BY <1>1, <1>3, <1>6, <3>2, Alone DEF RunMoves
      <3> QED BY <3>1, <3>2
    <2>6. ASSUME NEW q \in Programs PROVE Serial(disk', run'[q], starts')
      <3>1. Serial(disk', run[q], starts)
        BY <2>2 DEF IInv, AllSerial, Serial
      <3>2. CASE q = p
        BY <1>0, <1>1, <1>3, <1>6, <3>1, <3>2 DEF Serial
      <3>3. CASE q # p
        BY <1>0, <1>3, <1>6, <3>1, <3>3 DEF RunMoves
      <3> QED BY <3>2, <3>3
    <2>7. Distinct'
      BY <1>3, <1>6 DEF RunMoves, NumberMoves, IInv, Distinct
    <2>8. DiskOK(disk', starts')
      BY <1>0, <1>2, <2>1, <2>2 DEF IInv, DiskOK
    <2> QED BY <2>3, <2>4, <2>5, <2>6, <2>7, <2>8 DEF IInv, AllKnow, AllSerial
  <1> QED BY <1>4, <1>5, <1>6 DEF Promote

LEMMA WriteSourceKeeps ==
  ASSUME IInv, NEW p \in Programs, WriteSource(p)
  PROVE  IInv'
  <1> DEFINE manifest == [describes |-> disk.raw, provider |-> run[p].md5,
                          stamp |-> run[p].number]
  <1>0. /\ Shape /\ Knows(disk, run[p]) /\ run[p].pc = "describe" /\ Serial(disk, run[p], starts)
        /\ starts' = starts /\ Surroundings /\ IsLocal(run[p]) /\ lock' = None
    BY Known, Around DEF WriteSource, At
  <1>1. run[p].pc \in Downloading /\ run[p].pc \in Acquiring
    BY <1>0 DEF Downloading, Acquiring
  <1>2. disk.raw \in Versions /\ run[p].md5 \in {None, disk.raw}
    BY <1>0 DEF Knows
  <1>3. run[p].number \in 1..MaxStarts /\ run[p].number \in 0..starts
    BY <1>0, <1>1, DataFoundationAssumption DEF Serial, Shape
  <1>4. /\ manifest \in SourceManifests /\ manifest.describes = disk.raw
        /\ manifest.provider = run[p].md5 /\ manifest.stamp = run[p].number
    BY <1>2, <1>3 DEF SourceManifests
  <1>5. Writes("source", manifest)
    BY DEF WriteSource
  <1>6. /\ RunMoves(p) /\ run'[p].pc = "validate" /\ run'[p].source = manifest
        /\ run'[p].number = run[p].number
    <2> DEFINE half == SettingTwo(run[p], "pc", "validate", "source", manifest)
    <2>1. Does(p, SettingTwo(half, "md5", None, "content", None))
      BY DEF WriteSource, SettingTwo
    <2> HIDE DEF manifest
    <2>2. /\ IsLocal(half) /\ half.pc = "validate" /\ half.source = manifest
          /\ \A h \in LocalFields : h \notin {"pc", "source"} => half[h] = run[p][h]
      BY <1>0, SetTwo, Fields
    <2> HIDE DEF half
    <2>3. /\ RunMoves(p)
          /\ \A h \in LocalFields : h \notin {"md5", "content"} => run'[p][h] = half[h]
      BY <1>0, <2>1, <2>2, DoingTwo, Fields
    <2>4. half.number = run[p].number
      BY <2>2, Fields
    <2>5. run'[p].pc = half.pc /\ run'[p].source = half.source /\ run'[p].number = half.number
      BY <2>3, Fields
    <2> QED BY <2>2, <2>3, <2>4, <2>5
  <1> HIDE DEF manifest
  <1>7. /\ IsDisk(disk') /\ disk'.source = manifest
        /\ \A g \in DiskFields : g # "source" => disk'[g] = disk[g]
    BY <1>0, <1>5, WritingField, ChainFields
  <1>8. /\ disk'.raw = disk.raw /\ disk'.features = disk.features
        /\ disk'.targets = disk.targets /\ disk'.schema = disk.schema
        /\ disk'.dataManifest = disk.dataManifest /\ disk'.splitManifest = disk.splitManifest
    BY <1>7, ChainFields
  <1>9. /\ Settled(run'[p].pc) /\ run'[p].pc \notin Acquiring /\ run'[p].pc \notin Downloading
    BY <1>6 DEF Settled, Gone, Acquiring, Auditing, Downloading
  <1>10. Shape'
    BY <1>0, <1>6, <1>7 DEF Shape, RunMoves, Surroundings
  <1>11. Locked'
    <2>1. LockMoves(p)
      BY <1>0, <1>1, <1>9, Alone DEF LockMoves
    <2> QED BY <1>6, <2>1, MovesKeepLock
  <1>12. ASSUME NEW q \in Programs PROVE Knows(disk', run'[q])
    <2>1. CASE q = p
      <3>1. Sourced(disk') /\ run'[p].source = disk'.source
        BY <1>2, <1>4, <1>6, <1>7, <1>8 DEF Sourced
      <3> QED BY <1>6, <2>1, <3>1 DEF Knows, Loaded, Assigned, Ending
    <2>2. CASE q # p
      BY <1>1, <1>6, <2>2, Alone DEF RunMoves
    <2> QED BY <2>1, <2>2
  <1>13. ASSUME NEW q \in Programs PROVE Serial(disk', run'[q], starts')
    <2>1. CASE q = p
      BY <1>0, <1>1, <1>6, <1>9, <2>1 DEF Serial
    <2>2. CASE q # p
      <3>1. Serial(disk, run[q], starts) /\ run'[q] = run[q] /\ run[p].number # run[q].number
        BY <1>0, <1>1, <1>6, <2>2 DEF RunMoves, IInv, AllSerial, Distinct, Serial
      <3> QED BY <1>0, <1>4, <1>7, <1>8, <3>1 DEF Serial
    <2> QED BY <2>1, <2>2
  <1>14. Distinct'
    BY <1>6 DEF RunMoves, IInv, Distinct
  <1>15. DiskOK(disk', starts')
    <2>1. disk.dataManifest # None => disk.dataManifest.source # manifest
      BY <1>0, <1>1, <1>4 DEF Serial
    <2>2. manifest.stamp <= starts
      BY <1>3, <1>4
    <2> QED BY <1>0, <1>2, <1>4, <1>7, <1>8, <2>1, <2>2 DEF IInv, DiskOK
  <1> QED BY <1>10, <1>11, <1>12, <1>13, <1>14, <1>15 DEF IInv, AllKnow, AllSerial

\* While no program is active nothing is known, and only the files must stay
\* consistent in themselves.
LEMMA ChangeIsCounted ==
  ASSUME Shape, Trouble("changes")
  PROVE  /\ trouble' = [deaths |-> trouble'.deaths, changes |-> trouble'.changes]
         /\ trouble'.changes = trouble.changes + 1 /\ trouble.changes \in Nat
  <1> DEFINE more == trouble.changes + 1
  <1>1. trouble' = [trouble EXCEPT !["changes"] = more]
    BY DEF Trouble
  <1>2. /\ trouble = [deaths |-> trouble.deaths, changes |-> trouble.changes]
        /\ trouble.changes \in Nat
    BY DEF Shape
  <1> HIDE DEF more
  <1>3. trouble' = [deaths |-> trouble.deaths, changes |-> more]
    BY <1>1, <1>2
  <1> QED BY <1>2, <1>3 DEF more

LEMMA OperatorKeeps ==
  ASSUME IInv, \A p \in Programs : ~Active(p), Trouble("changes"), IsDisk(disk'),
         UNCHANGED <<run, provider, lock, starts>>, DiskOK(disk', starts)
  PROVE  IInv'
  <1>1. \A p \in Programs : run[p].pc = "idle"
    BY DEF Active
  <1>2. Shape'
    <2>1. /\ trouble' = [deaths |-> trouble'.deaths, changes |-> trouble'.changes]
          /\ trouble'.changes \in Nat
      BY ChangeIsCounted DEF IInv
    <2> QED BY <2>1 DEF IInv, Shape
  <1>3. Locked' /\ Distinct'
    BY DEF IInv, Locked, Distinct
  <1>4. \A p \in Programs : Knows(disk', run'[p])
    BY <1>1 DEF Knows, Settled, Gone, Loaded, Assigned, Ending
  <1>5. \A p \in Programs : Serial(disk', run'[p], starts')
    BY <1>1 DEF Serial, Settled, Gone, Acquiring, Downloading, IInv, AllSerial
  <1> QED BY <1>2, <1>3, <1>4, <1>5 DEF IInv, AllKnow, AllSerial

LEMMA RemoveKeeps ==
  ASSUME IInv, Remove
  PROVE  IInv'
  <1>1. PICK f \in Removable : Writes(f, None)
    BY DEF Remove
  <1>2. Removable \subseteq DiskFields
    BY DEF Removable, Processed, DiskFields
  <1>3. /\ IsDisk(disk') /\ disk'[f] = None
        /\ \A g \in DiskFields : g # f => disk'[g] = disk[g]
    BY <1>1, <1>2, WritingField DEF IInv
  <1>4. \A g \in Chain : disk'[g] \in {None, disk[g]}
    BY <1>3 DEF Chain, DiskFields
  <1>5. /\ disk'.raw \in {None, disk.raw} /\ disk'.source \in {None, disk.source}
        /\ disk'.features \in {None, disk.features} /\ disk'.targets \in {None, disk.targets}
        /\ disk'.schema \in {None, disk.schema}
        /\ disk'.dataManifest \in {None, disk.dataManifest}
        /\ disk'.splitManifest \in {None, disk.splitManifest}
    BY <1>4 DEF Chain
  <1>6. disk.dataManifest # None => disk.dataManifest.source # None
    BY FilesAssumption DEF IInv, DiskOK, DataManifests
  <1>7. DiskOK(disk', starts)
    BY <1>5, <1>6 DEF IInv, DiskOK
  <1> QED BY <1>3, <1>7, OperatorKeeps DEF Remove

LEMMA ReplaceRawKeeps ==
  ASSUME IInv, ReplaceRaw
  PROVE  IInv'
  <1>1. PICK v \in Versions : Writes("raw", v)
    BY DEF ReplaceRaw
  <1>2. /\ IsDisk(disk') /\ disk'.raw = v
        /\ \A g \in DiskFields : g # "raw" => disk'[g] = disk[g]
    BY <1>1, ChainFields, WritingField DEF IInv
  <1>3. /\ disk'.source = disk.source /\ disk'.features = disk.features
        /\ disk'.targets = disk.targets /\ disk'.schema = disk.schema
        /\ disk'.dataManifest = disk.dataManifest /\ disk'.splitManifest = disk.splitManifest
    BY <1>2, ChainFields
  <1>4. DiskOK(disk', starts)
    BY <1>2, <1>3 DEF IInv, DiskOK
  <1> QED BY <1>2, <1>4, OperatorKeeps DEF ReplaceRaw

LEMMA PublishKeeps ==
  ASSUME IInv, Publish
  PROVE  IInv'
  <1>1. /\ trouble' = [deaths |-> trouble'.deaths, changes |-> trouble'.changes]
        /\ trouble'.changes \in Nat
    <2>1. Trouble("changes") /\ Shape
      BY DEF Publish, IInv
    <2> QED BY <2>1, ChangeIsCounted
  <1>2. /\ provider' = [content |-> provider'.content, md5 |-> provider'.md5,
                        frozen |-> provider'.frozen]
        /\ provider'.content \in Versions
    <2>1. CASE provider' = [provider EXCEPT !.frozen = FALSE]
      BY <2>1 DEF IInv, Shape
    <2>2. ASSUME NEW v \in Versions, NEW m,
                 provider' = [provider EXCEPT !.content = v, !.md5 = m]
          PROVE  /\ provider' = [content |-> provider'.content, md5 |-> provider'.md5,
                                 frozen |-> provider'.frozen]
                 /\ provider'.content \in Versions
      <3>1. provider' = [[provider EXCEPT !.content = v] EXCEPT !.md5 = m]
        BY <2>2
      <3>2. provider = [content |-> provider.content, md5 |-> provider.md5,
                        frozen |-> provider.frozen]
        BY DEF IInv, Shape
      <3> QED BY <3>1, <3>2
    <2> QED BY <2>1, <2>2 DEF Publish
  <1>3. Shape'
    BY <1>1, <1>2 DEF Publish, IInv, Shape
  <1> QED BY <1>3 DEF Publish, IInv, Locked, AllKnow, AllSerial, Distinct

-----------------------------------------------------------------------------
(* The invariant holds, and with it what is claimed of the source manifest.   *)

LEMMA InitIInv ==
  ASSUME Init
  PROVE  IInv
  <1>1. \A p \in Programs : run[p] = Idle
    BY DEF Init
  <1>2. Idle.pc = "idle" /\ Idle.number = 0 /\ ~Idle.again
    BY DEF Idle
  <1>3. IsDisk(disk)
    BY DEF Init, IsDisk, DiskFields, NoFiles
  <1>4. MaxStarts \in Nat /\ 0 \in 0..MaxStarts /\ Recorded \in Versions /\ None \notin Programs
    BY DataFoundationAssumption
  <1>5. Shape
    BY <1>1, <1>3, <1>4, IdleIsLocal DEF Init, Shape
  <1>6. Locked
    BY <1>1, <1>2, <1>4 DEF Init, Locked, Downloading, Settled, Gone
  <1>7. AllKnow
    BY <1>1, <1>2 DEF AllKnow, Knows, Settled, Gone, Loaded, Assigned, Ending
  <1>8. AllSerial /\ Distinct
    BY <1>1, <1>2 DEF Init, AllSerial, Serial, Distinct, Settled, Gone, Acquiring, Downloading
  <1>9. DiskOK(disk, starts)
    <2>1. /\ disk.raw = None /\ disk.source = None /\ disk.dataManifest = None
          /\ disk.splitManifest = None
      BY DEF Init, NoFiles
    <2> QED BY <2>1 DEF DiskOK
  <1> QED BY <1>5, <1>6, <1>7, <1>8, <1>9 DEF IInv

\* The steps of a program: most of them move it tamely.
Starts(p) == StartPreparation(p) \/ StartAudit(p) \/ StartLegacyCheck(p)

LEMMA StepCases ==
  ASSUME IInv, NEW p \in Programs, Step(p)
  PROVE  Moves(p) \/ Starts(p) \/ Promote(p) \/ WriteSource(p)
  BY CheckCacheMoves, LockTimesOutMoves, FetchMetadataMoves, TransportFailsMoves, StreamMoves,
     ValidateSourceMoves, ChooseTablesMoves, LoadManifestMoves, LoadTablesMoves,
     WriteTableMoves, WriteDataManifestMoves, ValidateProcessedMoves, CheckAssignmentsMoves,
     WriteAssignmentsMoves, ReadSplitManifestMoves, WriteSplitManifestMoves,
     WriteSummaryMoves, WritePassMoves, WriteFailureMoves, FinishMoves,
     CheckSplitEvidenceMoves, JudgeGatesMoves, WriteStageBackMoves,
     ValidateLegacySmokeMoves, ExitMoves, DieMoves DEF Step, Starts

LEMMA NextIInv ==
  ASSUME IInv, [Next]_vars
  PROVE  IInv'
  <1>1. ASSUME NEW p \in Programs, Step(p) PROVE IInv'
    <2>1. CASE Moves(p)
      BY <2>1, MovesKeep
    <2>2. CASE Starts(p)
      BY <2>2, StartPreparationKeeps, StartAuditKeeps, StartLegacyCheckKeeps DEF Starts
    <2>3. CASE Promote(p) \/ WriteSource(p)
      BY <2>3, PromoteKeeps, WriteSourceKeeps
    <2> QED BY <1>1, <2>1, <2>2, <2>3, StepCases
  <1>2. CASE Remove
    BY <1>2, RemoveKeeps
  <1>3. CASE ReplaceRaw
    BY <1>3, ReplaceRawKeeps
  <1>4. CASE Publish
    BY <1>4, PublishKeeps
  <1>5. CASE UNCHANGED vars
    BY <1>5 DEF vars, IInv, Shape, Locked, AllKnow, AllSerial, Distinct
  <1> QED BY <1>1, <1>2, <1>3, <1>4, <1>5 DEF Next

LEMMA Invariance == Spec => []IInv
  <1>1. Init => IInv
    BY InitIInv
  <1>2. IInv /\ [Next]_vars => IInv'
    BY NextIInv
  <1> QED BY <1>1, <1>2, PTL DEF Spec

\* Whoever died in an earlier acquisition, whatever the provider publishes and
\* whatever the operator moves between two runs: a program that goes on after
\* acquire has a source manifest that describes the raw file beside it, and the
\* provider's checksum in it is that file's (download_dataset and
\* validate_cached_source, data/download.py).
THEOREM SourceStaysTrue == Spec => []SourceIsTrue
  <1>1. ASSUME IInv PROVE SourceIsTrue
    <2> SUFFICES ASSUME NEW p \in Programs, Prepared(p)
                 PROVE  /\ run[p].source = disk.source
                        /\ disk.source.describes = disk.raw
                        /\ disk.source.provider \in {None, disk.raw}
      BY DEF SourceIsTrue
    <2>1. Settled(run[p].pc)
      BY DEF Prepared, Active, Settled, Gone
    <2> QED BY <1>1, <2>1 DEF IInv, AllKnow, Knows, Sourced
  <1> QED BY <1>1, Invariance, PTL

-----------------------------------------------------------------------------
(* What is frozen.                                                            *)

LEMMA WholeFiles ==
  ASSUME NEW e, NEW d, IsDisk(d), IsDisk(e),
         \A f \in {"raw", "source", "assignments"} \cup Processed : e[f] = d[f]
  PROVE  Contents(e) = Contents(d)
  BY DEF Contents

LEMMA WholeMeans ==
  Whole <=>
    /\ disk.raw # None /\ disk.source # None /\ disk.assignments # None
    /\ disk.splitManifest # None /\ disk.dataManifest # None
    /\ disk.source.describes = disk.raw
    /\ disk.dataManifest = ManifestOf(disk.source)
    /\ disk.features = disk.raw /\ disk.targets = disk.raw /\ disk.schema = disk.raw
    /\ disk.assignments = disk.raw
    /\ disk.splitManifest.assignments = disk.assignments
    /\ disk.splitManifest.data = disk.dataManifest
  BY DEF Whole, Missing, Processed, ManifestOf

LEMMA TameKeepsWhole ==
  ASSUME Shape, IsDisk(disk'), Tame(disk, disk'), Whole
  PROVE  Whole' /\ Contents(disk') = Contents(disk)
  <1>1. /\ disk.raw # None /\ disk.source # None /\ disk.assignments # None
        /\ disk.splitManifest # None /\ disk.dataManifest # None
        /\ disk.source.describes = disk.raw
        /\ disk.dataManifest = ManifestOf(disk.source)
        /\ disk.features = disk.raw /\ disk.targets = disk.raw /\ disk.schema = disk.raw
        /\ disk.assignments = disk.raw
        /\ disk.splitManifest.assignments = disk.assignments
        /\ disk.splitManifest.data = disk.dataManifest
    BY WholeMeans
  <1>2. /\ disk'.raw = disk.raw /\ disk'.source = disk.source
        /\ disk'.features = disk.features /\ disk'.targets = disk.targets
        /\ disk'.schema = disk.schema /\ disk'.dataManifest = disk.dataManifest
        /\ disk'.assignments = disk.assignments
    BY <1>1 DEF Tame
  <1>3. /\ disk'.splitManifest # None
        /\ disk'.splitManifest.assignments = disk.assignments
        /\ disk'.splitManifest.data = disk.dataManifest
    BY <1>1, FilesAssumption DEF Tame, Fits
  <1>4. Whole'
    BY <1>1, <1>2, <1>3 DEF Whole, Missing, Processed, ManifestOf
  <1>5. \A f \in {"raw", "source", "assignments"} \cup Processed : disk'[f] = disk[f]
    BY <1>2 DEF Processed
  <1> QED BY <1>4, <1>5, WholeFiles DEF Shape

\* What a step may never do to files that are there.
Kept ==
  trouble'.changes = trouble.changes =>
    /\ disk.raw # None => disk'.raw = disk.raw
    /\ disk.assignments # None => disk'.assignments = disk.assignments
    /\ Whole /\ lock = None => Contents(disk') = Contents(disk) /\ Whole'

LEMMA StepKeepsFiles ==
  ASSUME IInv, [Next]_vars
  PROVE  Kept
  <1>0. Shape
    BY DEF IInv
  <1>1. ASSUME IsDisk(disk'), Tame(disk, disk') PROVE Kept
    BY <1>0, <1>1, TameKeepsWhole DEF Kept, Tame
  <1>2. CASE UNCHANGED disk
    BY <1>0, <1>1, <1>2, Still
  <1>3. ASSUME NEW p \in Programs, Step(p) PROVE Kept
    <2>1. CASE Moves(p)
      BY <1>1, <2>1 DEF Moves
    <2>2. CASE Starts(p)
      BY <1>2, <2>2 DEF Starts, StartPreparation, StartAudit, StartLegacyCheck
    <2>3. CASE Promote(p)
      <3>1. lock # None
        BY <2>3, Alone DEF Promote, At, Downloading
      <3>2. CASE UNCHANGED disk
        BY <1>2, <3>2
      <3>3. CASE disk.raw = None /\ Writes("raw", run[p].content)
        <4>1. disk'.assignments = disk.assignments
          BY <1>0, <3>3, WritingField, ChainFields
        <4> QED BY <3>1, <3>3, <4>1 DEF Kept
      <3> QED BY <2>3, <3>2, <3>3 DEF Promote
    <2>4. CASE WriteSource(p)
      <3>1. lock # None
        BY <2>4, Alone DEF WriteSource, At, Downloading
      <3>2. PICK m : Writes("source", m)
        BY <2>4 DEF WriteSource
      <3>3. disk'.assignments = disk.assignments /\ disk'.raw = disk.raw
        BY <1>0, <3>2, WritingField, ChainFields
      <3> QED BY <3>1, <3>3 DEF Kept
    <2> QED BY <1>3, <2>1, <2>2, <2>3, <2>4, StepCases
  <1>4. CASE Remove \/ ReplaceRaw \/ Publish
    <2>1. Trouble("changes")
      BY <1>4 DEF Remove, ReplaceRaw, Publish
    <2> QED BY <1>0, <2>1, ChangeIsCounted DEF Kept
  <1>5. CASE UNCHANGED vars
    BY <1>2, <1>5 DEF vars
  <1> QED BY <1>3, <1>4, <1>5 DEF Next

\* No step of a program replaces a raw file or an assignment, and what a whole
\* chain contains stays as it is as long as nobody downloads, forced rebuilds
\* and concurrent writers included (download_dataset, process_dataset and
\* write_immutable of data/smoke_splits.py).
THEOREM FrozenStaysKept == Spec => FrozenIsKept
  <1>1. IInv /\ [Next]_vars => [trouble'.changes = trouble.changes =>
          /\ disk.raw # None => disk'.raw = disk.raw
          /\ disk.assignments # None => disk'.assignments = disk.assignments
          /\ Whole /\ lock = None => Contents(disk') = Contents(disk) /\ Whole']_vars
    BY StepKeepsFiles DEF Kept
  <1> QED BY <1>1, Invariance, PTL DEF Spec, FrozenIsKept

-----------------------------------------------------------------------------
(* What was recorded, as long as nobody changes files or versions.            *)

Inventoried(s, d) == s = [inventory |-> Contents(d), rerun |-> FALSE]
Passing(r) == r.again \/ r.pc \in {"pass", "finish"}

Quiet ==
  trouble.changes = 0 =>
    /\ disk.source # None => disk.raw # None
    /\ lock # None => disk.source = None
    /\ disk.stage = "PASS" => Whole
    /\ disk.summary # None => Whole /\ disk.summary.inventory = Contents(disk)
    /\ \A p \in Programs :
         /\ Passing(run[p]) => Whole /\ Inventoried(run[p].summary, disk)
         /\ run[p].pc = "audit_back" /\ run[p].content = "PASS" => Whole

\* What a step of a program does to the records and to what it remembers.
CalmRun(p) ==
  /\ Passing(run'[p]) =>
       \/ Passing(run[p]) /\ run'[p].summary = run[p].summary
       \/ run[p].pc = "summary" /\ Inventoried(run'[p].summary, disk)
  /\ run'[p].pc = "audit_back" /\ run'[p].content = "PASS" => disk.stage = "PASS"

CalmDisk(p) ==
  /\ disk'.stage = "PASS" =>
       \/ disk.stage = "PASS" \/ run[p].pc = "pass"
       \/ (run[p].pc = "audit_back" /\ run[p].content = "PASS")
  /\ \/ disk'.summary = disk.summary
     \/ run[p].pc = "summary" /\ disk'.summary.inventory = Contents(disk)
     \/ Passing(run[p]) /\ disk'.summary.inventory = run[p].summary.inventory

CalmLock == lock' \in {lock, None} \/ Missing({"raw", "source"})

LEMMA EndingIsWhole ==
  ASSUME IInv, NEW p \in Programs, run[p].pc \in Ending
  PROVE  Whole
  <1>1. Settled(run[p].pc) /\ run[p].pc \in Loaded /\ run[p].pc \in Assigned
    BY DEF Settled, Gone, Acquiring, Auditing, Loaded, Assigned, Ending
  <1>2. /\ Sourced(disk) /\ Built(disk) /\ disk.assignments = disk.raw
        /\ Fits(disk.splitManifest, disk)
    BY <1>1 DEF IInv, AllKnow, Knows
  <1>3. /\ disk.raw # None /\ disk.source # None /\ disk.splitManifest # None
        /\ disk.dataManifest # None
    BY <1>2, ManifestFacts, FilesAssumption, DataFoundationAssumption DEF Sourced, Built, Fits
  <1> QED BY <1>2, <1>3, WholeMeans DEF Sourced, Built, Fits

LEMMA CalmKeepsQuiet ==
  ASSUME IInv, Quiet, Kept, NEW p \in Programs, RunMoves(p), CalmRun(p), CalmDisk(p),
         trouble'.changes = trouble.changes,
         trouble.changes = 0 =>
           /\ disk'.source # None => disk'.raw # None
           /\ lock' # None => disk'.source = None
  PROVE  Quiet'
  <1> SUFFICES ASSUME trouble.changes = 0
               PROVE  /\ disk'.stage = "PASS" => Whole'
                      /\ disk'.summary # None =>
                           Whole' /\ disk'.summary.inventory = Contents(disk')
                      /\ \A q \in Programs :
                           /\ Passing(run'[q]) => Whole' /\ Inventoried(run'[q].summary, disk')
                           /\ run'[q].pc = "audit_back" /\ run'[q].content = "PASS" => Whole'
    BY DEF Quiet
  <1>1. Whole => Whole' /\ Contents(disk') = Contents(disk)
    <2>1. Whole => lock = None
      BY WholeMeans DEF Quiet
    <2> QED BY <2>1 DEF Kept
  <1>2. run[p].pc \in Ending => Whole
    BY EndingIsWhole
  <1>3. disk'.stage = "PASS" => Whole'
    BY <1>1, <1>2 DEF CalmDisk, Quiet, Ending
  <1>4. disk'.summary # None => Whole' /\ disk'.summary.inventory = Contents(disk')
    <2>1. CASE disk'.summary = disk.summary
      BY <1>1, <2>1 DEF Quiet
    <2>2. CASE run[p].pc = "summary" /\ disk'.summary.inventory = Contents(disk)
      BY <1>1, <1>2, <2>2 DEF Ending
    <2>3. CASE Passing(run[p]) /\ disk'.summary.inventory = run[p].summary.inventory
      <3>1. Whole /\ run[p].summary.inventory = Contents(disk)
        BY <2>3 DEF Quiet, Inventoried
      <3> QED BY <1>1, <2>3, <3>1
    <2> QED BY <2>1, <2>2, <2>3 DEF CalmDisk
  <1>5. ASSUME NEW q \in Programs
        PROVE  /\ Passing(run'[q]) => Whole' /\ Inventoried(run'[q].summary, disk')
               /\ run'[q].pc = "audit_back" /\ run'[q].content = "PASS" => Whole'
    <2>1. \A s : Whole /\ Inventoried(s, disk) => Inventoried(s, disk')
      BY <1>1 DEF Inventoried
    <2>2. /\ Passing(run[q]) => Whole /\ Inventoried(run[q].summary, disk)
          /\ run[q].pc = "audit_back" /\ run[q].content = "PASS" => Whole
          /\ disk.stage = "PASS" => Whole
      BY DEF Quiet
    <2>3. CASE q = p
      BY <1>1, <1>2, <2>1, <2>2, <2>3 DEF CalmRun, Ending
    <2>4. CASE q # p
      BY <1>1, <2>1, <2>2, <2>4 DEF RunMoves
    <2> QED BY <2>3, <2>4
  <1> QED BY <1>3, <1>4, <1>5

\* Where the chain is not touched, a lock is only taken for want of a file.
LEMMA MovesKeepQuiet ==
  ASSUME IInv, Quiet, Kept, NEW p \in Programs, Moves(p), CalmRun(p), CalmDisk(p), CalmLock
  PROVE  Quiet'
  <1>1. /\ RunMoves(p) /\ trouble'.changes = trouble.changes
        /\ disk'.raw = disk.raw /\ disk'.source = disk.source
    BY DEF Moves, Surroundings, Tame
  <1>2. Missing({"raw", "source"}) => disk.raw = None \/ disk.source = None
    BY DEF Missing
  <1>3. trouble.changes = 0 =>
          /\ disk'.source # None => disk'.raw # None
          /\ lock' # None => disk'.source = None
    BY <1>1, <1>2 DEF Quiet, CalmLock
  <1> QED BY <1>1, <1>3, CalmKeepsQuiet

-----------------------------------------------------------------------------
(* Most steps leave the records, and what is remembered, as they are.         *)

PlainRun(p) ==
  /\ run'[p].pc \notin {"pass", "finish", "audit_back"}
  /\ run'[p].again => run[p].again /\ run'[p].summary = run[p].summary

PlainDisk == disk'.stage \in {disk.stage, "FAILED"} /\ disk'.summary = disk.summary

LEMMA PlainIsCalm ==
  ASSUME NEW p \in Programs
  PROVE  /\ PlainRun(p) => CalmRun(p)
         /\ PlainDisk => CalmDisk(p)
  BY DEF PlainRun, PlainDisk, CalmRun, CalmDisk, Passing

LEMMA PlainGoing ==
  ASSUME Shape, NEW p \in Programs, NEW pc, pc \notin {"pass", "finish", "audit_back"}, Goes(p, pc)
  PROVE  PlainRun(p)
  BY Going DEF PlainRun

LEMMA PlainLeaving ==
  ASSUME Shape, NEW p \in Programs, NEW cause, Fails(p, cause) \/ Leaves(p, cause)
  PROVE  PlainRun(p)
  BY Leaving DEF PlainRun, Retires, Gone, Fails, Leaves

LEMMA PlainIdle ==
  ASSUME Shape, NEW p \in Programs, Does(p, Idle)
  PROVE  PlainRun(p)
  BY BecomingIdle DEF PlainRun, Retires, Gone

LEMMA PlainTwo ==
  ASSUME Shape, NEW p \in Programs, NEW pc, pc \notin {"pass", "finish", "audit_back"},
         NEW f \in LocalFields, f \notin {"pc", "again", "summary"}, NEW x,
         Does(p, SettingTwo(run[p], "pc", pc, f, x))
  PROVE  PlainRun(p)
  <1> DEFINE s == SettingTwo(run[p], "pc", pc, f, x)
  <1>1. /\ IsLocal(s) /\ s["pc"] = pc
        /\ \A h \in LocalFields : h \notin {"pc", f} => s[h] = run[p][h]
    BY SetTwo, Fields DEF Shape
  <1> HIDE DEF s
  <1>2. run'[p] = s
    BY <1>1, Doing DEF s
  <1>3. s.again = run[p].again /\ s.summary = run[p].summary
    BY <1>1, Fields
  <1> QED BY <1>1, <1>2, <1>3 DEF PlainRun

LEMMA PlainWrites ==
  ASSUME Shape, NEW f \in DiskFields, f \notin {"stage", "summary"}, NEW x, Writes(f, x)
  PROVE  PlainDisk
  <1>1. \A g \in DiskFields : g # f => disk'[g] = disk[g]
    BY WritingField
  <1>2. "stage" \in DiskFields /\ "summary" \in DiskFields
    BY DEF DiskFields
  <1> QED BY <1>1, <1>2 DEF PlainDisk

LEMMA PlainStill ==
  ASSUME UNCHANGED disk
  PROVE  PlainDisk
  BY DEF PlainDisk

LEMMA RecordFields ==
  /\ {"metadata", "quality", "tmp", "parts", "raw", "source"} \subseteq DiskFields
  /\ Writing \subseteq DiskFields
  /\ {"dataManifest", "assignments", "splitManifest"} \subseteq DiskFields
  BY DEF DiskFields, Writing

LEMMA PlainAcquisition ==
  ASSUME Shape, NEW p \in Programs,
         CheckCache(p) \/ LockTimesOut(p) \/ FetchMetadata(p) \/ TransportFails(p) \/ Stream(p)
  PROVE  PlainRun(p) /\ PlainDisk /\ CalmLock
  <1>1. CASE CheckCache(p)
    <2>1. PlainRun(p)
      <3>1. CASE Does(p, [run[p] EXCEPT !.pc = "validate", !.source = disk.source])
        <4>1. Does(p, SettingTwo(run[p], "pc", "validate", "source", disk.source))
          BY <3>1 DEF SettingTwo
        <4> QED BY <4>1, PlainTwo, Fields
      <3>2. CASE Goes(p, "metadata")
        BY <3>2, PlainGoing
      <3>3. ASSUME NEW cause, Fails(p, cause) PROVE PlainRun(p)
        BY <3>3, PlainLeaving
      <3> QED BY <1>1, <3>1, <3>2, <3>3 DEF CheckCache
    <2> QED BY <1>1, <2>1, PlainStill DEF CheckCache, CalmLock
  <1>2. CASE LockTimesOut(p) \/ TransportFails(p)
    BY <1>2, PlainLeaving, PlainStill DEF LockTimesOut, TransportFails, CalmLock
  <1>3. CASE FetchMetadata(p)
    <2>1. PlainRun(p)
      <3>1. CASE Does(p, [run[p] EXCEPT !.pc = "stream", !.md5 = provider.md5])
        <4>1. Does(p, SettingTwo(run[p], "pc", "stream", "md5", provider.md5))
          BY <3>1 DEF SettingTwo
        <4> QED BY <4>1, PlainTwo, Fields
      <3>2. CASE Fails(p, "integrity")
        BY <3>2, PlainLeaving
      <3> QED BY <1>3, <3>1, <3>2 DEF FetchMetadata
    <2>2. PlainDisk
      BY <1>3, PlainStill, PlainWrites, RecordFields DEF FetchMetadata
    <2> QED BY <1>3, <2>1, <2>2 DEF FetchMetadata, CalmLock
  <1>4. CASE Stream(p)
    <2>1. PlainRun(p)
      <3>1. CASE Does(p, [run[p] EXCEPT !.pc = "promote", !.content = provider.content])
        <4>1. Does(p, SettingTwo(run[p], "pc", "promote", "content", provider.content))
          BY <3>1 DEF SettingTwo
        <4> QED BY <4>1, PlainTwo, Fields
      <3>2. CASE Fails(p, "integrity")
        BY <3>2, PlainLeaving
      <3> QED BY <1>4, <3>1, <3>2 DEF Stream
    <2> QED BY <1>4, <2>1, PlainStill DEF Stream, CalmLock
  <1> QED BY <1>1, <1>2, <1>3, <1>4

LEMMA PlainPromotion ==
  ASSUME Shape, NEW p \in Programs, Promote(p) \/ WriteSource(p)
  PROVE  PlainRun(p) /\ PlainDisk /\ CalmLock
  <1>1. CASE Promote(p)
    <2>1. PlainRun(p)
      BY <1>1, PlainGoing, PlainLeaving DEF Promote
    <2>2. PlainDisk
      BY <1>1, PlainStill, PlainWrites, RecordFields DEF Promote
    <2> QED BY <1>1, <2>1, <2>2 DEF Promote, CalmLock
  <1>2. CASE WriteSource(p)
    <2>1. PICK m : /\ Writes("source", m)
                   /\ Does(p, [run[p] EXCEPT !.pc = "validate", !.source = m,
                                             !.md5 = None, !.content = None])
      BY <1>2 DEF WriteSource
    <2> DEFINE half == SettingTwo(run[p], "pc", "validate", "source", m)
               s == SettingTwo(half, "md5", None, "content", None)
    <2>2. Does(p, s)
      BY <2>1 DEF SettingTwo
    <2>3. /\ IsLocal(half) /\ half["pc"] = "validate"
          /\ \A h \in LocalFields : h \notin {"pc", "source"} => half[h] = run[p][h]
      BY SetTwo, Fields DEF Shape
    <2> HIDE DEF half
    <2>4. IsLocal(s) /\ \A h \in LocalFields : h \notin {"md5", "content"} => s[h] = half[h]
      BY <2>3, SetTwo, Fields
    <2> HIDE DEF s
    <2>5. run'[p] = s
      BY <2>2, <2>4, Doing
    <2>6. s.pc = half.pc /\ s.again = half.again /\ s.summary = half.summary
      BY <2>4, Fields
    <2>7. half.again = run[p].again /\ half.summary = run[p].summary
      BY <2>3, Fields
    <2>8. PlainRun(p)
      BY <2>3, <2>5, <2>6, <2>7 DEF PlainRun
    <2>9. PlainDisk
      BY <2>1, PlainWrites, RecordFields
    <2> QED BY <1>2, <2>8, <2>9 DEF WriteSource, CalmLock
  <1> QED BY <1>1, <1>2

LEMMA PlainTables ==
  ASSUME Shape, NEW p \in Programs,
         \/ ValidateSource(p) \/ ChooseTables(p) \/ LoadManifest(p) \/ LoadTables(p)
         \/ WriteTable(p) \/ WriteDataManifest(p) \/ ValidateProcessed(p)
  PROVE  PlainRun(p) /\ PlainDisk /\ CalmLock
  <1>1. CASE ValidateSource(p)
    BY <1>1, PlainGoing, PlainLeaving, PlainStill, PlainWrites, RecordFields
       DEF ValidateSource, CalmLock
  <1>2. CASE ChooseTables(p)
    BY <1>2, PlainGoing, PlainStill DEF ChooseTables, CalmLock
  <1>3. CASE LoadManifest(p)
    BY <1>3, PlainGoing, PlainLeaving, PlainStill DEF LoadManifest, CalmLock
  <1>4. CASE LoadTables(p)
    <2>1. Does(p, SettingTwo(run[p], "pc", "processed", "tables", Tables))
      BY <1>4 DEF LoadTables, SettingTwo
    <2> QED BY <1>4, <2>1, PlainTwo, Fields, PlainStill DEF LoadTables, CalmLock
  <1>5. CASE WriteTable(p)
    <2>1. PICK f \in Writing :
            \/ Fails(p, "round_trip") /\ UNCHANGED disk
            \/ Writes(f, run[p].source.describes) /\ Goes(p, After[f])
      BY <1>5 DEF WriteTable
    <2>2. f \in DiskFields /\ f \notin {"stage", "summary"}
      BY RecordFields DEF Writing
    <2>3. After[f] \notin {"pass", "finish", "audit_back"}
      BY DEF Writing, After
    <2>4. PlainRun(p)
      BY <2>1, <2>3, PlainGoing, PlainLeaving
    <2>5. PlainDisk
      BY <2>1, <2>2, PlainStill, PlainWrites
    <2> QED BY <1>5, <2>4, <2>5 DEF WriteTable, CalmLock
  <1>6. CASE WriteDataManifest(p)
    <2>1. PICK m, t : /\ Writes("dataManifest", m)
                      /\ Does(p, [run[p] EXCEPT !.pc = "processed", !.tables = t])
      BY <1>6 DEF WriteDataManifest
    <2>2. Does(p, SettingTwo(run[p], "pc", "processed", "tables", t))
      BY <2>1 DEF SettingTwo
    <2>3. PlainRun(p)
      BY <2>2, PlainTwo, Fields
    <2>4. PlainDisk
      BY <2>1, PlainWrites, RecordFields
    <2> QED BY <1>6, <2>3, <2>4 DEF WriteDataManifest, CalmLock
  <1>7. CASE ValidateProcessed(p)
    BY <1>7, PlainGoing, PlainLeaving, PlainWrites, RecordFields DEF ValidateProcessed, CalmLock
  <1> QED BY <1>1, <1>2, <1>3, <1>4, <1>5, <1>6, <1>7

LEMMA PlainSplits ==
  ASSUME Shape, NEW p \in Programs,
         \/ CheckAssignments(p) \/ WriteAssignments(p) \/ ReadSplitManifest(p)
         \/ WriteSplitManifest(p) \/ CheckSplitEvidence(p)
  PROVE  PlainRun(p) /\ PlainDisk /\ CalmLock
  <1>1. CASE CheckAssignments(p)
    BY <1>1, PlainGoing, PlainLeaving, PlainStill DEF CheckAssignments, CalmLock
  <1>2. CASE WriteAssignments(p)
    BY <1>2, PlainGoing, PlainWrites, RecordFields DEF WriteAssignments, CalmLock
  <1>3. CASE ReadSplitManifest(p)
    <2>0. PICK pc \in {"summary", "write_split"} :
            \E new : Does(p, [run[p] EXCEPT !.pc = pc, !.split = new])
      <3> DEFINE old == disk.splitManifest
                 now == [assignments |-> disk.assignments, data |-> run[p].tables.manifest,
                         stamp |-> IF old = None THEN run[p].number ELSE old.stamp]
                 next == IF now = old THEN "summary" ELSE "write_split"
      <3>1. Does(p, [run[p] EXCEPT !.pc = next, !.split = now])
        BY <1>3 DEF ReadSplitManifest
      <3>2. next \in {"summary", "write_split"}
        OBVIOUS
      <3> HIDE DEF now, next
      <3> QED BY <3>1, <3>2
    <2>1. PICK new : Does(p, [run[p] EXCEPT !.pc = pc, !.split = new])
      BY <2>0
    <2>2. Does(p, SettingTwo(run[p], "pc", pc, "split", new))
      BY <2>1 DEF SettingTwo
    <2>3. PlainRun(p)
      BY <2>2, PlainTwo, Fields
    <2> QED BY <1>3, <2>3, PlainStill DEF ReadSplitManifest, CalmLock
  <1>4. CASE WriteSplitManifest(p)
    BY <1>4, PlainGoing, PlainWrites, RecordFields DEF WriteSplitManifest, CalmLock
  <1>5. CASE CheckSplitEvidence(p)
    <2>1. PlainRun(p)
      <3>1. CASE Does(p, [run[p] EXCEPT !.pc = "audit_gates", !.split = disk.splitManifest])
        <4>1. Does(p, SettingTwo(run[p], "pc", "audit_gates", "split", disk.splitManifest))
          BY <3>1 DEF SettingTwo
        <4> QED BY <4>1, PlainTwo, Fields
      <3>2. ASSUME NEW cause, Raises(p, cause) PROVE PlainRun(p)
        BY <3>2, PlainLeaving DEF Raises
      <3> QED BY <1>5, <3>1, <3>2 DEF CheckSplitEvidence
    <2>2. PlainDisk
      BY <1>5, PlainStill, PlainWrites, RecordFields DEF CheckSplitEvidence, Raises
    <2> QED BY <1>5, <2>1, <2>2 DEF CheckSplitEvidence, CalmLock
  <1> QED BY <1>1, <1>2, <1>3, <1>4, <1>5

LEMMA PlainEnds ==
  ASSUME Shape, NEW p \in Programs,
         WriteFailure(p) \/ ValidateLegacySmoke(p) \/ Exit(p) \/ Die(p)
  PROVE  PlainRun(p) /\ PlainDisk /\ CalmLock
  <1>1. CASE WriteFailure(p)
    <2>1. Writes("stage", "FAILED") /\ Does(p, Idle) /\ lock' = lock
      BY <1>1 DEF WriteFailure
    <2>2. "stage" \in DiskFields /\ "summary" \in DiskFields /\ "stage" # "summary"
      BY DEF DiskFields
    <2>3. disk'.stage = "FAILED" /\ disk'.summary = disk.summary
      BY <2>1, <2>2, WritingField
    <2> QED BY <2>1, <2>3, PlainIdle DEF PlainDisk, CalmLock
  <1>2. CASE ValidateLegacySmoke(p)
    BY <1>2, PlainLeaving, PlainStill DEF ValidateLegacySmoke, CalmLock
  <1>3. CASE Exit(p)
    BY <1>3, PlainIdle, PlainStill DEF Exit, CalmLock
  <1>4. CASE Die(p)
    BY <1>4, PlainIdle, PlainStill, PlainWrites, RecordFields DEF Die, CalmLock
  <1> QED BY <1>1, <1>2, <1>3, <1>4

-----------------------------------------------------------------------------
(* The steps that record something, or remember what was recorded.            *)

LEMMA CalmSummary ==
  ASSUME Shape, NEW p \in Programs, WriteSummary(p)
  PROVE  CalmRun(p) /\ CalmDisk(p) /\ CalmLock
  <1> DEFINE kept == IF run[p].again THEN run[p].summary ELSE Summary
             s == SettingTwo(run[p], "pc", "pass", "summary", kept)
  <1>1. Summary.inventory = Contents(disk) /\ Inventoried(Summary, disk)
    BY DEF Summary, Inventory, Contents, Inventoried
  <1>2. run[p].pc = "summary" /\ Writes("summary", Summary) /\ lock' = lock
    BY DEF WriteSummary, At
  <1>3. Does(p, s)
    BY DEF WriteSummary, SettingTwo
  <1>4. (kept = run[p].summary /\ run[p].again) \/ kept = Summary
    BY DEF Summary
  <1> HIDE DEF kept
  <1>5. /\ IsLocal(s) /\ s["pc"] = "pass" /\ s["summary"] = kept
    BY SetTwo, Fields DEF Shape
  <1> HIDE DEF s
  <1>6. run'[p] = s
    BY <1>3, <1>5, Doing
  <1>7. CalmRun(p)
    BY <1>1, <1>2, <1>4, <1>5, <1>6 DEF CalmRun, Passing
  <1>8. "stage" \in DiskFields /\ "summary" \in DiskFields /\ "stage" # "summary"
    BY DEF DiskFields
  <1>9. disk'.stage = disk.stage /\ disk'.summary = Summary
    BY <1>2, <1>8, WritingField
  <1>10. CalmDisk(p)
    BY <1>1, <1>2, <1>9 DEF CalmDisk
  <1> QED BY <1>2, <1>7, <1>10 DEF CalmLock

LEMMA CalmPass ==
  ASSUME Shape, NEW p \in Programs, WritePass(p)
  PROVE  CalmRun(p) /\ CalmDisk(p) /\ CalmLock
  <1>1. run[p].pc = "pass" /\ Writes("stage", "PASS") /\ lock' = lock
    BY DEF WritePass, At
  <1>2. run'[p].pc \in {"acquire", "finish"} /\ run'[p].summary = run[p].summary
    <2>1. CASE Offline(p)
      BY <2>1, Going DEF WritePass
    <2>2. CASE ~Offline(p)
      BY <2>2, RunningAgain
    <2> QED BY <2>1, <2>2
  <1>3. CalmRun(p)
    BY <1>1, <1>2 DEF CalmRun, Passing
  <1>4. "stage" \in DiskFields /\ "summary" \in DiskFields /\ "stage" # "summary"
    BY DEF DiskFields
  <1>5. disk'.summary = disk.summary
    BY <1>1, <1>4, WritingField
  <1>6. CalmDisk(p)
    BY <1>1, <1>5 DEF CalmDisk
  <1> QED BY <1>1, <1>3, <1>6 DEF CalmLock

\* Finish changes one field of the summary the program remembers.
LEMMA OtherRerun ==
  ASSUME NEW s, NEW i, NEW a, s = [inventory |-> i, rerun |-> a], NEW b
  PROVE  [s EXCEPT !.rerun = b].inventory = s.inventory
  OBVIOUS

LEMMA CalmFinish ==
  ASSUME Shape, NEW p \in Programs, Finish(p),
         Inventoried(run[p].summary, disk)
  PROVE  CalmRun(p) /\ CalmDisk(p) /\ CalmLock
  <1>1. run[p].pc = "finish" /\ lock' = lock
    BY DEF Finish, At
  <1>2. PICK rerun, cause : /\ Writes("summary", [run[p].summary EXCEPT !.rerun = rerun])
                            /\ Leaves(p, cause)
    BY DEF Finish
  <1>3. CalmRun(p)
    BY <1>2, PlainLeaving, PlainIsCalm
  <1>4. "stage" \in DiskFields /\ "summary" \in DiskFields /\ "stage" # "summary"
    BY DEF DiskFields
  <1> DEFINE s == [run[p].summary EXCEPT !.rerun = rerun]
  <1>5. s.inventory = run[p].summary.inventory
    BY OtherRerun, Zenon DEF Inventoried
  <1>6. Writes("summary", s)
    BY <1>2
  <1> HIDE DEF s
  <1>7. disk'.stage = disk.stage /\ disk'.summary = s
    BY <1>4, <1>6, WritingField
  <1>8. CalmDisk(p)
    BY <1>1, <1>5, <1>7 DEF CalmDisk, Passing
  <1> QED BY <1>1, <1>3, <1>8 DEF CalmLock

LEMMA CalmJudge ==
  ASSUME Shape, NEW p \in Programs, JudgeGates(p)
  PROVE  CalmRun(p) /\ CalmDisk(p) /\ CalmLock
  <1>1. disk' = disk /\ lock' = lock
    BY DEF JudgeGates
  <1>2. CASE Leaves(p, "missing")
    BY <1>1, <1>2, PlainLeaving, PlainStill, PlainIsCalm DEF CalmLock
  <1>3. ASSUME NEW cause,
               Does(p, [Idle EXCEPT !.pc = "audit_back", !.content = disk.stage, !.cause = cause])
        PROVE  CalmRun(p)
    <2> DEFINE s == SettingThree(Idle, "pc", "audit_back", "content", disk.stage, "cause", cause)
    <2>1. Does(p, s)
      BY <1>3 DEF SettingThree
    <2>2. /\ IsLocal(s) /\ s["pc"] = "audit_back" /\ s["content"] = disk.stage
          /\ \A i \in LocalFields : i \notin {"pc", "content", "cause"} => s[i] = Idle[i]
      BY IdleIsLocal, SetThree, Fields
    <2> HIDE DEF s
    <2>3. run'[p] = s
      BY <2>1, <2>2, Doing
    <2>4. s.again = Idle.again /\ ~Idle.again
      BY <2>2, Fields DEF Idle
    <2> QED BY <2>2, <2>3, <2>4 DEF CalmRun, Passing
  <1>4. CalmDisk(p)
    BY <1>1, PlainStill, PlainIsCalm
  <1> QED BY <1>1, <1>2, <1>3, <1>4 DEF JudgeGates, CalmLock

LEMMA CalmStageBack ==
  ASSUME Shape, NEW p \in Programs, WriteStageBack(p)
  PROVE  CalmRun(p) /\ CalmDisk(p) /\ CalmLock
  <1>1. run[p].pc = "audit_back" /\ Writes("stage", run[p].content) /\ lock' = lock
    BY DEF WriteStageBack, At
  <1>2. CalmRun(p)
    BY PlainLeaving, PlainIsCalm DEF WriteStageBack
  <1>3. "stage" \in DiskFields /\ "summary" \in DiskFields /\ "stage" # "summary"
    BY DEF DiskFields
  <1>4. disk'.stage = run[p].content /\ disk'.summary = disk.summary
    BY <1>1, <1>3, WritingField
  <1>5. CalmDisk(p)
    BY <1>1, <1>4 DEF CalmDisk
  <1> QED BY <1>1, <1>2, <1>5 DEF CalmLock

LEMMA StartsAreCalm ==
  ASSUME Shape, NEW p \in Programs, Starts(p)
  PROVE  RunMoves(p) /\ CalmRun(p)
  <1>0. Idle.again = FALSE
    BY DEF Idle
  <1>1. ASSUME NEW cause, Leaves(p, cause)
        PROVE  RunMoves(p) /\ CalmRun(p)
    BY <1>1, Leaving, PlainLeaving, PlainIsCalm DEF Leaves, Retires, Gone
  <1>2. ASSUME NEW s, IsLocal(s), Does(p, s), s.again = Idle.again,
               s.pc \notin {"pass", "finish", "audit_back"}
        PROVE  RunMoves(p) /\ CalmRun(p)
    BY <1>0, <1>2, Doing DEF CalmRun, Passing
  <1>3. CASE StartPreparation(p)
    <2> DEFINE next == starts + 1
    <2>1. PICK flags : Does(p, SettingThree(Idle, "pc", "acquire", "flags", flags,
                                            "number", next))
      BY <1>3 DEF StartPreparation, SettingThree
    <2> DEFINE s == SettingThree(Idle, "pc", "acquire", "flags", flags, "number", next)
    <2> HIDE DEF next
    <2>2. /\ IsLocal(s) /\ s["pc"] = "acquire"
          /\ \A i \in LocalFields : i \notin {"pc", "flags", "number"} => s[i] = Idle[i]
      BY IdleIsLocal, SetThree, Fields
    <2> HIDE DEF s
    <2>3. s.again = Idle.again
      BY <2>2, Fields
    <2>4. Does(p, s)
      BY <2>1 DEF s
    <2> QED BY <1>2, <2>2, <2>3, <2>4
  <1>4. CASE StartAudit(p)
    <2>1. CASE Does(p, [Idle EXCEPT !.pc = "audit_split", !.source = disk.source,
                                    !.number = starts + 1, !.tables = Tables])
      <3> DEFINE next == starts + 1
                 half == SettingTwo(Idle, "source", disk.source, "tables", Tables)
                 s == SettingTwo(half, "pc", "audit_split", "number", next)
      <3>1. Does(p, s)
        BY <2>1 DEF SettingTwo
      <3> HIDE DEF next
      <3>2. /\ IsLocal(half)
            /\ \A i \in LocalFields : i \notin {"source", "tables"} => half[i] = Idle[i]
        BY IdleIsLocal, SetTwo, Fields
      <3> HIDE DEF half
      <3>3. /\ IsLocal(s) /\ s["pc"] = "audit_split"
            /\ \A i \in LocalFields : i \notin {"pc", "number"} => s[i] = half[i]
        BY <3>2, SetTwo, Fields
      <3> HIDE DEF s
      <3>4. s.again = half.again /\ half.again = Idle.again
        BY <3>2, <3>3, Fields
      <3> QED BY <1>2, <3>1, <3>3, <3>4
    <2> QED BY <1>1, <1>4, <2>1 DEF StartAudit
  <1>5. CASE StartLegacyCheck(p)
    <2>1. CASE Does(p, [Idle EXCEPT !.pc = "legacy", !.source = disk.source, !.tables = Tables])
      <3> DEFINE s == SettingThree(Idle, "pc", "legacy", "source", disk.source, "tables", Tables)
      <3>1. Does(p, s)
        BY <2>1 DEF SettingThree
      <3>2. /\ IsLocal(s) /\ s["pc"] = "legacy"
            /\ \A i \in LocalFields : i \notin {"pc", "source", "tables"} => s[i] = Idle[i]
        BY IdleIsLocal, SetThree, Fields
      <3> HIDE DEF s
      <3>3. s.again = Idle.again
        BY <3>2, Fields
      <3> QED BY <1>2, <3>1, <3>2, <3>3
    <2> QED BY <1>1, <1>5, <2>1 DEF StartLegacyCheck
  <1> QED BY <1>3, <1>4, <1>5 DEF Starts

LEMMA StepIsCalm ==
  ASSUME IInv, Quiet, trouble.changes = 0, NEW p \in Programs, Step(p)
  PROVE  CalmRun(p) /\ CalmDisk(p) /\ CalmLock
  <1>0. Shape
    BY DEF IInv
  <1>1. CASE PlainRun(p) /\ PlainDisk /\ CalmLock
    BY <1>1, PlainIsCalm
  <1>2. CASE Starts(p)
    <2>1. disk' = disk /\ lock' = lock
      BY <1>2 DEF Starts, StartPreparation, StartAudit, StartLegacyCheck
    <2>2. CalmDisk(p)
      BY <2>1, PlainStill, PlainIsCalm
    <2> QED BY <1>0, <1>2, <2>1, <2>2, StartsAreCalm DEF CalmLock
  <1>3. CASE Finish(p)
    <2>1. Inventoried(run[p].summary, disk)
      BY <1>3 DEF Finish, At, Quiet, Passing
    <2> QED BY <1>0, <1>3, <2>1, CalmFinish
  <1> QED BY <1>0, <1>1, <1>2, <1>3, PlainAcquisition, PlainPromotion, PlainTables, PlainSplits,
             PlainEnds, CalmSummary, CalmPass, CalmJudge, CalmStageBack DEF Step, Starts

LEMMA NextQuiet ==
  ASSUME IInv, Quiet, [Next]_vars
  PROVE  Quiet'
  <1>0. Shape /\ Kept
    BY StepKeepsFiles DEF IInv
  <1>1. CASE trouble.changes # 0
    <2>1. trouble'.changes # 0
      <3>1. ASSUME Trouble("changes") PROVE trouble'.changes # 0
        BY <1>0, <3>1, ChangeIsCounted
      <3>2. ASSUME NEW p \in Programs, Step(p) PROVE trouble'.changes = trouble.changes
        BY <3>2, StepCases DEF Moves, Surroundings, Starts, StartPreparation, StartAudit,
           StartLegacyCheck, Promote, WriteSource
      <3>3. ASSUME Remove \/ ReplaceRaw \/ Publish PROVE Trouble("changes")
        BY <3>3 DEF Remove, ReplaceRaw, Publish
      <3>4. ASSUME UNCHANGED vars PROVE trouble'.changes = trouble.changes
        BY <3>4 DEF vars
      <3> QED BY <1>1, <3>1, <3>2, <3>3, <3>4 DEF Next
    <2> QED BY <2>1 DEF Quiet
  <1>2. CASE Remove \/ ReplaceRaw \/ Publish
    <2>1. trouble'.changes # 0
      <3>1. Trouble("changes")
        BY <1>2 DEF Remove, ReplaceRaw, Publish
      <3> QED BY <1>0, <3>1, ChangeIsCounted
    <2> QED BY <2>1 DEF Quiet
  <1>3. CASE UNCHANGED vars
    BY <1>3 DEF vars, Quiet, Whole, Missing, Contents
  <1>4. ASSUME trouble.changes = 0, NEW p \in Programs, Step(p) PROVE Quiet'
    <2>0. CalmRun(p) /\ CalmDisk(p) /\ CalmLock
      BY <1>4, StepIsCalm
    <2>1. CASE Moves(p)
      BY <1>0, <2>0, <2>1, MovesKeepQuiet
    <2>2. CASE Starts(p)
      <3>1. disk' = disk /\ lock' = lock /\ trouble' = trouble
        BY <2>2 DEF Starts, StartPreparation, StartAudit, StartLegacyCheck
      <3>2. RunMoves(p)
        BY <1>0, <2>2, StartsAreCalm
      <3> QED BY <1>0, <1>4, <2>0, <3>1, <3>2, CalmKeepsQuiet DEF Quiet
    <2>3. CASE Promote(p)
      <3>1. /\ lock = p /\ disk.source = None /\ trouble' = trouble /\ run[p].pc \in Downloading
        BY <1>4, <2>3, Alone DEF Promote, At, Downloading, Quiet
      <3>2. CASE Fails(p, "integrity") \/ Goes(p, "describe")
        <4>1. RunMoves(p)
          BY <1>0, <3>2, Leaving, Going DEF Fails, Retires, Gone
        <4>2. disk'.source = disk.source
          BY <1>0, <2>3, WritingField, ChainFields DEF Promote
        <4> QED BY <1>0, <2>0, <3>1, <4>1, <4>2, CalmKeepsQuiet
      <3> QED BY <2>3, <3>2 DEF Promote
    <2>4. CASE WriteSource(p)
      <3>1. /\ trouble' = trouble /\ run[p].pc = "describe" /\ lock' = None
            /\ IInv'
        BY <2>4, WriteSourceKeeps DEF WriteSource, At
      <3>2. disk.raw \in Versions /\ None \notin Versions
        BY <3>1, DataFoundationAssumption DEF IInv, AllKnow, Knows
      <3>3. PICK m : Writes("source", m)
        BY <2>4 DEF WriteSource
      <3>4. disk'.raw = disk.raw
        BY <1>0, <3>3, WritingField, ChainFields
      <3>5. RunMoves(p)
        <4>1. PICK f : Does(p, f)
          BY <2>4 DEF WriteSource
        <4>2. \A q \in Programs : q # p => run'[q] = run[q]
          BY <1>0, <4>1 DEF Does, Shape
        <4>3. run' = [q \in Programs |-> run'[q]] /\ \A q \in Programs : IsLocal(run'[q])
          BY <3>1 DEF IInv, Shape
        <4> QED BY <4>2, <4>3 DEF RunMoves
      <3> QED BY <1>0, <2>0, <3>1, <3>2, <3>4, <3>5, CalmKeepsQuiet
    <2> QED BY <1>4, <2>1, <2>2, <2>3, <2>4, StepCases
  <1> QED BY <1>1, <1>2, <1>3, <1>4 DEF Next

LEMMA InitQuiet ==
  ASSUME Init
  PROVE  Quiet
  <1>1. /\ disk.source = None /\ disk.stage = None /\ disk.summary = None /\ lock = None
        /\ \A p \in Programs : run[p] = Idle
    BY DEF Init, NoFiles
  <1>2. None # "PASS"
    BY FilesAssumption
  <1>3. Idle.pc = "idle" /\ ~Idle.again
    BY DEF Idle
  <1> QED BY <1>1, <1>2, <1>3 DEF Quiet, Passing

\* A program about to record PASS has one chain of files before it, whoever
\* runs beside it and whatever happened; and until somebody removes a file or
\* publishes a version, a recorded PASS and a recorded inventory are true of
\* what is on disk, after any number of deaths, forced rebuilds and audits
\* (main in scripts/prepare_smoke_data.py, write_stage_status).
THEOREM PassStaysOneChain == Spec => []PassIsOneChain
  <1>1. IInv /\ Quiet => PassIsOneChain
    <2> SUFFICES ASSUME IInv, Quiet PROVE PassIsOneChain
      OBVIOUS
    <2>1. \A p \in Programs : run[p].pc \in {"pass", "finish"} => Whole
      BY EndingIsWhole DEF Ending
    <2>2. Inventory = Contents(disk)
      BY DEF Inventory, Contents
    <2> QED BY <2>1, <2>2 DEF PassIsOneChain, Quiet
  <1>2. Init => Quiet
    BY InitQuiet
  <1>3. IInv /\ Quiet /\ [Next]_vars => Quiet'
    BY NextQuiet
  <1> QED BY <1>1, <1>2, <1>3, Invariance, PTL DEF Spec

-----------------------------------------------------------------------------
(* Deaths heal: as long as nobody changes files or versions, everything on    *)
(* disk is of the recorded version, and no program finds a contradiction.     *)

TablesOf(d) == [features |-> d.raw, targets |-> d.raw, manifest |-> ManifestOf(d.source)]
FirstOf(d) == [raw |-> d.raw, tables |-> TablesOf(d), assignments |-> d.raw]

Healthy(d) ==
  /\ d.raw \in {None, Recorded} /\ d.features \in {None, Recorded}
  /\ d.targets \in {None, Recorded} /\ d.schema \in {None, Recorded}
  /\ d.assignments \in {None, Recorded} /\ d.tmp \in {None, Recorded}
  /\ d.source # None => d.source.describes = Recorded
  /\ d.dataManifest # None =>
       /\ d.source # None /\ d.dataManifest = ManifestOf(d.source)
       /\ d.features = Recorded /\ d.targets = Recorded /\ d.schema = Recorded

Recovers(d, r) ==
  /\ r.cause \in MayEnd(r.flags)
  /\ r.pc = "stream" => r.md5 = Recorded
  /\ r.pc = "promote" => r.content = Recorded
  /\ r.pc = "load_manifest" => d.dataManifest # None \/ "validate_only" \in r.flags
  /\ r.pc \in Loaded => r.tables = TablesOf(d)
  /\ r.pc \in {"write_split"} \cup Ending => r.split.assignments = d.raw
  /\ r.again => r.first = FirstOf(d)
  /\ r.pc \in {"audit_split", "legacy"} =>
       r.tables.features = Recorded /\ r.tables.targets = Recorded
  /\ r.pc = "legacy" => r.source.describes = Recorded

Untroubled ==
  trouble.changes = 0 =>
    /\ provider.content = Recorded /\ provider.md5 = Recorded /\ provider.frozen
    /\ Healthy(disk)
    /\ \A p \in Programs : Recovers(disk, run[p])

LEMMA Harmless ==
  ASSUME NEW flags
  PROVE  {"none", "done", "transport", "lock", "missing", "verified", "failed"} \subseteq
           MayEnd(flags)
  BY DEF MayEnd

LEMMA TameKeepsHealth ==
  ASSUME NEW d, NEW e, Tame(d, e), Healthy(d), e.tmp \in {d.tmp, Recorded}
  PROVE  Healthy(e)
  <1>1. None \notin Versions
    BY DataFoundationAssumption
  <1>2. Sourced(d) => d.raw = Recorded /\ d.source # None
    BY <1>1, FilesAssumption DEF Sourced, Healthy
  <1>3. e.raw = d.raw /\ e.source = d.source
    BY DEF Tame
  <1>4. /\ e.features \in {d.features, Recorded} /\ e.targets \in {d.targets, Recorded}
        /\ e.schema \in {d.schema, Recorded} /\ e.assignments \in {d.assignments, Recorded}
    BY <1>2 DEF Tame
  <1>5. CASE e.dataManifest = d.dataManifest
    BY <1>3, <1>4, <1>5 DEF Healthy
  <1>6. CASE /\ Sourced(d) /\ d.features = d.raw /\ d.targets = d.raw /\ d.schema = d.raw
             /\ e.dataManifest = ManifestOf(d.source)
    BY <1>2, <1>3, <1>4, <1>6 DEF Healthy
  <1> QED BY <1>5, <1>6 DEF Tame

LEMMA TameKeepsRecovery ==
  ASSUME NEW d, NEW e, NEW r, Tame(d, e), Recovers(d, r)
  PROVE  Recovers(e, r)
  <1>1. e.raw = d.raw /\ e.source = d.source
    BY DEF Tame
  <1>2. TablesOf(e) = TablesOf(d) /\ FirstOf(e) = FirstOf(d)
    BY <1>1 DEF TablesOf, FirstOf
  <1>3. d.dataManifest # None => e.dataManifest # None
    BY ManifestFacts DEF Tame, Sourced
  <1> QED BY <1>1, <1>2, <1>3 DEF Recovers

LEMMA LeavingCause ==
  ASSUME Shape, NEW p \in Programs, NEW pc \in Gone, NEW cause, Left(p, pc, cause)
  PROVE  run'[p].flags = run[p].flags /\ run'[p].cause = cause
  <1> DEFINE s == SettingThree(Idle, "pc", pc, "flags", run[p].flags, "cause", cause)
  <1>1. Does(p, s)
    BY DEF Left, SettingThree
  <1>2. IsLocal(s) /\ s["flags"] = run[p].flags /\ s["cause"] = cause
    BY IdleIsLocal, SetThree, Fields
  <1> HIDE DEF s
  <1> QED BY <1>1, <1>2, Doing

LEMMA LeavingRecovers ==
  ASSUME Shape, NEW p \in Programs, NEW cause, Fails(p, cause) \/ Leaves(p, cause),
         cause \in MayEnd(run[p].flags), NEW d
  PROVE  Recovers(d, run'[p])
  <1>1. Retires(p) /\ run'[p].flags = run[p].flags /\ run'[p].cause = cause
    BY Leaving, LeavingCause DEF Fails, Leaves, Gone
  <1> QED BY <1>1 DEF Retires, Gone, Recovers, Loaded, Assigned, Ending

LEMMA IdleRecovers ==
  ASSUME Shape, NEW p \in Programs, Does(p, Idle), NEW d
  PROVE  Recovers(d, run'[p])
  <1>1. run'[p] = Idle
    BY IdleIsLocal, Doing
  <1>2. Idle.pc = "idle" /\ Idle.cause = "none" /\ ~Idle.again
    BY DEF Idle
  <1> QED BY <1>1, <1>2, Harmless DEF Recovers, Loaded, Assigned, Ending

\* Going on with nothing new to remember.
Plainly == {"acquire", "metadata", "describe", "validate", "tables", "features", "targets",
            "schema", "data_manifest", "load_tables"}

LEMMA GoingRecovers ==
  ASSUME Shape, NEW p \in Programs, NEW pc, Goes(p, pc), NEW d, Recovers(d, run[p]),
         \/ pc \in Plainly
         \/ pc \in Loaded /\ run[p].tables = TablesOf(d)
            /\ (pc \in {"write_split"} \cup Ending => run[p].split.assignments = d.raw)
  PROVE  Recovers(d, run'[p])
  <1>1. /\ run'[p].pc = pc /\ run'[p].flags = run[p].flags /\ run'[p].again = run[p].again
        /\ run'[p].tables = run[p].tables /\ run'[p].split = run[p].split
        /\ run'[p].first = run[p].first /\ run'[p].cause = run[p].cause
    BY Going
  <1>2. CASE pc \in Plainly
    BY <1>1, <1>2 DEF Plainly, Recovers, Loaded, Assigned, Ending
  <1>3. CASE /\ pc \in Loaded /\ run[p].tables = TablesOf(d)
             /\ pc \in {"write_split"} \cup Ending => run[p].split.assignments = d.raw
    BY <1>1, <1>3 DEF Recovers, Loaded, Assigned, Ending
  <1> QED BY <1>2, <1>3

\* A step that sets its place and one field more.
Continues(p, pc, f, x) ==
  /\ run'[p].pc = pc /\ run'[p].flags = run[p].flags /\ run'[p].again = run[p].again
  /\ run'[p].first = run[p].first /\ run'[p].cause = run[p].cause /\ run'[p][f] = x
  /\ f # "tables" => run'[p].tables = run[p].tables
  /\ f # "split" => run'[p].split = run[p].split

LEMMA Continuing ==
  ASSUME Shape, NEW p \in Programs, NEW pc,
         NEW f \in {"md5", "content", "source", "tables", "split", "summary"}, NEW x,
         Does(p, SettingTwo(run[p], "pc", pc, f, x))
  PROVE  Continues(p, pc, f, x)
  <1> DEFINE s == SettingTwo(run[p], "pc", pc, f, x)
  <1>1. /\ IsLocal(s) /\ s["pc"] = pc /\ s[f] = x
        /\ \A h \in LocalFields : h \notin {"pc", f} => s[h] = run[p][h]
    BY SetTwo, Fields DEF Shape
  <1>2. Does(p, s)
    OBVIOUS
  <1> HIDE DEF s
  <1>3. run'[p] = s
    BY <1>1, <1>2, Doing
  <1> QED BY <1>1, <1>3, Fields DEF Continues

\* Everything that is known where nothing was changed.
Good == IInv /\ Quiet /\ Untroubled /\ trouble.changes = 0

LEMMA GoodKnown ==
  ASSUME Good, NEW p \in Programs
  PROVE  /\ IInv /\ Shape /\ Knows(disk, run[p]) /\ Recovers(disk, run[p]) /\ Healthy(disk)
         /\ provider.content = Recorded /\ provider.md5 = Recorded /\ provider.frozen
         /\ run[p].again => Whole
         /\ disk.source # None => disk.raw # None
         /\ lock # None => disk.source = None
         /\ Recorded \in Sound /\ Recorded \in Versions /\ Recorded # None
  BY Known, DataFoundationAssumption DEF Good, Untroubled, Quiet, Passing

LEMMA SourcedIsRecorded ==
  ASSUME Good, Sourced(disk)
  PROVE  disk.raw = Recorded /\ disk.source # None /\ disk.source.describes = Recorded
  <1>1. Healthy(disk) /\ None \notin Versions
    BY DataFoundationAssumption DEF Good, Untroubled
  <1> QED BY <1>1, FilesAssumption DEF Sourced, Healthy

\* The raw file and the manifest that are on disk fit.
LEMMA CacheFits ==
  ASSUME Good, ~Missing({"raw", "source"})
  PROVE  CacheManifestIsValid
  BY DEF Good, Untroubled, Healthy, Missing, CacheManifestIsValid

LEMMA CheckCacheRecovers ==
  ASSUME Good, NEW p \in Programs, CheckCache(p)
  PROVE  Recovers(disk', run'[p])
  <1>0. /\ Shape /\ Recovers(disk, run[p]) /\ disk' = disk /\ (run[p].again => Whole)
    BY GoodKnown DEF CheckCache
  <1>1. CASE Does(p, [run[p] EXCEPT !.pc = "validate", !.source = disk.source])
    <2>1. Does(p, SettingTwo(run[p], "pc", "validate", "source", disk.source))
      BY <1>1 DEF SettingTwo
    <2>2. Continues(p, "validate", "source", disk.source)
      BY <1>0, <2>1, Continuing, Zenon
    <2> QED BY <1>0, <2>2 DEF Continues, Recovers, Loaded, Assigned, Ending
  <1>2. CASE Missing({"raw", "source"}) /\ Offline(p) /\ Fails(p, "offline")
    <2>1. ~Whole
      BY <1>2, WholeMeans DEF Missing
    <2>2. "offline" \in MayEnd(run[p].flags)
      BY <1>0, <1>2, <2>1 DEF Offline, MayEnd
    <2> QED BY <1>0, <1>2, <2>2, LeavingRecovers
  <1>3. CASE Goes(p, "metadata")
    BY <1>0, <1>3, GoingRecovers DEF Plainly
  <1>4. CASE ~Missing({"raw", "source"}) /\ ~CacheManifestIsValid
    BY <1>4, CacheFits
  <1> QED BY <1>1, <1>2, <1>3, <1>4 DEF CheckCache

LEMMA FetchMetadataRecovers ==
  ASSUME Good, NEW p \in Programs, FetchMetadata(p)
  PROVE  Recovers(disk', run'[p])
  <1>0. /\ Shape /\ Recovers(disk, run[p]) /\ Tame(disk, disk')
        /\ provider.md5 = Recorded /\ provider.frozen
    BY GoodKnown, FetchMetadataMoves DEF Moves
  <1>1. Does(p, SettingTwo(run[p], "pc", "stream", "md5", provider.md5))
    BY <1>0 DEF SettingTwo, FetchMetadata, MetadataVerified
  <1>2. Continues(p, "stream", "md5", provider.md5)
    BY <1>0, <1>1, Continuing, Zenon
  <1>3. Recovers(disk', run[p])
    BY <1>0, TameKeepsRecovery
  <1> QED BY <1>0, <1>2, <1>3 DEF Continues, Recovers, Loaded, Assigned, Ending

LEMMA StreamRecovers ==
  ASSUME Good, NEW p \in Programs, Stream(p)
  PROVE  Recovers(disk', run'[p])
  <1>0. /\ Shape /\ Recovers(disk, run[p]) /\ disk' = disk /\ provider.content = Recorded
    BY GoodKnown DEF Stream
  <1>1. run[p].md5 = Recorded
    BY <1>0 DEF Recovers, Stream, At
  <1>2. Does(p, SettingTwo(run[p], "pc", "promote", "content", provider.content))
    BY <1>0, <1>1 DEF SettingTwo, Stream
  <1>3. Continues(p, "promote", "content", provider.content)
    BY <1>0, <1>2, Continuing, Zenon
  <1> QED BY <1>0, <1>3 DEF Continues, Recovers, Loaded, Assigned, Ending

LEMMA EarlyFailuresRecover ==
  ASSUME Good, NEW p \in Programs, LockTimesOut(p) \/ TransportFails(p)
  PROVE  Recovers(disk', run'[p])
  BY GoodKnown, LeavingRecovers, Harmless DEF LockTimesOut, TransportFails

LEMMA ValidateSourceRecovers ==
  ASSUME Good, NEW p \in Programs, ValidateSource(p)
  PROVE  Recovers(disk', run'[p])
  <1>0. /\ Shape /\ Recovers(disk, run[p]) /\ Tame(disk, disk') /\ Knows(disk, run[p])
        /\ run[p].pc = "validate" /\ Recorded \in Sound
    BY GoodKnown, ValidateSourceMoves DEF Moves, ValidateSource, At
  <1>1. Sourced(disk)
    BY <1>0 DEF Knows, Settled, Gone, Acquiring, Auditing
  <1>2. disk.raw \in Sound
    BY <1>0, <1>1, SourcedIsRecorded
  <1>3. Goes(p, "tables")
    BY <1>2 DEF ValidateSource, SourceHolds, Parses
  <1>4. Recovers(disk', run[p])
    BY <1>0, TameKeepsRecovery
  <1> QED BY <1>0, <1>3, <1>4, GoingRecovers DEF Plainly

LEMMA ChooseTablesRecovers ==
  ASSUME Good, NEW p \in Programs, ChooseTables(p)
  PROVE  Recovers(disk', run'[p])
  <1>0. /\ Shape /\ Recovers(disk, run[p]) /\ disk' = disk
    BY GoodKnown DEF ChooseTables
  <1>1. CASE Goes(p, "features")
    BY <1>0, <1>1, GoingRecovers DEF Plainly
  <1>2. CASE /\ Goes(p, "load_manifest")
             /\ Flagged(p, "validate_only") \/ disk.dataManifest # None
    <2>1. /\ run'[p].pc = "load_manifest" /\ run'[p].flags = run[p].flags
          /\ run'[p].again = run[p].again /\ run'[p].first = run[p].first
          /\ run'[p].cause = run[p].cause
      BY <1>0, <1>2, Going
    <2>2. disk.dataManifest # None \/ "validate_only" \in run[p].flags
      BY <1>2 DEF Flagged
    <2> QED BY <1>0, <2>1, <2>2 DEF Continues, Recovers, Loaded, Assigned, Ending
  <1> QED BY <1>1, <1>2 DEF ChooseTables

LEMMA LoadManifestRecovers ==
  ASSUME Good, NEW p \in Programs, LoadManifest(p)
  PROVE  Recovers(disk', run'[p])
  <1>0. /\ Shape /\ Recovers(disk, run[p]) /\ disk' = disk /\ Knows(disk, run[p])
        /\ run[p].pc = "load_manifest" /\ Healthy(disk) /\ Recorded # None
    BY GoodKnown DEF LoadManifest, At
  <1>1. Sourced(disk) /\ run[p].source = disk.source
    BY <1>0 DEF Knows, Settled, Gone, Acquiring, Auditing
  <1>2. CASE Missing(Processed) /\ Fails(p, "incomplete")
    <2>1. disk.dataManifest = None
      BY <1>0, <1>2 DEF Missing, Processed, Healthy
    <2>2. "incomplete" \in MayEnd(run[p].flags)
      BY <1>0, <2>1 DEF Recovers, MayEnd
    <2> QED BY <1>0, <1>2, <2>2, LeavingRecovers
  <1>3. CASE ~Missing(Processed)
    <2>1. disk.dataManifest # None
      BY <1>3 DEF Missing, Processed
    <2>2. /\ disk.dataManifest.raw = run[p].source.describes
          /\ disk.dataManifest.source = disk.source
      BY <1>0, <1>1, <2>1 DEF Healthy, ManifestOf
    <2>3. Goes(p, "load_tables")
      BY <1>3, <2>2 DEF LoadManifest
    <2> QED BY <1>0, <2>3, GoingRecovers DEF Plainly
  <1> QED BY <1>2, <1>3 DEF LoadManifest

LEMMA LoadTablesRecovers ==
  ASSUME Good, NEW p \in Programs, LoadTables(p)
  PROVE  Recovers(disk', run'[p])
  <1>0. /\ Shape /\ Recovers(disk, run[p]) /\ disk' = disk /\ Knows(disk, run[p])
        /\ run[p].pc = "load_tables"
    BY GoodKnown DEF LoadTables, At
  <1>1. Tables = TablesOf(disk)
    <2>1. Built(disk)
      BY <1>0 DEF Knows
    <2> QED BY <2>1 DEF Built, Tables, TablesOf
  <1>2. Does(p, SettingTwo(run[p], "pc", "processed", "tables", Tables))
    BY DEF SettingTwo, LoadTables
  <1>3. Continues(p, "processed", "tables", Tables)
    BY <1>0, <1>2, Continuing, Zenon
  <1> QED BY <1>0, <1>1, <1>3 DEF Continues, Recovers, Loaded, Assigned, Ending

LEMMA WriteTableRecovers ==
  ASSUME Good, NEW p \in Programs, WriteTable(p)
  PROVE  Recovers(disk', run'[p])
  <1>0. /\ Shape /\ Recovers(disk, run[p]) /\ Tame(disk, disk') /\ Knows(disk, run[p])
    BY GoodKnown, WriteTableMoves DEF Moves
  <1>1. PICK f \in Writing :
          /\ run[p].pc = f
          /\ \/ f = "schema" /\ ~RoundTrips(p)
             \/ Goes(p, After[f])
    BY DEF WriteTable, At
  <1>2. Sourced(disk) /\ run[p].source = disk.source
    BY <1>0, <1>1 DEF Knows, Settled, Gone, Acquiring, Auditing, Writing
  <1>3. f = "schema" => RoundTrips(p)
    BY <1>0, <1>1, <1>2 DEF Knows, RoundTrips, Sourced
  <1>4. Goes(p, After[f]) /\ After[f] \in Plainly
    BY <1>1, <1>3 DEF Writing, After, Plainly
  <1>5. Recovers(disk', run[p])
    BY <1>0, TameKeepsRecovery
  <1> QED BY <1>0, <1>4, <1>5, GoingRecovers

LEMMA WriteDataManifestRecovers ==
  ASSUME Good, NEW p \in Programs, WriteDataManifest(p)
  PROVE  Recovers(disk', run'[p])
  <1> DEFINE manifest == [raw |-> run[p].source.describes, source |-> run[p].source,
                          features |-> disk.features, targets |-> disk.targets,
                          schema |-> disk.schema]
             tables == [features |-> run[p].source.describes,
                        targets |-> run[p].source.describes, manifest |-> manifest]
  <1>0. /\ Shape /\ Recovers(disk, run[p]) /\ Tame(disk, disk') /\ Knows(disk, run[p])
        /\ run[p].pc = "data_manifest"
    BY GoodKnown, WriteDataManifestMoves DEF Moves, WriteDataManifest, At
  <1>1. /\ Sourced(disk) /\ run[p].source = disk.source /\ disk.features = disk.raw
        /\ disk.targets = disk.raw /\ disk.schema = disk.raw
    BY <1>0 DEF Knows, Settled, Gone, Acquiring, Auditing
  <1>2. tables = TablesOf(disk)
    BY <1>1 DEF Sourced, TablesOf, ManifestOf
  <1>3. TablesOf(disk') = TablesOf(disk)
    BY <1>0 DEF Tame, TablesOf
  <1>4. Does(p, SettingTwo(run[p], "pc", "processed", "tables", tables))
    BY DEF SettingTwo, WriteDataManifest
  <1> HIDE DEF manifest, tables
  <1>5. Continues(p, "processed", "tables", tables)
    BY <1>0, <1>4, Continuing, Zenon
  <1>6. Recovers(disk', run[p])
    BY <1>0, TameKeepsRecovery
  <1> QED BY <1>2, <1>3, <1>5, <1>6 DEF Continues, Recovers, Loaded, Assigned, Ending

\* Past the tables a program goes on with what it has.
LEMMA LoadedGoingRecovers ==
  ASSUME Good, NEW p \in Programs, Tame(disk, disk'), run[p].pc \in Loaded,
         NEW pc \in Loaded, Goes(p, pc),
         pc \in {"write_split"} \cup Ending => run[p].pc \in {"write_split"} \cup Ending
  PROVE  Recovers(disk', run'[p])
  <1>0. Shape /\ Recovers(disk, run[p])
    BY GoodKnown
  <1>1. Recovers(disk', run[p])
    BY <1>0, TameKeepsRecovery
  <1>2. /\ run[p].tables = TablesOf(disk')
        /\ pc \in {"write_split"} \cup Ending => run[p].split.assignments = disk'.raw
    BY <1>1 DEF Recovers
  <1> QED BY <1>0, <1>1, <1>2, GoingRecovers

LEMMA ValidateProcessedRecovers ==
  ASSUME Good, NEW p \in Programs, ValidateProcessed(p)
  PROVE  Recovers(disk', run'[p])
  <1>0. /\ Tame(disk, disk') /\ Knows(disk, run[p]) /\ run[p].pc = "processed"
    BY GoodKnown, ValidateProcessedMoves DEF Moves, ValidateProcessed, At
  <1>1. /\ Built(disk) /\ run[p].tables.features = disk.raw /\ run[p].tables.targets = disk.raw
    BY <1>0 DEF Knows, Loaded
  <1>2. ProcessedHolds(p)
    BY <1>1 DEF ProcessedHolds, Built
  <1>3. Goes(p, "assign")
    BY <1>2 DEF ValidateProcessed
  <1> QED BY <1>0, <1>3, LoadedGoingRecovers DEF Loaded, Assigned, Ending

LEMMA CheckAssignmentsRecovers ==
  ASSUME Good, NEW p \in Programs, CheckAssignments(p)
  PROVE  Recovers(disk', run'[p])
  <1>0. /\ Tame(disk, disk') /\ Knows(disk, run[p]) /\ run[p].pc = "assign" /\ Healthy(disk)
    BY GoodKnown, CheckAssignmentsMoves DEF Moves, CheckAssignments, At
  <1>1. /\ Sourced(disk) /\ run[p].tables.features = disk.raw /\ run[p].tables.targets = disk.raw
    BY <1>0 DEF Knows, Loaded, Settled, Gone, Acquiring, Auditing
  <1>2. disk.raw = Recorded
    BY <1>1, SourcedIsRecorded
  <1>3. Assignable(run[p].tables) /\ disk.assignments \in {None, Assignment(run[p].tables)}
    BY <1>0, <1>1, <1>2, RecordedAssumption DEF Assignable, Assignment, Healthy
  <1>4. Goes(p, "write_assignments") \/ Goes(p, "split")
    BY <1>3 DEF CheckAssignments
  <1> QED BY <1>0, <1>4, LoadedGoingRecovers DEF Loaded, Assigned, Ending

LEMMA WritingSplitsRecovers ==
  ASSUME Good, NEW p \in Programs, WriteAssignments(p) \/ WriteSplitManifest(p)
  PROVE  Recovers(disk', run'[p])
  <1>1. CASE WriteAssignments(p)
    BY <1>1, WriteAssignmentsMoves, LoadedGoingRecovers
       DEF Good, Moves, WriteAssignments, At, Loaded, Assigned, Ending
  <1>2. CASE WriteSplitManifest(p)
    BY <1>2, WriteSplitManifestMoves, LoadedGoingRecovers
       DEF Good, Moves, WriteSplitManifest, At, Loaded, Assigned, Ending
  <1> QED BY <1>1, <1>2

LEMMA ReadSplitManifestRecovers ==
  ASSUME Good, NEW p \in Programs, ReadSplitManifest(p)
  PROVE  Recovers(disk', run'[p])
  <1> DEFINE old == disk.splitManifest
             new == [assignments |-> disk.assignments, data |-> run[p].tables.manifest,
                     stamp |-> IF old = None THEN run[p].number ELSE old.stamp]
             pc == IF new = old THEN "summary" ELSE "write_split"
  <1>0. /\ Shape /\ Recovers(disk, run[p]) /\ disk' = disk /\ Knows(disk, run[p])
        /\ run[p].pc = "split"
    BY GoodKnown DEF ReadSplitManifest, At
  <1>1. Does(p, SettingTwo(run[p], "pc", pc, "split", new))
    BY DEF SettingTwo, ReadSplitManifest
  <1>2. pc \in {"summary", "write_split"} /\ new.assignments = disk.raw
    BY <1>0 DEF Knows, Assigned
  <1> HIDE DEF new, pc
  <1>3. Continues(p, pc, "split", new)
    BY <1>0, <1>1, Continuing, Zenon
  <1> QED BY <1>0, <1>2, <1>3 DEF Continues, Recovers, Loaded, Assigned, Ending

LEMMA WriteSummaryRecovers ==
  ASSUME Good, NEW p \in Programs, WriteSummary(p)
  PROVE  Recovers(disk', run'[p])
  <1> DEFINE kept == IF run[p].again THEN run[p].summary ELSE Summary
  <1>0. /\ Shape /\ Recovers(disk, run[p]) /\ Tame(disk, disk') /\ run[p].pc = "summary"
    BY GoodKnown, WriteSummaryMoves DEF Moves, WriteSummary, At
  <1>1. Does(p, SettingTwo(run[p], "pc", "pass", "summary", kept))
    BY DEF SettingTwo, WriteSummary
  <1> HIDE DEF kept
  <1>2. Continues(p, "pass", "summary", kept)
    BY <1>0, <1>1, Continuing, Zenon
  <1>3. Recovers(disk', run[p])
    BY <1>0, TameKeepsRecovery
  <1> QED BY <1>0, <1>2, <1>3 DEF Continues, Recovers, Loaded, Assigned, Ending

\* What a program compares by is what it would have found in its first run.
LEMMA EndingOutcome ==
  ASSUME Good, NEW p \in Programs, run[p].pc \in Ending
  PROVE  Outcome(p) = FirstOf(disk)
  <1>0. Recovers(disk, run[p]) /\ Knows(disk, run[p])
    BY GoodKnown
  <1>1. Sourced(disk) /\ run[p].source = disk.source
    BY <1>0 DEF Knows, Ending, Settled, Gone, Acquiring, Auditing
  <1>2. run[p].tables = TablesOf(disk) /\ run[p].split.assignments = disk.raw
    BY <1>0 DEF Recovers, Loaded, Assigned, Ending
  <1> QED BY <1>1, <1>2 DEF Outcome, FirstOf, Sourced

LEMMA WritePassRecovers ==
  ASSUME Good, NEW p \in Programs, WritePass(p)
  PROVE  Recovers(disk', run'[p])
  <1>0. Shape /\ Tame(disk, disk') /\ run[p].pc = "pass"
    BY GoodKnown, WritePassMoves DEF Moves, WritePass, At
  <1>1. CASE Offline(p)
    <2>1. Goes(p, "finish")
      BY <1>1 DEF WritePass
    <2> QED BY <1>0, <2>1, LoadedGoingRecovers DEF Loaded, Assigned, Ending
  <1>2. CASE ~Offline(p)
    <2>1. /\ run'[p].pc = "acquire" /\ run'[p].first = Outcome(p) /\ run'[p].cause = "none"
      BY <1>0, <1>2, RunningAgain
    <2>2. Outcome(p) = FirstOf(disk)
      BY <1>0, EndingOutcome DEF Ending
    <2>3. FirstOf(disk') = FirstOf(disk)
      BY <1>0 DEF Tame, FirstOf, TablesOf
    <2> QED BY <2>1, <2>2, <2>3, Harmless DEF Recovers, Loaded, Assigned, Ending
  <1> QED BY <1>1, <1>2

\* A rerun never differs.
LEMMA FinishRecovers ==
  ASSUME Good, NEW p \in Programs, Finish(p)
  PROVE  Recovers(disk', run'[p])
  <1>0. Shape /\ Recovers(disk, run[p]) /\ run[p].pc = "finish"
    BY GoodKnown DEF Finish, At
  <1>1. run[p].again => run[p].first = Outcome(p)
    BY <1>0, EndingOutcome DEF Recovers, Ending
  <1>2. Leaves(p, "done")
    BY <1>1 DEF Finish
  <1> QED BY <1>0, <1>2, LeavingRecovers, Harmless

LEMMA EndsRecover ==
  ASSUME Good, NEW p \in Programs, WriteFailure(p) \/ Exit(p) \/ Die(p)
  PROVE  Recovers(disk', run'[p])
  BY GoodKnown, IdleRecovers DEF WriteFailure, Exit, Die

LEMMA WriteStageBackRecovers ==
  ASSUME Good, NEW p \in Programs, WriteStageBack(p)
  PROVE  Recovers(disk', run'[p])
  BY GoodKnown, LeavingRecovers DEF WriteStageBack, Recovers

\* The audit and the other reader hold tables of the recorded version.
LEMMA CheckSplitEvidenceRecovers ==
  ASSUME Good, NEW p \in Programs, CheckSplitEvidence(p)
  PROVE  Recovers(disk', run'[p]) /\ disk'.tmp \in {disk.tmp, Recorded}
  <1>0. /\ Shape /\ Recovers(disk, run[p]) /\ Tame(disk, disk') /\ run[p].pc = "audit_split"
        /\ Healthy(disk)
    BY GoodKnown, CheckSplitEvidenceMoves DEF Moves, CheckSplitEvidence, At
  <1>1. run[p].tables.features = Recorded /\ run[p].tables.targets = Recorded
    BY <1>0 DEF Recovers
  <1>2. CASE Missing({"assignments", "splitManifest"}) /\ Raises(p, "missing")
    BY <1>0, <1>2, LeavingRecovers, Harmless DEF Raises
  <1>3. CASE ~Missing({"assignments", "splitManifest"})
    <2>1. Assignable(run[p].tables) /\ Assignment(run[p].tables) = Recorded
      BY <1>1, RecordedAssumption DEF Assignable, Assignment
    <2>2. disk.assignments = Recorded /\ disk.tmp \in {None, Recorded}
      BY <1>0, <1>3 DEF Missing, Healthy
    <2>3. SplitRepeats(run[p].tables)
      BY <2>1, <2>2 DEF SplitRepeats
    <2>4. /\ Writes("tmp", Recorded)
          /\ Does(p, SettingTwo(run[p], "pc", "audit_gates", "split", disk.splitManifest))
      BY <1>3, <2>1, <2>3 DEF CheckSplitEvidence, SettingTwo
    <2>5. Continues(p, "audit_gates", "split", disk.splitManifest)
      BY <1>0, <2>4, Continuing, Zenon
    <2>6. Recovers(disk', run[p])
      BY <1>0, TameKeepsRecovery
    <2>7. disk'.tmp = Recorded
      BY <1>0, <2>4, WritingField, RecordFields
    <2> QED BY <2>5, <2>6, <2>7 DEF Continues, Recovers, Loaded, Assigned, Ending
  <1> QED BY <1>2, <1>3 DEF CheckSplitEvidence, Raises

LEMMA JudgeGatesRecovers ==
  ASSUME Good, NEW p \in Programs, JudgeGates(p)
  PROVE  Recovers(disk', run'[p])
  <1>0. Shape
    BY GoodKnown
  <1>1. CASE Leaves(p, "missing")
    BY <1>0, <1>1, LeavingRecovers, Harmless
  <1>2. ASSUME NEW cause \in {"verified", "failed"},
               Does(p, [Idle EXCEPT !.pc = "audit_back", !.content = disk.stage, !.cause = cause])
        PROVE  Recovers(disk', run'[p])
    <2> DEFINE s == SettingThree(Idle, "pc", "audit_back", "content", disk.stage, "cause", cause)
    <2>1. Does(p, s)
      BY <1>2 DEF SettingThree
    <2>2. /\ IsLocal(s) /\ s["pc"] = "audit_back" /\ s["cause"] = cause
          /\ \A i \in LocalFields : i \notin {"pc", "content", "cause"} => s[i] = Idle[i]
      BY IdleIsLocal, SetThree, Fields
    <2> HIDE DEF s
    <2>3. run'[p] = s
      BY <1>0, <2>1, <2>2, Doing
    <2>4. s.again = Idle.again /\ ~Idle.again
      BY <2>2, Fields DEF Idle
    <2>5. cause \in MayEnd(s.flags)
      BY Harmless
    <2> QED BY <2>2, <2>3, <2>4, <2>5 DEF Recovers, Loaded, Assigned, Ending
  <1> QED BY <1>1, <1>2 DEF JudgeGates

LEMMA ValidateLegacySmokeRecovers ==
  ASSUME Good, NEW p \in Programs, ValidateLegacySmoke(p)
  PROVE  Recovers(disk', run'[p])
  <1>0. Shape /\ Recovers(disk, run[p]) /\ run[p].pc = "legacy" /\ Healthy(disk)
    BY GoodKnown DEF ValidateLegacySmoke, At
  <1>1. CASE Missing(Processed)
    BY <1>0, <1>1, LeavingRecovers, Harmless DEF ValidateLegacySmoke
  <1>2. CASE ~Missing(Processed)
    <2>1. disk.dataManifest # None
      BY <1>2 DEF Missing, Processed
    <2>2. /\ disk.dataManifest = ManifestOf(disk.source) /\ disk.source.describes = Recorded
          /\ disk.features = Recorded /\ disk.targets = Recorded /\ disk.schema = Recorded
      BY <1>0, <2>1 DEF Healthy
    <2>3. \A f \in Processed \ {"dataManifest"} : disk.dataManifest[f] = disk[f]
      BY <2>2 DEF Processed, ManifestOf
    <2>4. disk.dataManifest.raw = Recorded
      BY <2>2 DEF ManifestOf
    <2>5. LegacySmokeHolds(p)
      BY <1>0, <2>2, <2>3, <2>4 DEF LegacySmokeHolds, Recovers
    <2> QED BY <1>0, <1>2, <2>5, LeavingRecovers, Harmless DEF ValidateLegacySmoke
  <1> QED BY <1>1, <1>2

\* Tables that are on disk are of the recorded version.
LEMMA StartsRecover ==
  ASSUME Good, NEW p \in Programs, Starts(p)
  PROVE  Recovers(disk', run'[p])
  <1>0. Shape /\ Healthy(disk)
    BY GoodKnown
  <1>1. CASE Leaves(p, "missing")
    BY <1>0, <1>1, LeavingRecovers, Harmless
  <1>2. ~Missing({"raw", "source", "features", "targets"}) =>
          /\ Tables.features = Recorded /\ Tables.targets = Recorded
          /\ disk.source.describes = Recorded
    BY <1>0 DEF Missing, Healthy, Tables
  <1>3. CASE StartPreparation(p)
    <2> DEFINE next == starts + 1
    <2>1. PICK flags : Does(p, SettingThree(Idle, "pc", "acquire", "flags", flags, "number", next))
      BY <1>3 DEF StartPreparation, SettingThree
    <2> DEFINE s == SettingThree(Idle, "pc", "acquire", "flags", flags, "number", next)
    <2> HIDE DEF next
    <2>2. /\ IsLocal(s) /\ s["pc"] = "acquire"
          /\ \A i \in LocalFields : i \notin {"pc", "flags", "number"} => s[i] = Idle[i]
      BY IdleIsLocal, SetThree, Fields
    <2>3. Does(p, s)
      BY <2>1
    <2> HIDE DEF s
    <2>4. run'[p] = s
      BY <1>0, <2>2, <2>3, Doing
    <2>5. s.again = Idle.again /\ s.cause = Idle.cause
      BY <2>2, Fields
    <2>6. ~Idle.again /\ Idle.cause = "none"
      BY DEF Idle
    <2> QED BY <2>2, <2>4, <2>5, <2>6, Harmless DEF Recovers, Loaded, Assigned, Ending
  <1>4. CASE StartAudit(p)
    <2>1. CASE /\ ~Missing({"raw", "source", "features", "targets"})
               /\ Does(p, [Idle EXCEPT !.pc = "audit_split", !.source = disk.source,
                                       !.number = starts + 1, !.tables = Tables])
      <3> DEFINE next == starts + 1
                 half == SettingTwo(Idle, "source", disk.source, "tables", Tables)
                 s == SettingTwo(half, "pc", "audit_split", "number", next)
      <3>1. Does(p, s)
        BY <2>1 DEF SettingTwo
      <3> HIDE DEF next
      <3>2. /\ IsLocal(half) /\ half["tables"] = Tables
            /\ \A i \in LocalFields : i \notin {"source", "tables"} => half[i] = Idle[i]
        BY IdleIsLocal, SetTwo, Fields
      <3> HIDE DEF half
      <3>3. /\ IsLocal(s) /\ s["pc"] = "audit_split"
            /\ \A i \in LocalFields : i \notin {"pc", "number"} => s[i] = half[i]
        BY <3>2, SetTwo, Fields
      <3> HIDE DEF s
      <3>4. run'[p] = s
        BY <1>0, <3>1, <3>3, Doing
      <3>5. s.tables = Tables /\ s.again = Idle.again /\ s.cause = Idle.cause
        BY <3>2, <3>3, Fields
      <3>6. ~Idle.again /\ Idle.cause = "none"
        BY DEF Idle
      <3> QED BY <1>2, <2>1, <3>3, <3>4, <3>5, <3>6, Harmless
              DEF Recovers, Loaded, Assigned, Ending
    <2> QED BY <1>1, <1>4, <2>1 DEF StartAudit
  <1>5. CASE StartLegacyCheck(p)
    <2>1. CASE /\ ~Missing({"raw", "source", "features", "targets"})
               /\ Does(p, [Idle EXCEPT !.pc = "legacy", !.source = disk.source,
                                       !.tables = Tables])
      <3> DEFINE s == SettingThree(Idle, "pc", "legacy", "source", disk.source, "tables", Tables)
      <3>1. Does(p, s)
        BY <2>1 DEF SettingThree
      <3>2. /\ IsLocal(s) /\ s["pc"] = "legacy" /\ s["source"] = disk.source
            /\ s["tables"] = Tables
            /\ \A i \in LocalFields : i \notin {"pc", "source", "tables"} => s[i] = Idle[i]
        BY IdleIsLocal, SetThree, Fields
      <3> HIDE DEF s
      <3>3. run'[p] = s
        BY <1>0, <3>1, <3>2, Doing
      <3>4. s.again = Idle.again /\ s.cause = Idle.cause
        BY <3>2, Fields
      <3>5. ~Idle.again /\ Idle.cause = "none"
        BY DEF Idle
      <3> QED BY <1>2, <2>1, <3>2, <3>3, <3>4, <3>5, Harmless
              DEF Recovers, Loaded, Assigned, Ending
    <2> QED BY <1>1, <1>5, <2>1 DEF StartLegacyCheck
  <1> QED BY <1>3, <1>4, <1>5 DEF Starts

\* Whoever holds the lock is the only one who knows anything of the files, and
\* there is no source manifest.
LEMMA AsideKeepsRecovery ==
  ASSUME NEW d, NEW e, NEW r, Recovers(d, r), ~Settled(r.pc), ~r.again
  PROVE  Recovers(e, r)
  BY DEF Recovers, Settled, Gone, Acquiring, Auditing, Loaded, Assigned, Ending

LEMMA LockedOut ==
  ASSUME Good, NEW p \in Programs, run[p].pc \in Downloading
  PROVE  /\ disk.source = None /\ disk.dataManifest = None /\ ~run[p].again
         /\ \A q \in Programs : \A d : q # p => Recovers(d, run[q])
  <1>1. lock = p /\ None \notin Programs /\ IInv
    BY Alone DEF Good
  <1>2. disk.source = None
    BY <1>1, GoodKnown
  <1>3. disk.dataManifest = None
    BY <1>2, GoodKnown DEF Healthy
  <1>4. ~Whole
    BY <1>2, WholeMeans
  <1>5. \A q \in Programs : Recovers(disk, run[q]) /\ ~run[q].again
    BY <1>4, GoodKnown
  <1>6. \A q \in Programs : q # p => ~Settled(run[q].pc)
    BY <1>1, Alone
  <1> QED BY <1>2, <1>3, <1>5, <1>6, AsideKeepsRecovery

LEMMA PromoteHeals ==
  ASSUME Good, NEW p \in Programs, Promote(p)
  PROVE  Healthy(disk') /\ \A q \in Programs : Recovers(disk', run'[q])
  <1>0. /\ Shape /\ Recovers(disk, run[p]) /\ Healthy(disk) /\ run[p].pc = "promote"
        /\ Recorded # None
    BY GoodKnown DEF Promote, At
  <1>1. run[p].content = Recorded
    BY <1>0 DEF Recovers
  <1>2. /\ disk.source = None /\ disk.dataManifest = None /\ ~run[p].again
        /\ \A q \in Programs : \A d : q # p => Recovers(d, run[q])
    BY <1>0, LockedOut DEF Downloading
  <1>3. Goes(p, "describe")
    BY <1>0, <1>1 DEF Promote, Healthy
  <1>4. RunMoves(p) /\ Recovers(disk', run'[p])
    <2>1. Recovers(disk', run[p])
      BY <1>0, <1>2, AsideKeepsRecovery DEF Settled, Acquiring
    <2> QED BY <1>0, <1>3, <2>1, Going, GoingRecovers DEF Plainly
  <1>5. Healthy(disk')
    <2>1. CASE UNCHANGED disk
      BY <1>0, <2>1
    <2>2. CASE Writes("raw", Recorded)
      <3>1. /\ disk'.raw = Recorded /\ disk'.features = disk.features
            /\ disk'.targets = disk.targets /\ disk'.schema = disk.schema
            /\ disk'.assignments = disk.assignments /\ disk'.tmp = disk.tmp
            /\ disk'.source = disk.source /\ disk'.dataManifest = disk.dataManifest
        <4>1. \A g \in DiskFields : g # "raw" => disk'[g] = disk[g]
          BY <1>0, <2>2, WritingField, RecordFields
        <4> QED BY <1>0, <2>2, <4>1, WritingField DEF DiskFields
      <3> QED BY <1>0, <1>2, <3>1 DEF Healthy
    <2> QED BY <1>0, <1>1, <2>1, <2>2 DEF Promote, Healthy
  <1> QED BY <1>2, <1>4, <1>5 DEF RunMoves

LEMMA WriteSourceHeals ==
  ASSUME Good, NEW p \in Programs, WriteSource(p)
  PROVE  Healthy(disk') /\ \A q \in Programs : Recovers(disk', run'[q])
  <1> DEFINE manifest == [describes |-> disk.raw, provider |-> run[p].md5,
                          stamp |-> run[p].number]
  <1>0. /\ Shape /\ Recovers(disk, run[p]) /\ Healthy(disk) /\ run[p].pc = "describe"
        /\ Knows(disk, run[p]) /\ None \notin Versions
    BY GoodKnown, DataFoundationAssumption DEF WriteSource, At
  <1>1. disk.raw = Recorded /\ manifest.describes = Recorded
    BY <1>0 DEF Knows, Healthy
  <1>2. /\ disk.source = None /\ disk.dataManifest = None /\ ~run[p].again
        /\ \A q \in Programs : \A d : q # p => Recovers(d, run[q])
    BY <1>0, LockedOut DEF Downloading
  <1>3. Writes("source", manifest)
    BY DEF WriteSource
  <1>4. RunMoves(p) /\ Recovers(disk', run'[p])
    <2> DEFINE half == SettingTwo(run[p], "pc", "validate", "source", manifest)
               whole == SettingTwo(half, "md5", None, "content", None)
    <2>1. Does(p, whole)
      BY DEF WriteSource, SettingTwo
    <2> HIDE DEF manifest
    <2>2. /\ IsLocal(half) /\ half["pc"] = "validate"
          /\ \A h \in LocalFields : h \notin {"pc", "source"} => half[h] = run[p][h]
      BY <1>0, SetTwo, Fields DEF Shape
    <2> HIDE DEF half
    <2>3. /\ IsLocal(whole)
          /\ \A h \in LocalFields : h \notin {"md5", "content"} => whole[h] = half[h]
      BY <2>2, SetTwo, Fields
    <2> HIDE DEF whole
    <2>4. run'[p] = whole /\ RunMoves(p)
      BY <1>0, <2>1, <2>3, Doing
    <2>5. /\ whole.pc = "validate" /\ whole.flags = run[p].flags
          /\ whole.again = run[p].again /\ whole.cause = run[p].cause
      BY <2>2, <2>3, Fields
    <2> QED BY <1>0, <1>2, <2>4, <2>5 DEF Recovers, Loaded, Assigned, Ending
  <1> HIDE DEF manifest
  <1>5. Healthy(disk')
    <2>1. /\ disk'.source = manifest /\ disk'.features = disk.features
          /\ disk'.targets = disk.targets /\ disk'.schema = disk.schema
          /\ disk'.assignments = disk.assignments /\ disk'.tmp = disk.tmp
          /\ disk'.raw = disk.raw /\ disk'.dataManifest = disk.dataManifest
      <3>1. \A g \in DiskFields : g # "source" => disk'[g] = disk[g]
        BY <1>0, <1>3, WritingField, RecordFields
      <3> QED BY <1>0, <1>3, <3>1, WritingField DEF DiskFields
    <2> QED BY <1>0, <1>1, <1>2, <2>1 DEF Healthy
  <1> QED BY <1>2, <1>4, <1>5 DEF RunMoves

\* Only the audit writes to its own split directories.
LEMMA OthersKeepTmp ==
  ASSUME Shape, NEW f \in DiskFields \ {"tmp"}, NEW x, Writes(f, x)
  PROVE  disk'.tmp = disk.tmp
  BY WritingField, RecordFields

LEMMA StepKeepsTmp ==
  ASSUME Good, NEW p \in Programs, Step(p)
  PROVE  disk'.tmp \in {disk.tmp, Recorded}
  <1>0. Shape
    BY GoodKnown
  <1>1. CASE UNCHANGED disk
    BY <1>1
  <1>2. CASE \E f \in DiskFields \ {"tmp"} : \E x : Writes(f, x)
    BY <1>0, <1>2, OthersKeepTmp
  <1>3. /\ {"metadata", "quality", "parts", "raw", "source", "stage", "summary", "dataManifest",
            "assignments", "splitManifest"} \subseteq DiskFields \ {"tmp"}
        /\ Writing \subseteq DiskFields \ {"tmp"}
    BY DEF DiskFields, Writing
  <1>4. CASE \/ StartPreparation(p) \/ CheckCache(p) \/ LockTimesOut(p) \/ FetchMetadata(p)
             \/ TransportFails(p) \/ Stream(p) \/ Promote(p) \/ WriteSource(p)
             \/ ValidateSource(p) \/ ChooseTables(p) \/ LoadManifest(p) \/ LoadTables(p)
    BY <1>1, <1>2, <1>3, <1>4 DEF StartPreparation, CheckCache, LockTimesOut, FetchMetadata,
       TransportFails, Stream, Promote, WriteSource, ValidateSource, ChooseTables,
       LoadManifest, LoadTables
  <1>5. CASE WriteTable(p)
    BY <1>1, <1>2, <1>3, <1>5 DEF WriteTable
  <1>6. CASE \/ WriteDataManifest(p) \/ ValidateProcessed(p) \/ CheckAssignments(p)
             \/ WriteAssignments(p) \/ ReadSplitManifest(p) \/ WriteSplitManifest(p)
             \/ WriteSummary(p) \/ WritePass(p) \/ WriteFailure(p) \/ Finish(p)
    BY <1>1, <1>2, <1>3, <1>6 DEF WriteDataManifest, ValidateProcessed, CheckAssignments,
       WriteAssignments, ReadSplitManifest, WriteSplitManifest, WriteSummary, WritePass,
       WriteFailure, Finish
  <1>7. CASE \/ StartAudit(p) \/ JudgeGates(p) \/ WriteStageBack(p) \/ StartLegacyCheck(p)
             \/ ValidateLegacySmoke(p) \/ Exit(p) \/ Die(p)
    BY <1>1, <1>2, <1>3, <1>7 DEF StartAudit, JudgeGates, WriteStageBack, StartLegacyCheck,
       ValidateLegacySmoke, Exit, Die
  <1> QED BY <1>4, <1>5, <1>6, <1>7, CheckSplitEvidenceRecovers DEF Step

LEMMA StepRecovers ==
  ASSUME Good, NEW p \in Programs, Step(p), ~Promote(p), ~WriteSource(p)
  PROVE  Recovers(disk', run'[p])
  BY CheckCacheRecovers, FetchMetadataRecovers, StreamRecovers, EarlyFailuresRecover,
     ValidateSourceRecovers, ChooseTablesRecovers, LoadManifestRecovers, LoadTablesRecovers,
     WriteTableRecovers, WriteDataManifestRecovers, ValidateProcessedRecovers,
     CheckAssignmentsRecovers, WritingSplitsRecovers, ReadSplitManifestRecovers,
     WriteSummaryRecovers, WritePassRecovers, FinishRecovers, EndsRecover,
     WriteStageBackRecovers, CheckSplitEvidenceRecovers, JudgeGatesRecovers,
     ValidateLegacySmokeRecovers, StartsRecover DEF Step, Starts

LEMMA StepHeals ==
  ASSUME Good, NEW p \in Programs, Step(p)
  PROVE  Healthy(disk') /\ (\A q \in Programs : Recovers(disk', run'[q])) /\ UNCHANGED provider
  <1>0. Shape /\ IInv /\ Healthy(disk) /\ \A q \in Programs : Recovers(disk, run[q])
    BY GoodKnown
  <1>1. CASE Moves(p) /\ ~Promote(p) /\ ~WriteSource(p)
    <2>1. /\ Tame(disk, disk') /\ UNCHANGED provider
          /\ \A q \in Programs : q # p => run'[q] = run[q]
      BY <1>1 DEF Moves, RunMoves, Surroundings
    <2> QED BY <1>0, <1>1, <2>1, StepRecovers, StepKeepsTmp, TameKeepsHealth, TameKeepsRecovery
  <1>2. CASE Starts(p) /\ ~Promote(p) /\ ~WriteSource(p)
    <2>1. disk' = disk /\ UNCHANGED provider
      BY <1>2 DEF Starts, StartPreparation, StartAudit, StartLegacyCheck
    <2>2. RunMoves(p)
      BY <1>0, <1>2, StartsAreCalm
    <2> QED BY <1>0, <1>2, <2>1, <2>2, StepRecovers DEF RunMoves
  <1>3. CASE Promote(p)
    BY <1>3, PromoteHeals DEF Promote
  <1>4. CASE WriteSource(p)
    BY <1>4, WriteSourceHeals DEF WriteSource
  <1> QED BY <1>0, <1>1, <1>2, <1>3, <1>4, StepCases

LEMMA NextUntroubled ==
  ASSUME IInv, Quiet, Untroubled, [Next]_vars
  PROVE  Untroubled'
  <1>0. Shape
    BY DEF IInv
  <1>1. CASE Remove \/ ReplaceRaw \/ Publish
    <2>1. Trouble("changes")
      BY <1>1 DEF Remove, ReplaceRaw, Publish
    <2>2. trouble'.changes # 0
      BY <1>0, <2>1, ChangeIsCounted
    <2> QED BY <2>2 DEF Untroubled
  <1>2. CASE UNCHANGED vars
    BY <1>2 DEF vars, Untroubled
  <1>3. ASSUME NEW p \in Programs, Step(p) PROVE Untroubled'
    <2>1. trouble'.changes = trouble.changes
      BY <1>3, StepCases DEF Moves, Surroundings, Starts, StartPreparation, StartAudit,
         StartLegacyCheck, Promote, WriteSource
    <2>2. ASSUME trouble.changes = 0
          PROVE  /\ Healthy(disk') /\ \A q \in Programs : Recovers(disk', run'[q])
                 /\ UNCHANGED provider
      BY <1>3, <2>2, StepHeals DEF Good
    <2> QED BY <2>1, <2>2 DEF Untroubled
  <1> QED BY <1>1, <1>2, <1>3 DEF Next

LEMMA InitUntroubled ==
  ASSUME Init
  PROVE  Untroubled
  <1>1. Healthy(disk)
    BY DEF Init, NoFiles, Healthy
  <1>2. Idle.pc = "idle" /\ Idle.cause = "none" /\ ~Idle.again
    BY DEF Idle
  <1>3. ASSUME NEW p \in Programs PROVE Recovers(disk, run[p])
    BY <1>2, <1>3, Harmless DEF Init, Recovers, Loaded, Assigned, Ending
  <1>4. provider.content = Recorded /\ provider.md5 = Recorded /\ provider.frozen
    BY DEF Init
  <1> QED BY <1>1, <1>3, <1>4 DEF Untroubled

\* However many programs die, and wherever: as long as nobody removes or
\* replaces a file and the provider publishes nothing new, a program that ends
\* has found nothing contradictory, and an online one fails for the network or
\* the lock only (download_dataset, run_pipeline, generate_splits and the rerun
\* in main of scripts/prepare_smoke_data.py; the audit and acquire_schemaorbit).
THEOREM DeathsAlwaysHeal == Spec => []DeathsHeal
  <1>1. IInv /\ Quiet /\ Untroubled => DeathsHeal
    BY DEF Untroubled, Recovers, DeathsHeal
  <1>2. Init => Quiet /\ Untroubled
    BY InitQuiet, InitUntroubled
  <1>3. IInv /\ Quiet /\ Untroubled /\ [Next]_vars => Quiet' /\ Untroubled'
    BY NextQuiet, NextUntroubled
  <1> QED BY <1>1, <1>2, <1>3, Invariance, PTL DEF Spec
=============================================================================
