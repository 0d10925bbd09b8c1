---------------------- MODULE SmokeExperiment_proofs ----------------------
(* Proofs about the smoke experiment (scripts/run_smoke_experiment.py and its *)
(* validator), for every number of runners, plans, conditions and troubles.   *)
(*                                                                            *)
(* First what each action sets of its runner's record, and that the records   *)
(* keep their types (TInv).  Then the invariant IInv: what the cache, the     *)
(* output files and the reports are, what each runner knows of them (Own),    *)
(* and what holds besides for a runner that is alone while no file changes    *)
(* (Solo).  A step of one runner leaves what the others know alone (Evolves,  *)
(* OthersKeep, FinalKeeps), so that of each action only the runner's own part *)
(* is left to show (StepKeeps, one lemma ...Keeps per action).  The           *)
(* properties of the reports follow from IInv.                                *)
EXTENDS SmokeExperiment, TLAPS, FiniteSetTheorems

-----------------------------------------------------------------------------
(* A runner's record as a function: what a step sets and what it leaves.      *)

LocalFields == {"pc", "plan", "mode", "existing", "hits", "executed", "queue", "training", "net",
                "seen", "left", "runs", "split", "metrics", "unchanged", "coldStatus", "coldRuns",
                "before", "verification"}

IsLocal(u) == u = [f \in LocalFields |-> u[f]]
Same(u, v, F) == \A f \in LocalFields \ F : v[f] = u[f]

\* The step of runner r as the others see it.
Moves(r) == run' = [run EXCEPT ![r] = run'[r]]
Quiet == UNCHANGED <<intact, cache, task, predictions, metrics, reports, records, trouble>>

\* A runner that ended, or has not begun, knows nothing.
Blank(u) == IsLocal(u) /\ Same(Idle, u, {"pc", "plan"})
EndsAs(r, how) == Blank(run'[r]) /\ run'[r].pc = how /\ run'[r].plan = Me(r)

LEMMA LocalRecords ==
  ASSUME NEW u \in RunRecords
  PROVE  IsLocal(u)
  BY DEF RunRecords, IsLocal, LocalFields

LEMMA StepMoves ==
  ASSUME NEW r \in Runners, run \in [Runners -> RunRecords], NEW f, Does(r, f)
  PROVE  Moves(r) /\ run'[r] = f /\ \A q \in Runners : q # r => run'[q] = run[q]
  BY DEF Does, Moves

LEMMA StepEnds ==
  ASSUME NEW r \in Runners, run \in [Runners -> RunRecords], NEW how, Ends(r, how)
  PROVE  Moves(r) /\ EndsAs(r, how)
  <1> DEFINE v == [Idle EXCEPT !.pc = how, !.plan = Me(r)]
  <1>1. Moves(r) /\ run'[r] = v
    BY StepMoves DEF Ends
  <1>2. Blank(v) /\ v.pc = how /\ v.plan = Me(r)
    BY DEF Blank, IsLocal, LocalFields, Same, Idle
  <1> QED BY <1>1, <1>2 DEF EndsAs

-----------------------------------------------------------------------------
(* Constructors.                                                              *)

IsPass(x) == x \in ConditionRuns /\ x.status = "PASS"

LEMMA PassedFacts ==
  ASSUME NEW p \in Payloads, NEW h \in BOOLEAN
  PROVE  /\ IsPass(Passed(p, h)) /\ Passed(p, h).payload = p /\ Passed(p, h).hit = h
         /\ Passed(p, h).status = "PASS"
  BY DEF IsPass, ConditionRuns, Passed

LEMMA UnpassedFacts ==
  ASSUME NEW g \in Categories
  PROVE  /\ Unpassed(g) \in ConditionRuns /\ ~IsPass(Unpassed(g))
         /\ Unpassed(g).status \in {"FAIL", "BLOCKED"} /\ Unpassed(g).status # "PASS"
  <1>1. Unpassed(g) \in ConditionRuns
    BY DEF ConditionRuns
  <1>2. Unpassed(g).status = IF g = "blocked" THEN "BLOCKED" ELSE "FAIL"
    BY DEF Unpassed
  <1> QED BY <1>1, <1>2 DEF IsPass

LEMMA ConditionRunFacts ==
  ASSUME NEW x \in ConditionRuns
  PROVE  /\ x.status \in {"PASS", "FAIL", "BLOCKED"} /\ x # None
         /\ x.hit \in BOOLEAN /\ (x.hit => IsPass(x))
         /\ IsPass(x) <=> x.status = "PASS"
         /\ IsPass(x) => x.payload \in Payloads
         /\ ~IsPass(x) => x.payload = None
  <1>1. x # None
    BY NothingAssumption
  <1>2. CASE \E p \in Payloads, h \in BOOLEAN : x = Passed(p, h)
    BY <1>1, <1>2, PassedFacts
  <1>3. CASE \E g \in Categories : x = Unpassed(g)
    <2>1. PICK g \in Categories : x = Unpassed(g)
      BY <1>3
    <2>2. x.hit = FALSE /\ x.payload = None
      BY <2>1 DEF Unpassed
    <2> QED BY <1>1, <2>1, <2>2, UnpassedFacts
  <1> QED BY <1>2, <1>3 DEF ConditionRuns

LEMMA NoneIsNoPass == ~IsPass(None)
  BY NothingAssumption DEF IsPass

LEMMA PayloadFacts ==
  ASSUME NEW p \in Payloads
  PROVE  /\ p.plan \in Plans /\ p.by \in Runners /\ p.mode \in Modes
         /\ p.sound \in BOOLEAN /\ p.net \in BOOLEAN
         /\ p # None /\ p # Damaged /\ p # Foreign
  BY NothingAssumption DEF Payloads

LEMMA TaskFacts ==
  /\ Waiting \in Tasks /\ Waiting.state = "PENDING"
  /\ Complete \in Tasks /\ Complete.state = "COMPLETE"
  /\ \A r \in Runners : Running(r) \in Tasks /\ Running(r).state = "RUNNING"
  /\ \A g \in Categories : Failed(g) \in Tasks /\ Failed(g).state = "FAILED"
  /\ \A t \in Tasks : t.category \in Categories \cup {"none"}
  <1>1. /\ Waiting \in Tasks /\ Complete \in Tasks
        /\ \A r \in Runners : Running(r) \in Tasks
        /\ \A g \in Categories : Failed(g) \in Tasks
    BY DEF Tasks
  <1>2. Waiting.state = "PENDING" /\ Waiting.category = "none"
    BY DEF Waiting
  <1>3. Complete.state = "COMPLETE" /\ Complete.category = "none"
    BY DEF Complete
  <1>4. \A r : Running(r).state = "RUNNING" /\ Running(r).category = "none"
    BY DEF Running
  <1>5. \A g : Failed(g).state = "FAILED" /\ Failed(g).category = g
    BY DEF Failed
  <1>6. \A t \in Tasks : t.category \in Categories \cup {"none"}
    BY <1>2, <1>3, <1>4, <1>5 DEF Tasks
  <1> QED BY <1>1, <1>2, <1>3, <1>4, <1>5, <1>6

\* What a failing condition is collected as.
CategoryOf(t) == IF t.category = "none" THEN "capability" ELSE t.category

LEMMA CategoryFacts ==
  ASSUME NEW t \in Tasks
  PROVE  CategoryOf(t) \in Categories
  BY TaskFacts DEF CategoryOf, Categories

-----------------------------------------------------------------------------
(* The phases of a runner.                                                    *)

Early == {"start", "planned", "frozen"}
Judging == {"split", "evaluate", "compare", "report", "snapshot", "preread"}
Closing == {"verify", "recompare", "final"}
Working == {"planned", "frozen", "scan", "execute", "collect"} \cup Judging \cup Closing

\* Collected in the pass that runs or, once the runner is past it, in the last one.
Fresh2(u, c) == (u.pc = "collect" /\ c \notin u.left) \/ u.pc \in Judging \cup Closing
Filled(u, c) == u.mode = "resume" \/ Fresh2(u, c)

\* After the cold report.
Sequel(u) == u.pc \in {"snapshot", "preread"} \/ u.mode = "resume"

ColdOutcome(u) ==
  /\ u.coldRuns \in [Conditions -> ConditionRuns]
  /\ u.coldStatus \in Statuses
  /\ u.coldStatus = "PASS_PENDING_REVIEW" => u.metrics # None /\ u.split = "PASS"
  /\ u.coldStatus = "PARTIAL_VALID" => ~AllPass(u.coldRuns)

Phase(u) ==
  /\ u.pc \notin Working => Blank(u)
  /\ u.pc \in Working => u.plan \in Plans
  /\ u.pc # "execute" => u.queue = {} /\ u.training = {}
  /\ u.pc \in Early \cup Judging => u.mode = "cold"
  /\ u.pc \in Closing => u.mode = "resume" /\ u.left = {}
  /\ u.mode = "cold" => /\ u.existing = {} /\ u.verification = None
                        /\ u.pc \notin {"compare", "report", "snapshot", "preread"} => u.metrics = None
                        /\ \A c \in Conditions : IsPass(u.runs[c]) => ~u.runs[c].hit
  /\ \A c \in Conditions : IF Filled(u, c) THEN u.runs[c] \in ConditionRuns ELSE u.runs[c] = None
  /\ u.pc = "collect" => u.seen \in [Conditions -> Tasks]
  /\ u.pc \in {"recompare", "final"} => u.verification # None
  /\ Sequel(u) => ColdOutcome(u)

FilesTyped ==
  /\ intact \in [Sources -> BOOLEAN]
  /\ cache \in [Conditions -> Payloads \cup {None, Damaged}]
  /\ task \in [Plans -> [Conditions -> Tasks] \cup {None}]
  /\ predictions \in [Conditions -> Stamped(Contents)] /\ metrics \in Stamped(Tables \cup {None})
  /\ reports \in [Plans -> [cold : Reports \cup {None}, resume : Reports \cup {None}]]
  /\ records \in [cold : Comparisons \cup {None}, resume : Comparisons \cup {None},
                   split : SplitStatuses \cup {None}, verification : Verifications \cup {None}]
  /\ trouble \in [files : 0 .. MaxTrouble, other : 0 .. MaxTrouble]

Begun(u) == u.pc = "execute" => task[u.plan] # None

\* What the runners hold is typed and fits where they are.
TInv ==
  /\ run \in [Runners -> RunRecords] /\ FilesTyped
  /\ \A r \in Runners : Phase(run[r]) /\ Begun(run[r])

\* A step of one runner keeps this when what it leaves behind is typed.
LEMMA MoveKeepsTypes ==
  ASSUME TInv, NEW r \in Runners, Moves(r),
         run'[r] \in RunRecords, Phase(run'[r]), Begun(run[r])', FilesTyped',
         \A p \in Plans : task[p] # None => task'[p] # None
  PROVE  TInv'
  <1>1. run' \in [Runners -> RunRecords]
    BY DEF TInv, Moves
  <1>2. ASSUME NEW q \in Runners, q # r
        PROVE  Phase(run'[q]) /\ Begun(run[q])'
    <2>1. run'[q] = run[q] /\ Phase(run[q]) /\ Begun(run[q])
      BY <1>2 DEF TInv, Moves
    <2>2. run[q].pc = "execute" => run[q].plan \in Plans
      BY <2>1 DEF Phase, Working
    <2> QED BY <2>1, <2>2 DEF Begun
  <1> QED BY <1>1, <1>2 DEF TInv, Begun

LEMMA BlankTyped ==
  ASSUME NEW u, Blank(u), u.pc \in Ended \cup {"start"}, u.plan \in Plans \cup {None}
  PROVE  u \in RunRecords /\ Phase(u) /\ u.training = {}
  <1>1. /\ u.mode = "cold" /\ u.existing = {} /\ u.hits = {} /\ u.executed = {}
        /\ u.queue = {} /\ u.training = {} /\ u.net = FALSE /\ u.seen = None /\ u.left = {}
        /\ u.runs = [c \in Conditions |-> None] /\ u.split = "NOT_RUN" /\ u.metrics = None
        /\ u.unchanged = TRUE /\ u.coldStatus = "NONE" /\ u.coldRuns = [c \in Conditions |-> None]
        /\ u.before = NoOutputs /\ u.verification = None
    BY DEF Blank, Same, LocalFields, Idle
  <1>2. NoOutputs \in Snapshots
    BY DEF NoOutputs, Snapshots, Stamped, Contents
  <1>3. u \in RunRecords
    BY <1>1, <1>2 DEF Blank, IsLocal, LocalFields, RunRecords, Steps, Modes, SplitStatuses
  <1>4. u.pc \notin Working \cup {"collect"} \cup Early \/ u.pc = "start"
    BY DEF Ended, Working, Judging, Closing, Early
  <1>5. \A c \in Conditions : ~Filled(u, c)
    BY <1>1, <1>4 DEF Filled, Fresh2, Judging, Closing, Working, Early
  <1>6. ~Sequel(u)
    BY <1>1, <1>4 DEF Sequel, Working, Judging
  <1> QED BY <1>1, <1>3, <1>4, <1>5, <1>6, NoneIsNoPass DEF Phase, Working, Judging, Closing, Early

LEMMA EndKeepsTypes ==
  ASSUME TInv, NEW r \in Runners, NEW how \in Ended, Moves(r), EndsAs(r, how), FilesTyped',
         \A p \in Plans : task[p] # None => task'[p] # None
  PROVE  TInv'
  <1>1. run'[r] \in RunRecords /\ Phase(run'[r])
    BY BlankTyped DEF EndsAs, Me, TInv, RunRecords
  <1>2. Begun(run[r])'
    BY DEF EndsAs, Begun, Ended
  <1> QED BY <1>1, <1>2, MoveKeepsTypes


-----------------------------------------------------------------------------
(* What each step sets.                                                       *)

\* Runner r goes on to pc and sets, apart from that, the fields F.
Turns(r, pc, F) ==
  /\ Moves(r) /\ IsLocal(run'[r]) /\ run'[r].pc = pc
  /\ Same(run[r], run'[r], F \cup {"pc"})
Halts(r, how) == Moves(r) /\ EndsAs(r, how)

LEMMA RaisesMoves ==
  ASSUME NEW r \in Runners, run \in [Runners -> RunRecords], Raises(r)
  PROVE  Halts(r, "raised") /\ Quiet
  BY StepEnds DEF Raises, Halts, Quiet

LEMMA GoesMoves ==
  ASSUME NEW r \in Runners, run \in [Runners -> RunRecords], NEW pc, Goes(r, pc)
  PROVE  Turns(r, pc, {})
  <1>1. Moves(r) /\ run'[r] = [run[r] EXCEPT !.pc = pc]
    BY StepMoves DEF Goes
  <1>2. IsLocal(run[r])
    BY LocalRecords
  <1> QED BY <1>1, <1>2 DEF Turns, IsLocal, LocalFields, Same

PreflightHolds == (\A s \in Protected \ {"targets"} : intact[s]) /\ PlanHolds

LEMMA PreflightMoves ==
  ASSUME NEW r \in Runners, run \in [Runners -> RunRecords], Preflight(r)
  PROVE  /\ At(r, "start") /\ Quiet
         /\ \/ Halts(r, "raised") /\ ~PreflightHolds
            \/ Turns(r, "planned", {"plan"}) /\ run'[r].plan \in Plans
  <1>1. PICK p \in Plans :
          IF PreflightHolds
          THEN Does(r, [run[r] EXCEPT !.pc = "planned", !.plan = p]) /\ Quiet
          ELSE Raises(r)
    BY DEF Preflight, PreflightHolds, Quiet
  <1>2. CASE PreflightHolds
    <2>1. Moves(r) /\ run'[r] = [run[r] EXCEPT !.pc = "planned", !.plan = p]
      BY <1>1, <1>2, StepMoves
    <2>2. IsLocal(run[r])
      BY LocalRecords
    <2> QED BY <1>1, <1>2, <2>1, <2>2 DEF Preflight, Turns, IsLocal, LocalFields, Same
  <1>3. CASE ~PreflightHolds
    BY <1>1, <1>3, RaisesMoves DEF Preflight
  <1> QED BY <1>2, <1>3

LEMMA FreezeMoves ==
  ASSUME NEW r \in Runners, run \in [Runners -> RunRecords], Freeze(r)
  PROVE  /\ At(r, "planned") /\ Quiet
         /\ \/ Halts(r, "raised") /\ ~(RuntimeSourcesHold /\ FoundationUnchanged)
            \/ Turns(r, "frozen", {})
  BY GoesMoves, RaisesMoves DEF Freeze, Quiet

LEMMA EnsureMoves ==
  ASSUME NEW r \in Runners, run \in [Runners -> RunRecords], EnsureNewColdRun(r)
  PROVE  /\ At(r, "frozen") /\ Quiet
         /\ \/ Halts(r, "raised") /\ ~Fresh(Me(r))
            \/ Turns(r, "scan", {})
  BY GoesMoves, RaisesMoves DEF EnsureNewColdRun, Quiet

LEMMA ReadExistingMoves ==
  ASSUME NEW r \in Runners, run \in [Runners -> RunRecords], ReadExisting(r)
  PROVE  /\ At(r, "preread") /\ Quiet
         /\ Turns(r, "scan", {"mode", "existing", "hits", "executed", "net"})
         /\ run'[r].mode = "resume" /\ run'[r].existing = {c \in Conditions : Valid(c)}
         /\ run'[r].hits = {} /\ run'[r].executed = {} /\ run'[r].net = FALSE
  <1> DEFINE E == {c \in Conditions : Valid(c)}
  <1>1. Does(r, [run[r] EXCEPT !.pc = "scan", !.mode = "resume", !.existing = E,
                               !.hits = {}, !.executed = {}, !.net = FALSE])
    BY DEF ReadExisting
  <1>2. IsLocal(run[r])
    BY LocalRecords
  <1> HIDE DEF E
  <1>3. /\ Moves(r)
        /\ run'[r] = [run[r] EXCEPT !.pc = "scan", !.mode = "resume", !.existing = E,
                                    !.hits = {}, !.executed = {}, !.net = FALSE]
    BY <1>1, StepMoves
  <1>4. /\ Turns(r, "scan", {"mode", "existing", "hits", "executed", "net"})
        /\ run'[r].mode = "resume" /\ run'[r].existing = E
        /\ run'[r].hits = {} /\ run'[r].executed = {} /\ run'[r].net = FALSE
    BY <1>2, <1>3 DEF Turns, IsLocal, LocalFields, Same
  <1> QED BY <1>4 DEF ReadExisting, Quiet, E

Known(p) == IF task[p] = None THEN [c \in Conditions |-> Waiting] ELSE task[p]

\* What a scan opens: the pending and the complete tasks, and abandoned ones.
Opens(r, open) ==
  /\ open \subseteq Conditions
  /\ \A c \in Conditions : Known(Me(r))[c].state \in {"PENDING", "COMPLETE"} => c \in open
  /\ \A c \in open : Known(Me(r))[c].state \in {"PENDING", "COMPLETE", "RUNNING"}
  /\ cache' = [c \in Conditions |-> IF c \in open /\ ~Valid(c) THEN None ELSE cache[c]]
  /\ task' = [task EXCEPT ![Me(r)] = [c \in Conditions |->
                IF c \in open /\ Valid(c) THEN Complete
                ELSE IF c \in open THEN Running(r) ELSE Known(Me(r))[c]]]
  /\ run'[r].hits = {c \in open : Valid(c)}
  /\ run'[r].queue = {c \in open : ~Valid(c)}

LEMMA ScanMoves ==
  ASSUME NEW r \in Runners, run \in [Runners -> RunRecords], Scan(r)
  PROVE  /\ At(r, "scan") /\ UNCHANGED <<intact, predictions, metrics, reports, records, trouble>>
         /\ Turns(r, "execute", {"hits", "queue"})
         /\ \E open : Opens(r, open)
  <1> DEFINE p == Me(r)
             known == IF task[p] = None THEN [c \in Conditions |-> Waiting] ELSE task[p]
             abandoned(l, c) == known[c].state = "RUNNING" /\ l /\ ~Alive(known[c].owner)
             open(l) == {c \in Conditions : known[c].state \in {"PENDING", "COMPLETE"} \/ abandoned(l, c)}
             found(l) == {c \in open(l) : Valid(c)}
             H(S) == {c \in S : Valid(c)}
             Q(S) == {c \in S : ~Valid(c)}
  <1>1. PICK lapsed \in BOOLEAN :
          /\ task' = [task EXCEPT ![p] = [c \in Conditions |->
                        IF c \in found(lapsed) THEN Complete
                        ELSE IF c \in open(lapsed) THEN Running(r) ELSE known[c]]]
          /\ cache' = [c \in Conditions |-> IF c \in open(lapsed) \ found(lapsed) THEN None ELSE cache[c]]
          /\ Does(r, [run[r] EXCEPT !.pc = "execute", !.hits = found(lapsed),
                                    !.queue = open(lapsed) \ found(lapsed)])
    BY ZenonT(60) DEF Scan
  <1>2. known = Known(p)
    BY DEF Known
  <1>3. PICK S : S = open(lapsed)
    OBVIOUS
  <1>4. /\ S \subseteq Conditions
        /\ \A c \in Conditions : known[c].state \in {"PENDING", "COMPLETE"} => c \in S
        /\ \A c \in S : known[c].state \in {"PENDING", "COMPLETE", "RUNNING"}
    BY <1>3
  <1>5. found(lapsed) = H(S) /\ open(lapsed) \ found(lapsed) = Q(S)
    BY <1>3
  <1>6. \A c : (c \in H(S) <=> c \in S /\ Valid(c)) /\ (c \in Q(S) <=> c \in S /\ ~Valid(c))
    OBVIOUS
  <1> HIDE DEF known, open, found, H, Q
  <1>7. /\ task' = [task EXCEPT ![p] = [c \in Conditions |->
                      IF c \in H(S) THEN Complete ELSE IF c \in S THEN Running(r) ELSE known[c]]]
        /\ cache' = [c \in Conditions |-> IF c \in Q(S) THEN None ELSE cache[c]]
        /\ Does(r, [run[r] EXCEPT !.pc = "execute", !.hits = H(S), !.queue = Q(S)])
    BY <1>1, <1>3, <1>5
  <1>8. IsLocal(run[r])
    BY LocalRecords
  <1>9. Moves(r) /\ run'[r] = [run[r] EXCEPT !.pc = "execute", !.hits = H(S), !.queue = Q(S)]
    BY <1>7, StepMoves
  <1>10. Turns(r, "execute", {"hits", "queue"}) /\ run'[r].hits = H(S) /\ run'[r].queue = Q(S)
    BY <1>8, <1>9 DEF Turns, IsLocal, LocalFields, Same
  <1>11. cache' = [c \in Conditions |-> IF c \in S /\ ~Valid(c) THEN None ELSE cache[c]]
    BY <1>6, <1>7
  <1>12. [c \in Conditions |-> IF c \in H(S) THEN Complete ELSE IF c \in S THEN Running(r) ELSE known[c]]
         = [c \in Conditions |-> IF c \in S /\ Valid(c) THEN Complete
                                 ELSE IF c \in S THEN Running(r) ELSE known[c]]
    BY <1>6
  <1>13. Opens(r, S)
    BY <1>2, <1>4, <1>7, <1>10, <1>11, <1>12 DEF Opens, H, Q
  <1> QED BY <1>10, <1>13 DEF Scan


LEMMA FindPublishedMoves ==
  ASSUME NEW r \in Runners, run \in [Runners -> RunRecords], NEW c \in Conditions, FindPublished(r, c)
  PROVE  /\ At(r, "execute") /\ c \in run[r].queue /\ Valid(c)
         /\ UNCHANGED <<intact, cache, predictions, metrics, reports, records, trouble>>
         /\ task' = [task EXCEPT ![Me(r)][c] = Complete]
         /\ Turns(r, "execute", {"queue", "hits"})
         /\ run'[r].queue = run[r].queue \ {c} /\ run'[r].hits = run[r].hits \cup {c}
  <1>1. IsLocal(run[r])
    BY LocalRecords
  <1>2. Moves(r) /\ run'[r] = [run[r] EXCEPT !.queue = @ \ {c}, !.hits = @ \cup {c}]
    BY StepMoves DEF FindPublished
  <1>3. /\ Turns(r, "execute", {"queue", "hits"})
        /\ run'[r].queue = run[r].queue \ {c} /\ run'[r].hits = run[r].hits \cup {c}
    BY <1>1, <1>2 DEF FindPublished, At, Turns, IsLocal, LocalFields, Same
  <1> QED BY <1>3 DEF FindPublished

\* A worker is started or, when an input does not hold, the condition fails.
LEMMA LaunchMoves ==
  ASSUME NEW r \in Runners, run \in [Runners -> RunRecords], NEW c \in Conditions, Launch(r, c)
  PROVE  /\ At(r, "execute") /\ c \in run[r].queue /\ ~Valid(c)
         /\ \A q \in Runners : c \notin run[q].training \/ ~Alive(q)
         /\ UNCHANGED <<intact, cache, predictions, metrics, reports, records, trouble>>
         /\ run'[r].queue = run[r].queue \ {c}
         /\ \/ /\ WorkerInputsHold(c) /\ UNCHANGED task
               /\ Turns(r, "execute", {"queue", "training"})
               /\ run'[r].training = run[r].training \cup {c}
            \/ /\ ~WorkerInputsHold(c) /\ task' = [task EXCEPT ![Me(r)][c] = Failed("capability")]
               /\ Turns(r, "execute", {"queue"})
  <1>1. IsLocal(run[r])
    BY LocalRecords
  <1>2. CASE WorkerInputsHold(c)
    <2>1. /\ Moves(r) /\ UNCHANGED <<cache, task>>
          /\ run'[r] = [run[r] EXCEPT !.queue = @ \ {c}, !.training = @ \cup {c}]
      BY <1>2, StepMoves DEF Launch
    <2>2. /\ Turns(r, "execute", {"queue", "training"})
          /\ run'[r].queue = run[r].queue \ {c} /\ run'[r].training = run[r].training \cup {c}
      BY <1>1, <2>1 DEF Launch, At, Turns, IsLocal, LocalFields, Same
    <2> QED BY <1>2, <2>1, <2>2 DEF Launch
  <1>3. CASE ~WorkerInputsHold(c)
    <2>1. /\ Moves(r) /\ UNCHANGED cache /\ task' = [task EXCEPT ![Me(r)][c] = Failed("capability")]
          /\ run'[r] = [run[r] EXCEPT !.queue = @ \ {c}]
      BY <1>3, StepMoves DEF Launch
    <2>2. Turns(r, "execute", {"queue"}) /\ run'[r].queue = run[r].queue \ {c}
      BY <1>1, <2>1 DEF Launch, At, Turns, IsLocal, LocalFields, Same
    <2> QED BY <1>3, <2>1, <2>2 DEF Launch
  <1> QED BY <1>2, <1>3

LEMMA TroubleFacts ==
  ASSUME FilesTyped, NEW kind \in {"nothing", "files", "other"}, Trouble(kind)
  PROVE  /\ trouble' \in [files : 0 .. MaxTrouble, other : 0 .. MaxTrouble]
         /\ kind # "files" => trouble'.files = trouble.files
         /\ kind = "files" => trouble'.files > 0
  <1>1. trouble \in [files : 0 .. MaxTrouble, other : 0 .. MaxTrouble] /\ MaxTrouble \in Nat
    BY SmokeAssumption DEF FilesTyped
  <1>2. CASE kind = "nothing"
    BY <1>1, <1>2 DEF Trouble
  <1>3. CASE kind # "nothing"
    <2>1. /\ trouble.files + trouble.other < MaxTrouble
          /\ trouble' = [trouble EXCEPT ![kind] = @ + 1]
      BY <1>3 DEF Trouble
    <2>2. trouble.files \in Nat /\ trouble.other \in Nat
      BY <1>1
    <2> QED BY <1>1, <1>3, <2>1, <2>2
  <1> QED BY <1>2, <1>3

LEMMA TrainPassesMoves ==
  ASSUME NEW r \in Runners, run \in [Runners -> RunRecords], NEW c \in Conditions, TrainPasses(r, c),
         FilesTyped
  PROVE  /\ At(r, "execute") /\ c \in run[r].training
         /\ UNCHANGED <<intact, predictions, metrics, reports, records>>
         /\ trouble' \in [files : 0 .. MaxTrouble, other : 0 .. MaxTrouble]
         /\ trouble'.files = trouble.files
         /\ \E net \in BOOLEAN : cache' = [cache EXCEPT ![c] = PredictionFrame(r, net)]
         /\ task' = [task EXCEPT ![Me(r)][c] = Complete]
         /\ Turns(r, "execute", {"training", "executed"})
         /\ run'[r].training = run[r].training \ {c} /\ run'[r].executed = run[r].executed \cup {c}
  <1>1. IsLocal(run[r])
    BY LocalRecords
  <1>2. Moves(r) /\ run'[r] = [run[r] EXCEPT !.training = @ \ {c}, !.executed = @ \cup {c}]
    BY StepMoves DEF TrainPasses
  <1>3. /\ Turns(r, "execute", {"training", "executed"})
        /\ run'[r].training = run[r].training \ {c} /\ run'[r].executed = run[r].executed \cup {c}
    BY <1>1, <1>2 DEF TrainPasses, At, Turns, IsLocal, LocalFields, Same
  <1>4. PICK net \in BOOLEAN : /\ Trouble(IF net THEN "other" ELSE "nothing")
                               /\ cache' = [cache EXCEPT ![c] = PredictionFrame(r, net)]
    BY DEF TrainPasses
  <1>5. /\ trouble' \in [files : 0 .. MaxTrouble, other : 0 .. MaxTrouble]
        /\ trouble'.files = trouble.files
    BY <1>4, TroubleFacts
  <1> QED BY <1>3, <1>4, <1>5 DEF TrainPasses

LEMMA TrainFailsMoves ==
  ASSUME NEW r \in Runners, run \in [Runners -> RunRecords], NEW c \in Conditions, TrainFails(r, c),
         FilesTyped
  PROVE  /\ At(r, "execute") /\ c \in run[r].training
         /\ UNCHANGED <<intact, cache, predictions, metrics, reports, records>>
         /\ trouble' \in [files : 0 .. MaxTrouble, other : 0 .. MaxTrouble]
         /\ trouble'.files = trouble.files
         /\ \E g \in Categories : task' = [task EXCEPT ![Me(r)][c] = Failed(g)]
         /\ Turns(r, "execute", {"training", "net"})
         /\ run'[r].training = run[r].training \ {c}
         /\ run'[r].net \in BOOLEAN /\ (run[r].net => run'[r].net)
  <1>1. IsLocal(run[r]) /\ run[r].net \in BOOLEAN
    BY LocalRecords DEF RunRecords
  <1>2. PICK g \in Categories, net \in BOOLEAN :
          /\ task' = [task EXCEPT ![Me(r)][c] = Failed(g)]
          /\ Does(r, [run[r] EXCEPT !.training = @ \ {c}, !.net = @ \/ net])
    BY DEF TrainFails
  <1>3. Moves(r) /\ run'[r] = [run[r] EXCEPT !.training = @ \ {c}, !.net = @ \/ net]
    BY <1>2, StepMoves
  <1>4. /\ Turns(r, "execute", {"training", "net"})
        /\ run'[r].training = run[r].training \ {c} /\ run'[r].net = (run[r].net \/ net)
    BY <1>1, <1>3 DEF TrainFails, At, Turns, IsLocal, LocalFields, Same
  <1>5. /\ trouble' \in [files : 0 .. MaxTrouble, other : 0 .. MaxTrouble]
        /\ trouble'.files = trouble.files
    BY TroubleFacts DEF TrainFails
  <1> QED BY <1>1, <1>2, <1>4, <1>5 DEF TrainFails

LEMMA GatherMoves ==
  ASSUME NEW r \in Runners, run \in [Runners -> RunRecords], Gather(r)
  PROVE  /\ At(r, "execute") /\ run[r].queue = {} /\ run[r].training = {} /\ Quiet
         /\ \/ /\ Halts(r, "raised") /\ run[r].mode = "resume"
               /\ Cardinality(run[r].existing) > Cardinality(run[r].hits)
            \/ /\ Turns(r, "collect", {"seen", "left"})
               /\ run'[r].seen = task[Me(r)] /\ run'[r].left = Conditions
               /\ run[r].mode = "resume" => ~(Cardinality(run[r].existing) > Cardinality(run[r].hits))
  <1> DEFINE C == run[r].mode = "resume" /\ Cardinality(run[r].existing) > Cardinality(run[r].hits)
  <1>1. CASE C
    BY <1>1, RaisesMoves DEF Gather
  <1>2. CASE ~C
    <2>1. IsLocal(run[r])
      BY LocalRecords
    <2>2. Moves(r) /\ run'[r] = [run[r] EXCEPT !.pc = "collect", !.seen = task[Me(r)], !.left = Conditions]
      BY <1>2, StepMoves DEF Gather
    <2>3. /\ Turns(r, "collect", {"seen", "left"})
          /\ run'[r].seen = task[Me(r)] /\ run'[r].left = Conditions
      BY <2>1, <2>2 DEF Turns, IsLocal, LocalFields, Same
    <2> QED BY <1>2, <2>3 DEF Gather, Quiet
  <1> QED BY <1>1, <1>2

\* Runner r notes x of condition c.
Collects(r, c, x) ==
  /\ Turns(r, run'[r].pc, {"runs", "left", "net"})
  /\ run'[r].pc = IF run[r].left # {c} THEN "collect"
                  ELSE IF run[r].mode = "cold" THEN "split" ELSE "verify"
  /\ run'[r].runs = [run[r].runs EXCEPT ![c] = x] /\ run'[r].left = run[r].left \ {c}
  /\ run'[r].net = (run[r].net \/ (x.status = "PASS" /\ x.payload.net))

LEMMA CollectedMoves ==
  ASSUME NEW r \in Runners, run \in [Runners -> RunRecords], NEW c \in Conditions, NEW x,
         Does(r, Collected(r, c, x))
  PROVE  Collects(r, c, x)
  <1>1. IsLocal(run[r])
    BY LocalRecords
  <1>2. Moves(r) /\ run'[r] = Collected(r, c, x)
    BY StepMoves
  <1> QED BY <1>1, <1>2 DEF Collected, Collects, Turns, IsLocal, LocalFields, Same

Collecting(r, c) == At(r, "collect") /\ c \in run[r].left

LEMMA CollectFailureMoves ==
  ASSUME NEW r \in Runners, run \in [Runners -> RunRecords], NEW c \in Conditions, CollectFailure(r, c)
  PROVE  /\ Collecting(r, c) /\ Quiet /\ run[r].seen[c].state # "COMPLETE"
         /\ Collects(r, c, Unpassed(CategoryOf(run[r].seen[c])))
  BY CollectedMoves DEF CollectFailure, Collecting, CategoryOf, Quiet

LEMMA CollectPredictionsMoves ==
  ASSUME NEW r \in Runners, run \in [Runners -> RunRecords], NEW c \in Conditions, CollectPredictions(r, c)
  PROVE  /\ Collecting(r, c) /\ UNCHANGED <<intact, cache, task, metrics, reports, records, trouble>>
         /\ run[r].seen[c].state = "COMPLETE" /\ Valid(c) /\ cache[c].plan = Me(r)
         /\ predictions' = IF predictions[c].content = cache[c] THEN predictions
                           ELSE [predictions EXCEPT ![c] = Rewritten(@, cache[c])]
         /\ Collects(r, c, Passed(cache[c], c \in run[r].existing))
  BY CollectedMoves DEF CollectPredictions, Collecting

LEMMA CollectRaisesMoves ==
  ASSUME NEW r \in Runners, run \in [Runners -> RunRecords], NEW c \in Conditions, CollectRaises(r, c)
  PROVE  /\ Collecting(r, c) /\ Quiet /\ Halts(r, "raised")
         /\ run[r].seen[c].state = "COMPLETE" /\ (Valid(c) => cache[c].plan # Me(r))
  BY RaisesMoves DEF CollectRaises, Collecting


LEMMA ValidateSplitMoves ==
  ASSUME NEW r \in Runners, run \in [Runners -> RunRecords], ValidateSplit(r)
  PROVE  /\ At(r, "split") /\ UNCHANGED <<intact, cache, task, predictions, metrics, reports, trouble>>
         /\ Turns(r, "evaluate", {"split"}) /\ run'[r].split \in SplitStatuses
         /\ records' = [records EXCEPT !.split = run'[r].split]
         /\ (run'[r].split = "NOT_RUN") = ~AllPass(run[r].runs)
         /\ run'[r].split = "FAIL" => ~FoundationUnchanged
  <1>1. IsLocal(run[r])
    BY LocalRecords
  <1>2. PICK status \in SplitStatuses :
          /\ (status = "NOT_RUN") = ~AllPass(run[r].runs)
          /\ status = "FAIL" => ~FoundationUnchanged
          /\ records' = [records EXCEPT !.split = status]
          /\ Does(r, [run[r] EXCEPT !.pc = "evaluate", !.split = status])
    BY DEF ValidateSplit, SplitStatuses
  <1>3. Moves(r) /\ run'[r] = [run[r] EXCEPT !.pc = "evaluate", !.split = status]
    BY <1>2, StepMoves
  <1>4. Turns(r, "evaluate", {"split"}) /\ run'[r].split = status
    BY <1>1, <1>3 DEF Turns, IsLocal, LocalFields, Same
  <1> QED BY <1>2, <1>4 DEF ValidateSplit

PredictionTable == [c \in Conditions |-> predictions[c].content]

LEMMA EvaluateMoves ==
  ASSUME NEW r \in Runners, run \in [Runners -> RunRecords], Evaluate(r)
  PROVE  /\ At(r, "evaluate") /\ UNCHANGED <<intact, cache, task, predictions, reports, records, trouble>>
         /\ \/ /\ ~(AllPass(run[r].runs) /\ run[r].split = "PASS")
               /\ Turns(r, "compare", {}) /\ UNCHANGED metrics
            \/ /\ AllPass(run[r].runs) /\ run[r].split = "PASS" /\ MayOpenLabels(r)
               /\ metrics' = Rewritten(metrics, PredictionTable)
               /\ Turns(r, "compare", {"metrics"}) /\ run'[r].metrics = PredictionTable
            \/ /\ AllPass(run[r].runs) /\ ~MayOpenLabels(r)
               /\ Halts(r, "raised") /\ UNCHANGED metrics
  <1> DEFINE A == AllPass(run[r].runs) /\ run[r].split = "PASS"
  <1>1. CASE ~A
    BY <1>1, GoesMoves DEF Evaluate
  <1>2. CASE A /\ ~MayOpenLabels(r)
    BY <1>2, StepEnds DEF Evaluate, Halts
  <1>3. CASE A /\ MayOpenLabels(r)
    <2>1. /\ metrics' = Rewritten(metrics, PredictionTable)
          /\ Does(r, [run[r] EXCEPT !.pc = "compare", !.metrics = PredictionTable])
      BY <1>3 DEF Evaluate, PredictionTable
    <2>2. IsLocal(run[r])
      BY LocalRecords
    <2>3. Moves(r) /\ run'[r] = [run[r] EXCEPT !.pc = "compare", !.metrics = PredictionTable]
      BY <2>1, StepMoves
    <2>4. Turns(r, "compare", {"metrics"}) /\ run'[r].metrics = PredictionTable
      BY <2>2, <2>3 DEF Turns, IsLocal, LocalFields, Same
    <2> QED BY <1>3, <2>1, <2>4 DEF Evaluate
  <1> QED BY <1>1, <1>2, <1>3

LEMMA CompareMoves ==
  ASSUME NEW r \in Runners, run \in [Runners -> RunRecords], Compare(r)
  PROVE  /\ UNCHANGED <<intact, cache, task, predictions, metrics, reports, trouble>>
         /\ \/ At(r, "compare") /\ Turns(r, "report", {"unchanged"})
            \/ At(r, "recompare") /\ Turns(r, "final", {"unchanged"})
         /\ run'[r].unchanged = FoundationUnchanged
         /\ records' = [records EXCEPT ![run[r].mode] = [plan |-> Me(r), unchanged |-> run'[r].unchanged]]
  <1> DEFINE record == [plan |-> Me(r), unchanged |-> FoundationUnchanged]
  <1>1. /\ records' = [records EXCEPT ![run[r].mode] = record]
        /\ Does(r, [run[r] EXCEPT !.unchanged = record.unchanged,
                                  !.pc = IF @ = "compare" THEN "report" ELSE "final"])
    BY DEF Compare
  <1>2. IsLocal(run[r])
    BY LocalRecords
  <1>3. /\ Moves(r)
        /\ run'[r] = [run[r] EXCEPT !.unchanged = FoundationUnchanged,
                                    !.pc = IF @ = "compare" THEN "report" ELSE "final"]
    BY <1>1, StepMoves
  <1>4. /\ Turns(r, IF At(r, "compare") THEN "report" ELSE "final", {"unchanged"})
        /\ run'[r].unchanged = FoundationUnchanged
    BY <1>2, <1>3 DEF Turns, IsLocal, LocalFields, Same, At
  <1> QED BY <1>1, <1>4 DEF Compare, At

ColdReport(r) ==
  Report(r, ConditionStatus(run[r].runs, run[r].unchanged, run[r].split, run[r].net))

LEMMA ReportColdMoves ==
  ASSUME NEW r \in Runners, run \in [Runners -> RunRecords], ReportCold(r)
  PROVE  /\ At(r, "report") /\ UNCHANGED <<intact, cache, task, predictions, metrics, records, trouble>>
         /\ \/ /\ ReportAccepted(ColdReport(r))
               /\ reports' = [reports EXCEPT ![Me(r)].cold = ColdReport(r)]
               /\ Turns(r, "snapshot", {"coldStatus", "coldRuns"})
               /\ run'[r].coldRuns = run[r].runs
               /\ run'[r].coldStatus =
                    ConditionStatus(run[r].runs, run[r].unchanged, run[r].split, run[r].net)
            \/ ~ReportAccepted(ColdReport(r)) /\ Halts(r, "raised") /\ UNCHANGED reports
  <1> DEFINE status == ConditionStatus(run[r].runs, run[r].unchanged, run[r].split, run[r].net)
  <1>1. ColdReport(r) = Report(r, status)
    BY DEF ColdReport
  <1>2. CASE ReportAccepted(ColdReport(r))
    <2>1. /\ reports' = [reports EXCEPT ![Me(r)].cold = ColdReport(r)]
          /\ Does(r, [run[r] EXCEPT !.pc = "snapshot", !.coldStatus = status, !.coldRuns = run[r].runs])
      BY <1>1, <1>2 DEF ReportCold
    <2>2. IsLocal(run[r])
      BY LocalRecords
    <2> HIDE DEF status
    <2>3. /\ Moves(r)
          /\ run'[r] = [run[r] EXCEPT !.pc = "snapshot", !.coldStatus = status, !.coldRuns = run[r].runs]
      BY <2>1, StepMoves
    <2>4. /\ Turns(r, "snapshot", {"coldStatus", "coldRuns"})
          /\ run'[r].coldRuns = run[r].runs /\ run'[r].coldStatus = status
      BY <2>2, <2>3 DEF Turns, IsLocal, LocalFields, Same
    <2> QED BY <1>2, <2>1, <2>4 DEF ReportCold, status
  <1>3. CASE ~ReportAccepted(ColdReport(r))
    BY <1>1, <1>3, StepEnds DEF ReportCold, Halts
  <1> QED BY <1>2, <1>3

LEMMA SnapshotMoves ==
  ASSUME NEW r \in Runners, run \in [Runners -> RunRecords], Snapshot(r)
  PROVE  /\ At(r, "snapshot") /\ Quiet /\ Turns(r, "preread", {"before"})
         /\ run'[r].before = Outputs
  <1>1. IsLocal(run[r])
    BY LocalRecords
  <1>2. Moves(r) /\ run'[r] = [run[r] EXCEPT !.pc = "preread", !.before = Outputs]
    BY StepMoves DEF Snapshot
  <1>3. Turns(r, "preread", {"before"}) /\ run'[r].before = Outputs
    BY <1>1, <1>2 DEF Turns, IsLocal, LocalFields, Same
  <1> QED BY <1>3 DEF Snapshot, Quiet

ResumeVerification(r) ==
  [by |-> r, plan |-> Me(r), before |-> run[r].before, after |-> Outputs,
   passed |-> VerificationPasses(r, Outputs)]

LEMMA VerifyMoves ==
  ASSUME NEW r \in Runners, run \in [Runners -> RunRecords], Verify(r)
  PROVE  /\ At(r, "verify") /\ UNCHANGED <<intact, cache, task, predictions, metrics, reports, trouble>>
         /\ \/ /\ VerificationAccepted(r, Outputs)
               /\ records' = [records EXCEPT !.verification = ResumeVerification(r)]
               /\ Turns(r, "recompare", {"verification"})
               /\ run'[r].verification = ResumeVerification(r)
            \/ ~VerificationAccepted(r, Outputs) /\ Halts(r, "raised") /\ UNCHANGED records
  <1>1. CASE VerificationAccepted(r, Outputs)
    <2>1. /\ records' = [records EXCEPT !.verification = ResumeVerification(r)]
          /\ Does(r, [run[r] EXCEPT !.pc = "recompare", !.verification = ResumeVerification(r)])
      BY <1>1 DEF Verify, ResumeVerification
    <2>2. IsLocal(run[r])
      BY LocalRecords
    <2>3. /\ Moves(r)
          /\ run'[r] = [run[r] EXCEPT !.pc = "recompare", !.verification = ResumeVerification(r)]
      BY <2>1, StepMoves
    <2>4. /\ Turns(r, "recompare", {"verification"})
          /\ run'[r].verification = ResumeVerification(r)
      BY <2>2, <2>3 DEF Turns, IsLocal, LocalFields, Same
    <2> QED BY <1>1, <2>1, <2>4 DEF Verify
  <1>2. CASE ~VerificationAccepted(r, Outputs)
    BY <1>2, StepEnds DEF Verify, Halts
  <1> QED BY <1>1, <1>2

LEMMA ReportFinalMoves ==
  ASSUME NEW r \in Runners, run \in [Runners -> RunRecords], ReportFinal(r)
  PROVE  /\ At(r, "final") /\ UNCHANGED <<intact, cache, task, predictions, metrics, records, trouble>>
         /\ \/ /\ ReportAccepted(Report(r, FinalStatus(r))) /\ Halts(r, "done")
               /\ reports' = [reports EXCEPT ![Me(r)].resume = Report(r, FinalStatus(r))]
            \/ /\ ~ReportAccepted(Report(r, FinalStatus(r))) /\ Halts(r, "raised")
               /\ UNCHANGED reports
  BY StepEnds DEF ReportFinal, Halts

LEMMA DieMoves ==
  ASSUME NEW r \in Runners, run \in [Runners -> RunRecords], Die(r), FilesTyped
  PROVE  /\ UNCHANGED <<intact, cache, task, predictions, metrics, reports, records>>
         /\ run[r].pc \notin Ended \cup {"start"} /\ Halts(r, "dead")
         /\ trouble' \in [files : 0 .. MaxTrouble, other : 0 .. MaxTrouble]
         /\ trouble'.files = trouble.files
  <1>1. Halts(r, "dead")
    BY StepEnds DEF Die, Halts
  <1>2. /\ trouble' \in [files : 0 .. MaxTrouble, other : 0 .. MaxTrouble]
        /\ trouble'.files = trouble.files
    BY TroubleFacts DEF Die
  <1> QED BY <1>1, <1>2 DEF Die

\* A changed file: no runner moves and nothing becomes valid.
Harms ==
  \/ \E s \in Sources : ChangeInput(s)
  \/ \E c \in Conditions : DamageEntry(c) \/ ChangePredictions(c)

LEMMA HarmMoves ==
  ASSUME Harms, FilesTyped
  PROVE  /\ UNCHANGED <<run, task, metrics, reports, records>>
         /\ trouble' \in [files : 0 .. MaxTrouble, other : 0 .. MaxTrouble] /\ trouble'.files > 0
         /\ intact' \in [Sources -> BOOLEAN] /\ \A s \in Sources : intact'[s] => intact[s]
         /\ cache' \in [Conditions -> Payloads \cup {None, Damaged}]
         /\ \A c \in Conditions : cache'[c] \in Payloads => cache'[c] = cache[c]
         /\ predictions' \in [Conditions -> Stamped(Contents)]
         /\ \A c \in Conditions : \/ predictions'[c] = predictions[c]
                                  \/ predictions'[c].stamp = predictions[c].stamp + 1
  <1>1. Harm /\ UNCHANGED <<run, task, metrics, reports, records>>
    BY DEF Harms, ChangeInput, DamageEntry, ChangePredictions, Harm
  <1>2. trouble' \in [files : 0 .. MaxTrouble, other : 0 .. MaxTrouble] /\ trouble'.files > 0
    BY <1>1, TroubleFacts DEF Harm
  <1>3. CASE \E s \in Sources : ChangeInput(s)
    <2>1. PICK s \in Sources : intact' = [intact EXCEPT ![s] = FALSE] /\ UNCHANGED <<cache, predictions>>
      BY <1>3 DEF ChangeInput
    <2>2. intact' \in [Sources -> BOOLEAN] /\ \A x \in Sources : intact'[x] => intact[x]
      BY <2>1 DEF FilesTyped
    <2> QED BY <1>1, <1>2, <2>1, <2>2 DEF FilesTyped
  <1>4. CASE \E c \in Conditions : DamageEntry(c)
    <2>1. PICK c \in Conditions : cache' = [cache EXCEPT ![c] = Damaged] /\ UNCHANGED <<intact, predictions>>
      BY <1>4 DEF DamageEntry
    <2>2. /\ cache' \in [Conditions -> Payloads \cup {None, Damaged}]
          /\ \A d \in Conditions : cache'[d] \in Payloads => cache'[d] = cache[d]
      BY <2>1, NothingAssumption DEF FilesTyped
    <2> QED BY <1>1, <1>2, <2>1, <2>2 DEF FilesTyped
  <1>5. CASE \E c \in Conditions : ChangePredictions(c)
    <2>1. PICK c \in Conditions, content \in {None, Foreign} :
            /\ predictions' = [predictions EXCEPT ![c] = Rewritten(@, content)]
            /\ UNCHANGED <<intact, cache>>
      BY <1>5 DEF ChangePredictions
    <2>2. predictions[c] \in Stamped(Contents) /\ content \in Contents
      BY DEF FilesTyped, Contents
    <2>3. /\ Rewritten(predictions[c], content) \in Stamped(Contents)
          /\ Rewritten(predictions[c], content).stamp = predictions[c].stamp + 1
      BY <2>2 DEF Rewritten, Stamped
    <2>4. /\ predictions' \in [Conditions -> Stamped(Contents)]
          /\ \A d \in Conditions : \/ predictions'[d] = predictions[d]
                                   \/ predictions'[d].stamp = predictions[d].stamp + 1
      BY <2>1, <2>3 DEF FilesTyped
    <2> QED BY <1>1, <1>2, <2>1, <2>4 DEF FilesTyped
  <1> QED BY <1>3, <1>4, <1>5 DEF Harms


-----------------------------------------------------------------------------
(* Types: every step keeps what the runners hold fitting to where they are.   *)

\* What a runner's record is made of.
LEMMA RecordFacts ==
  ASSUME NEW u \in RunRecords
  PROVE  /\ u.pc \in Steps /\ u.plan \in Plans \cup {None} /\ u.mode \in Modes
         /\ u.existing \subseteq Conditions /\ u.hits \subseteq Conditions
         /\ u.executed \subseteq Conditions /\ u.queue \subseteq Conditions
         /\ u.training \subseteq Conditions /\ u.left \subseteq Conditions
         /\ u.net \in BOOLEAN /\ u.unchanged \in BOOLEAN
         /\ u.runs \in [Conditions -> ConditionRuns \cup {None}]
         /\ u.split \in SplitStatuses /\ u.metrics \in Tables \cup {None}
         /\ u.coldRuns \in [Conditions -> ConditionRuns \cup {None}]
         /\ u.before \in Snapshots /\ u.verification \in Verifications \cup {None}
  BY DEF RunRecords

LEMMA QuietTypes ==
  ASSUME FilesTyped, Quiet
  PROVE  FilesTyped' /\ \A p \in Plans : task[p] # None => task'[p] # None
  BY DEF FilesTyped, Quiet

LEMMA RaiseTypes ==
  ASSUME TInv, NEW r \in Runners, Quiet, Halts(r, "raised")
  PROVE  TInv'
  BY QuietTypes, EndKeepsTypes DEF TInv, Halts, Ended

\* A task that is set stays typed.
LEMMA TaskTypes ==
  ASSUME TInv, NEW r \in Runners, At(r, "execute"), NEW c \in Conditions, NEW t \in Tasks,
         task' = [task EXCEPT ![Me(r)][c] = t]
  PROVE  /\ task' \in [Plans -> [Conditions -> Tasks] \cup {None}]
         /\ \A p \in Plans : task[p] # None => task'[p] # None
  <1>1. Me(r) \in Plans /\ task[Me(r)] \in [Conditions -> Tasks]
    BY DEF TInv, FilesTyped, Phase, Working, At, Begun, Me
  <1>2. [task[Me(r)] EXCEPT ![c] = t] \in [Conditions -> Tasks]
    BY <1>1
  <1>3. None \notin [Conditions -> Tasks]
    BY NothingAssumption
  <1> QED BY <1>1, <1>2, <1>3 DEF TInv, FilesTyped

LEMMA OutputsTyped ==
  ASSUME FilesTyped
  PROVE  Outputs \in Snapshots /\ PredictionTable \in Tables /\ PredictionTable # None
  <1>1. \A c \in Conditions : predictions[c] \in Stamped(Contents) /\ predictions[c].content \in Contents
    BY DEF FilesTyped, Stamped
  <1>2. PredictionTable \in Tables
    BY <1>1 DEF PredictionTable, Tables
  <1>3. Outputs \in Snapshots
    BY <1>1 DEF Outputs, Snapshots, FilesTyped
  <1> QED BY <1>2, <1>3, NothingAssumption

\* What the runner reports is a report.
LEMMA ReportTyped ==
  ASSUME TInv, NEW r \in Runners, run[r].pc \in {"report", "final"}, NEW status \in Statuses
  PROVE  Report(r, status) \in Reports /\ Report(r, status) # None
  <1> DEFINE u == run[r]
  <1>1. u \in RunRecords /\ Phase(u)
    BY DEF TInv
  <1>2. u.plan \in Plans /\ u.runs \in [Conditions -> ConditionRuns]
    <2>1. \A c \in Conditions : Filled(u, c)
      BY DEF Filled, Fresh2, Judging, Closing
    <2> QED BY <1>1, <2>1 DEF Phase, RunRecords, Working, Judging, Closing
  <1>3. Cardinality(u.executed) \in Counts /\ Cardinality(u.hits) \in Counts
    <2>1. u.executed \subseteq Conditions /\ u.hits \subseteq Conditions
      BY <1>1 DEF RunRecords
    <2> QED BY <2>1, SmokeAssumption, FS_Subset, FS_CardinalityType DEF Counts
  <1>4. Report(r, status) \in Reports
    BY <1>1, <1>2, <1>3 DEF Report, Reports, RunRecords, Me
  <1> QED BY <1>4, NothingAssumption

LEMMA ConditionStatusTyped ==
  ASSUME NEW runs, NEW unchanged, NEW split, NEW net
  PROVE  ConditionStatus(runs, unchanged, split, net) \in Statuses
  BY DEF ConditionStatus, Statuses

LEMMA BeginTypes ==
  ASSUME TInv, NEW r \in Runners, Preflight(r) \/ Freeze(r) \/ EnsureNewColdRun(r)
  PROVE  TInv'
  <1> DEFINE u == run[r]
             v == run'[r]
  <1>1. Quiet /\ u.pc \in Early /\ u \in RunRecords /\ Phase(u)
    BY PreflightMoves, FreezeMoves, EnsureMoves DEF TInv, At, Early
  <1>2. CASE Halts(r, "raised")
    BY <1>1, <1>2, RaiseTypes
  <1>3. CASE Turns(r, "planned", {"plan"}) /\ v.plan \in Plans
    <2>1. v \in RunRecords
      BY <1>1, <1>3, SMTT(30) DEF Turns, RunRecords, IsLocal, LocalFields, Same, Steps
    <2>2. Phase(v)
      BY <1>1, <1>3 DEF Turns, Same, LocalFields, Phase, Fresh2, Filled, Sequel, Early, Judging,
                        Closing, Working
    <2> QED BY <1>1, <1>3, <2>1, <2>2, MoveKeepsTypes, QuietTypes DEF Turns, TInv, Begun
  <1>4. CASE u.pc # "start" /\ (Turns(r, "frozen", {}) \/ Turns(r, "scan", {}))
    <2>1. v \in RunRecords
      BY <1>1, <1>4, SMTT(30) DEF Turns, RunRecords, IsLocal, LocalFields, Same, Steps
    <2>2. Phase(v)
      BY <1>1, <1>4 DEF Turns, Same, LocalFields, Phase, Fresh2, Filled, Sequel, Early,
                              Judging, Closing, Working
    <2> QED BY <1>1, <1>4, <2>1, <2>2, MoveKeepsTypes, QuietTypes DEF Turns, TInv, Begun
  <1> QED BY <1>2, <1>3, <1>4, PreflightMoves, FreezeMoves, EnsureMoves DEF TInv, At

LEMMA ReadExistingTypes ==
  ASSUME TInv, NEW r \in Runners, ReadExisting(r)
  PROVE  TInv'
  <1> DEFINE u == run[r]
             v == run'[r]
  <1>1. u \in RunRecords /\ Phase(u)
    BY DEF TInv
  <1>2. /\ At(r, "preread") /\ Quiet
        /\ Turns(r, "scan", {"mode", "existing", "hits", "executed", "net"})
        /\ v.mode = "resume" /\ v.existing \subseteq Conditions
        /\ v.hits = {} /\ v.executed = {} /\ v.net = FALSE
    BY ReadExistingMoves DEF TInv
  <1>3. v \in RunRecords
    BY <1>1, <1>2, ZenonT(60) DEF Turns, RunRecords, IsLocal, LocalFields, Same, Steps, Modes
  <1>4. Phase(v)
    BY <1>1, <1>2 DEF Turns, Same, LocalFields, At, Phase, Fresh2, Filled, Sequel, Early, Judging,
                      Closing, Working, ColdOutcome
  <1> QED BY <1>2, <1>3, <1>4, MoveKeepsTypes, QuietTypes DEF Turns, TInv, Begun

LEMMA ScanTypes ==
  ASSUME TInv, NEW r \in Runners, Scan(r)
  PROVE  TInv'
  <1> DEFINE u == run[r]
             v == run'[r]
             p == Me(r)
  <1>1. u \in RunRecords /\ Phase(u) /\ FilesTyped
    BY DEF TInv
  <1>2. /\ At(r, "scan") /\ UNCHANGED <<intact, predictions, metrics, reports, records, trouble>>
        /\ Turns(r, "execute", {"hits", "queue"})
    BY ScanMoves DEF TInv
  <1>3. PICK open : Opens(r, open)
    BY ScanMoves DEF TInv
  <1>4. v.hits \subseteq Conditions /\ v.queue \subseteq Conditions
    BY <1>3 DEF Opens
  <1>5. v \in RunRecords
    BY <1>1, <1>2, <1>4, SMTT(30) DEF Turns, RunRecords, IsLocal, LocalFields, Same, Steps
  <1>6. Phase(v)
    BY <1>1, <1>2 DEF Turns, Same, LocalFields, At, Phase, Fresh2, Filled, Sequel, Early, Judging,
                      Closing, Working, ColdOutcome
  <1>7. p \in Plans
    BY <1>1, <1>2 DEF Phase, Working, At, Me
  <1>8. Known(p) \in [Conditions -> Tasks]
    BY <1>1, <1>7, TaskFacts DEF Known, FilesTyped
  <1>9. cache' \in [Conditions -> Payloads \cup {None, Damaged}]
    BY <1>1, <1>3 DEF Opens, FilesTyped
  <1>10. /\ task' \in [Plans -> [Conditions -> Tasks] \cup {None}]
         /\ \A q \in Plans : task[q] # None => task'[q] # None
         /\ task'[p] # None
    <2> DEFINE t == [c \in Conditions |-> IF c \in open /\ Valid(c) THEN Complete
                                          ELSE IF c \in open THEN Running(r) ELSE Known(p)[c]]
    <2>1. t \in [Conditions -> Tasks]
      BY <1>8, TaskFacts
    <2>2. task' = [task EXCEPT ![p] = t]
      BY <1>3 DEF Opens
    <2> HIDE DEF t
    <2> QED BY <1>1, <1>7, <2>1, <2>2, NothingAssumption DEF FilesTyped
  <1>11. FilesTyped'
    BY <1>1, <1>2, <1>9, <1>10 DEF FilesTyped
  <1>12. Begun(run[r])'
    BY <1>2, <1>10 DEF Begun, Turns, Same, LocalFields, Me
  <1> QED BY <1>2, <1>5, <1>6, <1>10, <1>11, <1>12, MoveKeepsTypes DEF Turns

\* The steps of the pool leave the runner where it is.
LEMMA PoolTypes ==
  ASSUME TInv, NEW r \in Runners, At(r, "execute"), Moves(r), run'[r] \in RunRecords,
         run'[r].pc = "execute",
         Same(run[r], run'[r], {"pc", "queue", "training", "hits", "executed", "net"}), FilesTyped',
         \A p \in Plans : task[p] # None => task'[p] # None
  PROVE  TInv'
  <1> DEFINE u == run[r]
             v == run'[r]
  <1>1. u \in RunRecords /\ Phase(u) /\ FilesTyped /\ Begun(u)
    BY DEF TInv
  <1>2. Phase(v)
    BY <1>1 DEF Same, LocalFields, At, Phase, Fresh2, Filled, Sequel, Early, Judging,
                Closing, Working, ColdOutcome
  <1>3. v.plan = u.plan /\ u.plan \in Plans
    BY <1>1 DEF Same, LocalFields, At, Phase, Working
  <1>4. Begun(run[r])'
    BY <1>1, <1>3 DEF Begun, At
  <1> QED BY <1>2, <1>4, MoveKeepsTypes

LEMMA FindPublishedTypes ==
  ASSUME TInv, NEW r \in Runners, NEW c \in Conditions, FindPublished(r, c)
  PROVE  TInv'
  <1> DEFINE u == run[r]
             v == run'[r]
  <1>1. u \in RunRecords /\ FilesTyped
    BY DEF TInv
  <1>2. /\ At(r, "execute") /\ UNCHANGED <<intact, cache, predictions, metrics, reports, records, trouble>>
        /\ task' = [task EXCEPT ![Me(r)][c] = Complete]
        /\ Turns(r, "execute", {"queue", "hits"})
        /\ v.queue = u.queue \ {c} /\ v.hits = u.hits \cup {c}
    BY FindPublishedMoves DEF TInv
  <1>3. v \in RunRecords
    BY <1>1, <1>2, SMTT(30) DEF Turns, RunRecords, IsLocal, LocalFields, Same, Steps
  <1>4. /\ task' \in [Plans -> [Conditions -> Tasks] \cup {None}]
        /\ \A p \in Plans : task[p] # None => task'[p] # None
    BY <1>2, TaskTypes, TaskFacts
  <1>5. FilesTyped'
    BY <1>1, <1>2, <1>4 DEF FilesTyped
  <1> QED BY <1>2, <1>3, <1>4, <1>5, PoolTypes DEF Turns, Same

LEMMA LaunchTypes ==
  ASSUME TInv, NEW r \in Runners, NEW c \in Conditions, Launch(r, c)
  PROVE  TInv'
  <1> DEFINE u == run[r]
             v == run'[r]
  <1>1. u \in RunRecords /\ FilesTyped
    BY DEF TInv
  <1>2. /\ At(r, "execute") /\ UNCHANGED <<intact, cache, predictions, metrics, reports, records, trouble>>
        /\ v.queue = u.queue \ {c}
    BY LaunchMoves DEF TInv
  <1>3. CASE /\ UNCHANGED task /\ Turns(r, "execute", {"queue", "training"})
             /\ v.training = u.training \cup {c}
    <2>1. v \in RunRecords
      BY <1>1, <1>2, <1>3, SMTT(30) DEF Turns, RunRecords, IsLocal, LocalFields, Same, Steps
    <2>2. FilesTyped'
      BY <1>1, <1>2, <1>3 DEF FilesTyped
    <2> QED BY <1>2, <1>3, <2>1, <2>2, PoolTypes DEF Turns, Same
  <1>4. CASE task' = [task EXCEPT ![Me(r)][c] = Failed("capability")] /\ Turns(r, "execute", {"queue"})
    <2>1. v \in RunRecords
      BY <1>1, <1>2, <1>4, SMTT(30) DEF Turns, RunRecords, IsLocal, LocalFields, Same, Steps
    <2>2. /\ task' \in [Plans -> [Conditions -> Tasks] \cup {None}]
          /\ \A p \in Plans : task[p] # None => task'[p] # None
      BY <1>2, <1>4, TaskTypes, TaskFacts DEF Categories
    <2>3. FilesTyped'
      BY <1>1, <1>2, <2>2 DEF FilesTyped
    <2> QED BY <1>2, <1>4, <2>1, <2>2, <2>3, PoolTypes DEF Turns, Same
  <1> QED BY <1>3, <1>4, LaunchMoves DEF TInv

LEMMA FrameTyped ==
  ASSUME TInv, NEW r \in Runners, At(r, "execute"), NEW net \in BOOLEAN
  PROVE  PredictionFrame(r, net) \in Payloads
  <1>1. run[r].plan \in Plans /\ run[r].mode \in Modes
    BY DEF TInv, Phase, Working, At, RunRecords
  <1>2. intact["targets"] \in BOOLEAN
    BY DEF TInv, FilesTyped, Sources, Protected
  <1> QED BY <1>1, <1>2 DEF PredictionFrame, Payloads, Me, TrainingTargets

LEMMA TrainPassesTypes ==
  ASSUME TInv, NEW r \in Runners, NEW c \in Conditions, TrainPasses(r, c)
  PROVE  TInv'
  <1> DEFINE u == run[r]
             v == run'[r]
  <1>1. u \in RunRecords /\ FilesTyped
    BY DEF TInv
  <1>2. /\ At(r, "execute") /\ UNCHANGED <<intact, predictions, metrics, reports, records>>
        /\ trouble' \in [files : 0 .. MaxTrouble, other : 0 .. MaxTrouble]
        /\ task' = [task EXCEPT ![Me(r)][c] = Complete]
        /\ Turns(r, "execute", {"training", "executed"})
        /\ v.training = u.training \ {c} /\ v.executed = u.executed \cup {c}
    BY TrainPassesMoves DEF TInv
  <1>3. PICK net \in BOOLEAN : cache' = [cache EXCEPT ![c] = PredictionFrame(r, net)]
    BY TrainPassesMoves DEF TInv
  <1>4. v \in RunRecords
    BY <1>1, <1>2, SMTT(30) DEF Turns, RunRecords, IsLocal, LocalFields, Same, Steps
  <1>5. /\ task' \in [Plans -> [Conditions -> Tasks] \cup {None}]
        /\ \A p \in Plans : task[p] # None => task'[p] # None
    BY <1>2, TaskTypes, TaskFacts
  <1>6. cache' \in [Conditions -> Payloads \cup {None, Damaged}]
    BY <1>1, <1>2, <1>3, FrameTyped DEF FilesTyped
  <1>7. FilesTyped'
    BY <1>1, <1>2, <1>5, <1>6 DEF FilesTyped
  <1> QED BY <1>2, <1>4, <1>5, <1>7, PoolTypes DEF Turns, Same

LEMMA TrainFailsTypes ==
  ASSUME TInv, NEW r \in Runners, NEW c \in Conditions, TrainFails(r, c)
  PROVE  TInv'
  <1> DEFINE u == run[r]
             v == run'[r]
  <1>1. u \in RunRecords /\ FilesTyped
    BY DEF TInv
  <1>2. /\ At(r, "execute") /\ UNCHANGED <<intact, cache, predictions, metrics, reports, records>>
        /\ trouble' \in [files : 0 .. MaxTrouble, other : 0 .. MaxTrouble]
        /\ Turns(r, "execute", {"training", "net"})
        /\ v.training = u.training \ {c} /\ v.net \in BOOLEAN
    BY TrainFailsMoves DEF TInv
  <1>3. PICK g \in Categories : task' = [task EXCEPT ![Me(r)][c] = Failed(g)]
    BY TrainFailsMoves DEF TInv
  <1>4. v \in RunRecords
    BY <1>1, <1>2, SMTT(30) DEF Turns, RunRecords, IsLocal, LocalFields, Same, Steps
  <1>5. /\ task' \in [Plans -> [Conditions -> Tasks] \cup {None}]
        /\ \A p \in Plans : task[p] # None => task'[p] # None
    BY <1>2, <1>3, TaskTypes, TaskFacts
  <1>6. FilesTyped'
    BY <1>1, <1>2, <1>5 DEF FilesTyped
  <1> QED BY <1>2, <1>4, <1>5, <1>6, PoolTypes DEF Turns, Same


LEMMA GatherTypes ==
  ASSUME TInv, NEW r \in Runners, Gather(r)
  PROVE  TInv'
  <1> DEFINE u == run[r]
             v == run'[r]
  <1>1. u \in RunRecords /\ Phase(u) /\ Begun(u) /\ FilesTyped
    BY DEF TInv
  <1>2. At(r, "execute") /\ u.queue = {} /\ u.training = {} /\ Quiet
    BY GatherMoves DEF TInv
  <1>3. CASE Turns(r, "collect", {"seen", "left"}) /\ v.seen = task[u.plan] /\ v.left = Conditions
    <2>1. v.seen \in [Conditions -> Tasks]
      BY <1>1, <1>2, <1>3 DEF Begun, FilesTyped, Phase, Working, At
    <2>2. v \in RunRecords
      BY <1>1, <1>3, <2>1, SMTT(30) DEF Turns, RunRecords, IsLocal, LocalFields, Same, Steps
    <2>3. Phase(v)
      BY <1>1, <1>2, <1>3, <2>1 DEF Turns, Same, LocalFields, At, Phase, Fresh2, Filled, Sequel,
                                    Early, Judging, Closing, Working, ColdOutcome
    <2> QED BY <1>2, <1>3, <2>2, <2>3, MoveKeepsTypes, QuietTypes DEF Turns, TInv, Begun
  <1> QED BY <1>2, <1>3, GatherMoves, RaiseTypes DEF TInv, Me

LEMMA CollectTypes ==
  ASSUME TInv, NEW r \in Runners, NEW c \in Conditions, Collecting(r, c), NEW x \in ConditionRuns,
         Collects(r, c, x), IsPass(x) => x.payload.net \in BOOLEAN /\ x.hit = (c \in run[r].existing),
         FilesTyped', UNCHANGED task
  PROVE  TInv'
  <1> DEFINE u == run[r]
             v == run'[r]
  <1>1. u \in RunRecords /\ Phase(u) /\ u.pc = "collect" /\ c \in u.left
    BY DEF TInv, Collecting, At
  <1>2. /\ IsLocal(v) /\ Same(u, v, {"pc", "runs", "left", "net"})
        /\ v.pc = IF u.left # {c} THEN "collect" ELSE IF u.mode = "cold" THEN "split" ELSE "verify"
        /\ v.left = u.left \ {c}
    BY DEF Collects, Turns
  <1>3. v.net \in BOOLEAN
    BY <1>1 DEF Collects, IsPass, RunRecords
  <1>4. /\ v.runs \in [Conditions -> ConditionRuns \cup {None}]
        /\ v.runs[c] = x /\ \A d \in Conditions : d # c => v.runs[d] = u.runs[d]
    BY <1>1 DEF Collects, RunRecords
  <1>5. v \in RunRecords
    BY <1>1, <1>2, <1>3, <1>4, SMTT(30) DEF RunRecords, IsLocal, LocalFields, Same, Steps
  <1>6. /\ v.mode = u.mode /\ v.plan = u.plan /\ v.queue = u.queue /\ v.training = u.training
        /\ v.existing = u.existing /\ v.verification = u.verification /\ v.metrics = u.metrics
        /\ v.seen = u.seen /\ v.coldRuns = u.coldRuns /\ v.coldStatus = u.coldStatus /\ v.split = u.split
    BY <1>2 DEF Same, LocalFields
  <1>7. v.pc # "collect" => v.left = {} /\ \A d \in Conditions : Filled(u, d) \/ d = c
    BY <1>1, <1>2 DEF Filled, Fresh2
  <1>8. \A d \in Conditions : d # c => (Filled(v, d) => Filled(u, d)) /\ (Filled(u, d) => Filled(v, d))
    BY <1>1, <1>2, <1>6, <1>7 DEF Filled, Fresh2, Judging, Closing
  <1>9. Filled(v, c)
    BY <1>1, <1>2, <1>6, <1>7 DEF Filled, Fresh2, Judging, Closing
  <1>10. \A d \in Conditions : IF Filled(v, d) THEN v.runs[d] \in ConditionRuns ELSE v.runs[d] = None
    BY <1>1, <1>4, <1>8, <1>9 DEF Phase
  <1>11. v.mode = "cold" => \A d \in Conditions : IsPass(v.runs[d]) => ~v.runs[d].hit
    BY <1>1, <1>4, <1>6 DEF Phase
  <1>12. Sequel(v) => ColdOutcome(v)
    BY <1>1, <1>2, <1>6 DEF Sequel, ColdOutcome, Phase
  <1>13. Phase(v)
    BY <1>1, <1>2, <1>6, <1>7, <1>10, <1>11, <1>12, RecordFacts
       DEF Phase, Early, Judging, Closing, Working, Modes
  <1>14. Begun(run[r])'
    BY <1>2 DEF Begun
  <1> QED BY <1>5, <1>13, <1>14, MoveKeepsTypes DEF Collects, Turns

LEMMA CollectFailureTypes ==
  ASSUME TInv, NEW r \in Runners, NEW c \in Conditions, CollectFailure(r, c)
  PROVE  TInv'
  <1>1. run \in [Runners -> RunRecords] /\ FilesTyped /\ Phase(run[r])
    BY DEF TInv
  <1>2. /\ Collecting(r, c) /\ Quiet
        /\ Collects(r, c, Unpassed(CategoryOf(run[r].seen[c])))
    BY <1>1, CollectFailureMoves
  <1>3. run[r].seen[c] \in Tasks
    BY <1>1, <1>2 DEF Phase, Collecting, At
  <1>4. /\ Unpassed(CategoryOf(run[r].seen[c])) \in ConditionRuns
        /\ ~IsPass(Unpassed(CategoryOf(run[r].seen[c])))
    BY <1>3, CategoryFacts, UnpassedFacts
  <1>5. FilesTyped' /\ UNCHANGED task
    BY <1>1, <1>2, QuietTypes DEF Quiet
  <1> QED BY <1>2, <1>4, <1>5, CollectTypes

LEMMA WritePredictionsTypes ==
  ASSUME FilesTyped, NEW c \in Conditions, Valid(c),
         UNCHANGED <<intact, cache, task, metrics, reports, records, trouble>>,
         predictions' = IF predictions[c].content = cache[c] THEN predictions
                        ELSE [predictions EXCEPT ![c] = Rewritten(@, cache[c])]
  PROVE  /\ FilesTyped' /\ predictions'[c].content = cache[c]
         /\ \A d \in Conditions : d # c => predictions'[d] = predictions[d]
         /\ \/ predictions'[c] = predictions[c]
            \/ predictions'[c].stamp = predictions[c].stamp + 1
  <1>1. predictions[c] \in Stamped(Contents) /\ cache[c] \in Contents
    BY DEF FilesTyped, Valid, Contents
  <1>2. Rewritten(predictions[c], cache[c]) \in Stamped(Contents)
    BY <1>1 DEF Rewritten, Stamped
  <1>3. /\ Rewritten(predictions[c], cache[c]).content = cache[c]
        /\ Rewritten(predictions[c], cache[c]).stamp = predictions[c].stamp + 1
    BY DEF Rewritten
  <1>4. CASE predictions[c].content = cache[c]
    BY <1>4 DEF FilesTyped
  <1>5. CASE predictions[c].content # cache[c]
    <2>1. predictions' = [predictions EXCEPT ![c] = Rewritten(predictions[c], cache[c])]
      BY <1>5
    <2>2. predictions \in [Conditions -> Stamped(Contents)]
      BY DEF FilesTyped
    <2>3. /\ predictions' \in [Conditions -> Stamped(Contents)]
          /\ predictions'[c] = Rewritten(predictions[c], cache[c])
          /\ \A d \in Conditions : d # c => predictions'[d] = predictions[d]
      BY <1>2, <2>1, <2>2
    <2> QED BY <1>3, <2>3 DEF FilesTyped
  <1> QED BY <1>4, <1>5

LEMMA CollectPredictionsTypes ==
  ASSUME TInv, NEW r \in Runners, NEW c \in Conditions, CollectPredictions(r, c)
  PROVE  TInv'
  <1> DEFINE x == Passed(cache[c], c \in run[r].existing)
  <1>1. run \in [Runners -> RunRecords] /\ FilesTyped
    BY DEF TInv
  <1>2. /\ Collecting(r, c) /\ Valid(c) /\ Collects(r, c, x)
        /\ UNCHANGED <<intact, cache, task, metrics, reports, records, trouble>>
        /\ predictions' = IF predictions[c].content = cache[c] THEN predictions
                          ELSE [predictions EXCEPT ![c] = Rewritten(@, cache[c])]
    BY <1>1, CollectPredictionsMoves
  <1>3. FilesTyped'
    BY <1>1, <1>2, WritePredictionsTypes
  <1>4. x \in ConditionRuns /\ x.payload.net \in BOOLEAN /\ x.hit = (c \in run[r].existing)
    <2> DEFINE h == c \in run[r].existing
    <2>1. h \in BOOLEAN /\ cache[c] \in Payloads
      BY <1>2 DEF Valid
    <2> HIDE DEF h
    <2> QED BY <2>1, PassedFacts, PayloadFacts DEF IsPass, h
  <1> QED BY <1>2, <1>3, <1>4, CollectTypes

LEMMA ValidateSplitTypes ==
  ASSUME TInv, NEW r \in Runners, ValidateSplit(r)
  PROVE  TInv'
  <1> DEFINE u == run[r]
             v == run'[r]
  <1>1. u \in RunRecords /\ Phase(u) /\ FilesTyped
    BY DEF TInv
  <1>2. /\ At(r, "split") /\ UNCHANGED <<intact, cache, task, predictions, metrics, reports, trouble>>
        /\ Turns(r, "evaluate", {"split"}) /\ v.split \in SplitStatuses
        /\ records' = [records EXCEPT !.split = v.split]
    BY ValidateSplitMoves DEF TInv
  <1>3. v \in RunRecords
    BY <1>1, <1>2, SMTT(30) DEF Turns, RunRecords, IsLocal, LocalFields, Same, Steps
  <1>4. Phase(v)
    BY <1>1, <1>2 DEF Turns, Same, LocalFields, At, Phase, Fresh2, Filled, Sequel, Early, Judging,
                      Closing, Working
  <1>5. FilesTyped'
    BY <1>1, <1>2 DEF FilesTyped
  <1> QED BY <1>2, <1>3, <1>4, <1>5, MoveKeepsTypes DEF Turns, Begun

LEMMA EvaluateTypes ==
  ASSUME TInv, NEW r \in Runners, Evaluate(r)
  PROVE  TInv'
  <1> DEFINE u == run[r]
             v == run'[r]
  <1>1. u \in RunRecords /\ Phase(u) /\ FilesTyped
    BY DEF TInv
  <1>2. At(r, "evaluate") /\ UNCHANGED <<intact, cache, task, predictions, reports, records, trouble>>
    BY EvaluateMoves DEF TInv
  <1>3. CASE Halts(r, "raised") /\ UNCHANGED metrics
    BY <1>2, <1>3, RaiseTypes DEF Quiet
  <1>4. CASE Turns(r, "compare", {}) /\ UNCHANGED metrics
    <2>1. v \in RunRecords
      BY <1>1, <1>4, SMTT(30) DEF Turns, RunRecords, IsLocal, LocalFields, Same, Steps
    <2>2. Phase(v)
      BY <1>1, <1>2, <1>4 DEF Turns, Same, LocalFields, At, Phase, Fresh2, Filled, Sequel, Early,
                              Judging, Closing, Working
    <2> QED BY <1>1, <1>2, <1>4, <2>1, <2>2, MoveKeepsTypes, QuietTypes DEF Turns, Begun, Quiet
  <1>5. CASE /\ metrics' = Rewritten(metrics, PredictionTable)
             /\ Turns(r, "compare", {"metrics"}) /\ v.metrics = PredictionTable
    <2>1. v \in RunRecords
      BY <1>1, <1>5, OutputsTyped, SMTT(30) DEF Turns, RunRecords, IsLocal, LocalFields, Same, Steps
    <2>2. Phase(v)
      BY <1>1, <1>2, <1>5 DEF Turns, Same, LocalFields, At, Phase, Fresh2, Filled, Sequel, Early,
                              Judging, Closing, Working
    <2>3. metrics' \in Stamped(Tables \cup {None})
      BY <1>1, <1>5, OutputsTyped DEF FilesTyped, Rewritten, Stamped
    <2>4. FilesTyped'
      BY <1>1, <1>2, <2>3 DEF FilesTyped
    <2> QED BY <1>2, <1>5, <2>1, <2>2, <2>4, MoveKeepsTypes DEF Turns, Begun
  <1> QED BY <1>3, <1>4, <1>5, EvaluateMoves DEF TInv

LEMMA CompareTypes ==
  ASSUME TInv, NEW r \in Runners, Compare(r)
  PROVE  TInv'
  <1> DEFINE u == run[r]
             v == run'[r]
  <1>1. u \in RunRecords /\ Phase(u) /\ FilesTyped
    BY DEF TInv
  <1>2. /\ UNCHANGED <<intact, cache, task, predictions, metrics, reports, trouble>>
        /\ \/ At(r, "compare") /\ Turns(r, "report", {"unchanged"})
           \/ At(r, "recompare") /\ Turns(r, "final", {"unchanged"})
        /\ v.unchanged = FoundationUnchanged
        /\ records' = [records EXCEPT ![u.mode] = [plan |-> u.plan, unchanged |-> v.unchanged]]
    BY CompareMoves DEF TInv, Me
  <1>3. v.unchanged \in BOOLEAN
    BY <1>2 DEF FoundationUnchanged
  <1>4. v \in RunRecords
    BY <1>1, <1>2, <1>3, SMTT(30) DEF Turns, RunRecords, IsLocal, LocalFields, Same, Steps
  <1>5. Phase(v)
    BY <1>1, <1>2 DEF Turns, Same, LocalFields, At, Phase, Fresh2, Filled, Sequel, Early, Judging,
                      Closing, Working, ColdOutcome
  <1>6. u.mode \in {"cold", "resume"} /\ u.plan \in Plans
    BY <1>1, <1>2 DEF At, Phase, Working, Judging, Closing, RunRecords, Modes
  <1>7. [plan |-> u.plan, unchanged |-> v.unchanged] \in Comparisons
    BY <1>3, <1>6 DEF Comparisons
  <1>8. FilesTyped'
    BY <1>1, <1>2, <1>6, <1>7 DEF FilesTyped
  <1> QED BY <1>2, <1>4, <1>5, <1>8, MoveKeepsTypes DEF Turns, Begun

LEMMA ReportColdTypes ==
  ASSUME TInv, NEW r \in Runners, ReportCold(r)
  PROVE  TInv'
  <1> DEFINE u == run[r]
             v == run'[r]
             status == ConditionStatus(u.runs, u.unchanged, u.split, u.net)
  <1>1. u \in RunRecords /\ Phase(u) /\ FilesTyped
    BY DEF TInv
  <1>2. At(r, "report") /\ UNCHANGED <<intact, cache, task, predictions, metrics, records, trouble>>
    BY ReportColdMoves DEF TInv
  <1>3. CASE Halts(r, "raised") /\ UNCHANGED reports
    BY <1>2, <1>3, RaiseTypes DEF Quiet
  <1>4. CASE /\ ReportAccepted(ColdReport(r))
             /\ reports' = [reports EXCEPT ![u.plan].cold = ColdReport(r)]
             /\ Turns(r, "snapshot", {"coldStatus", "coldRuns"})
             /\ v.coldRuns = u.runs /\ v.coldStatus = status
    <2>1. status \in Statuses
      BY ConditionStatusTyped
    <2>2. ColdReport(r) \in Reports
      BY <1>2, <2>1, ReportTyped DEF ColdReport, At
    <2>3. u.runs \in [Conditions -> ConditionRuns]
      <3>1. \A c \in Conditions : Filled(u, c)
        BY <1>2 DEF At, Filled, Fresh2, Judging
      <3> QED BY <1>1, <3>1 DEF Phase, RunRecords
    <2>4. v \in RunRecords
      BY <1>1, <1>4, <2>1, <2>3, SMTT(30) DEF Turns, RunRecords, IsLocal, LocalFields, Same, Steps
    <2>5. /\ status = "PASS_PENDING_REVIEW" => u.metrics # None /\ u.split = "PASS"
          /\ status = "PARTIAL_VALID" => ~AllPass(u.runs)
      <3>1. ColdReport(r).status = status /\ ColdReport(r).metrics = u.metrics /\ ColdReport(r).runs = u.runs
        BY DEF ColdReport, Report
      <3>2. status = "PASS_PENDING_REVIEW" => u.split = "PASS"
        BY DEF ConditionStatus
      <3> QED BY <1>4, <3>1, <3>2 DEF ReportAccepted
    <2>6. v.metrics = u.metrics /\ v.split = u.split
      BY <1>4 DEF Turns, Same, LocalFields
    <2>7. ColdOutcome(v)
      BY <1>4, <2>1, <2>3, <2>5, <2>6 DEF ColdOutcome
    <2>8. Phase(v)
      BY <1>1, <1>2, <1>4, <2>7 DEF Turns, Same, LocalFields, At, Phase, Fresh2, Filled, Early,
                                    Judging, Closing, Working
    <2>9. u.plan \in Plans
      BY <1>1, <1>2 DEF Phase, At, Working, Judging
    <2>10. reports' \in [Plans -> [cold : Reports \cup {None}, resume : Reports \cup {None}]]
      BY <1>1, <1>4, <2>2, <2>9 DEF FilesTyped
    <2>11. FilesTyped'
      BY <1>1, <1>2, <2>10 DEF FilesTyped
    <2> QED BY <1>2, <1>4, <2>4, <2>8, <2>11, MoveKeepsTypes DEF Turns, Begun
  <1> QED BY <1>3, <1>4, ReportColdMoves DEF TInv, Me

LEMMA SnapshotTypes ==
  ASSUME TInv, NEW r \in Runners, Snapshot(r)
  PROVE  TInv'
  <1> DEFINE u == run[r]
             v == run'[r]
  <1>1. u \in RunRecords /\ Phase(u) /\ FilesTyped
    BY DEF TInv
  <1>2. /\ At(r, "snapshot") /\ Quiet /\ Turns(r, "preread", {"before"}) /\ v.before = Outputs
    BY SnapshotMoves DEF TInv
  <1>3. v \in RunRecords
    BY <1>1, <1>2, OutputsTyped, SMTT(30) DEF Turns, RunRecords, IsLocal, LocalFields, Same, Steps
  <1>4. Phase(v)
    BY <1>1, <1>2 DEF Turns, Same, LocalFields, At, Phase, Fresh2, Filled, Sequel, Early, Judging,
                      Closing, Working, ColdOutcome
  <1> QED BY <1>1, <1>2, <1>3, <1>4, MoveKeepsTypes, QuietTypes DEF Turns, Begun

LEMMA VerificationTyped ==
  ASSUME TInv, NEW r \in Runners, At(r, "verify")
  PROVE  ResumeVerification(r) \in Verifications /\ ResumeVerification(r) # None
  <1>1. run[r].plan \in Plans /\ run[r].before \in Snapshots
    BY DEF TInv, Phase, At, Working, Closing, RunRecords
  <1>2. VerificationPasses(r, Outputs) \in BOOLEAN
    BY DEF VerificationPasses
  <1>3. Outputs \in Snapshots
    BY OutputsTyped DEF TInv
  <1> QED BY <1>1, <1>2, <1>3, NothingAssumption DEF ResumeVerification, Verifications, Me

LEMMA VerifyTypes ==
  ASSUME TInv, NEW r \in Runners, Verify(r)
  PROVE  TInv'
  <1> DEFINE u == run[r]
             v == run'[r]
  <1>1. u \in RunRecords /\ Phase(u) /\ FilesTyped
    BY DEF TInv
  <1>2. At(r, "verify") /\ UNCHANGED <<intact, cache, task, predictions, metrics, reports, trouble>>
    BY VerifyMoves DEF TInv
  <1>3. CASE Halts(r, "raised") /\ UNCHANGED records
    BY <1>2, <1>3, RaiseTypes DEF Quiet
  <1>4. CASE /\ records' = [records EXCEPT !.verification = ResumeVerification(r)]
             /\ Turns(r, "recompare", {"verification"})
             /\ v.verification = ResumeVerification(r)
    <2>1. ResumeVerification(r) \in Verifications /\ ResumeVerification(r) # None
      BY <1>2, VerificationTyped
    <2>2. v \in RunRecords
      BY <1>1, <1>4, <2>1, SMTT(30) DEF Turns, RunRecords, IsLocal, LocalFields, Same, Steps
    <2>3. Phase(v)
      BY <1>1, <1>2, <1>4, <2>1 DEF Turns, Same, LocalFields, At, Phase, Fresh2, Filled, Sequel,
                                    Early, Judging, Closing, Working, ColdOutcome
    <2>4. FilesTyped'
      BY <1>1, <1>2, <1>4, <2>1 DEF FilesTyped
    <2> QED BY <1>2, <1>4, <2>2, <2>3, <2>4, MoveKeepsTypes DEF Turns, Begun
  <1> QED BY <1>3, <1>4, VerifyMoves DEF TInv

LEMMA FinalStatusTyped ==
  ASSUME TInv, NEW r \in Runners, At(r, "final")
  PROVE  FinalStatus(r) \in Statuses
  <1>1. run[r].coldStatus \in Statuses
    BY DEF TInv, Phase, At, Sequel, Closing, ColdOutcome
  <1> QED BY <1>1 DEF FinalStatus, Statuses

LEMMA ReportFinalTypes ==
  ASSUME TInv, NEW r \in Runners, ReportFinal(r)
  PROVE  TInv'
  <1> DEFINE u == run[r]
             x == Report(r, FinalStatus(r))
  <1>1. u \in RunRecords /\ Phase(u) /\ FilesTyped
    BY DEF TInv
  <1>2. At(r, "final") /\ UNCHANGED <<intact, cache, task, predictions, metrics, records, trouble>>
    BY ReportFinalMoves DEF TInv
  <1>3. CASE Halts(r, "raised") /\ UNCHANGED reports
    BY <1>2, <1>3, RaiseTypes DEF Quiet
  <1>4. CASE Halts(r, "done") /\ reports' = [reports EXCEPT ![u.plan].resume = x]
    <2>1. x \in Reports
      BY <1>2, FinalStatusTyped, ReportTyped DEF At
    <2>2. u.plan \in Plans
      BY <1>1, <1>2 DEF Phase, At, Working, Closing
    <2> HIDE DEF x
    <2>3. reports' \in [Plans -> [cold : Reports \cup {None}, resume : Reports \cup {None}]]
      BY <1>1, <1>4, <2>1, <2>2 DEF FilesTyped
    <2>4. FilesTyped'
      BY <1>1, <1>2, <2>3 DEF FilesTyped
    <2> QED BY <1>2, <1>4, <2>4, EndKeepsTypes DEF Halts, Ended
  <1> QED BY <1>3, <1>4, ReportFinalMoves DEF TInv, Me

LEMMA DieTypes ==
  ASSUME TInv, NEW r \in Runners, Die(r)
  PROVE  TInv'
  <1>1. /\ UNCHANGED <<intact, cache, task, predictions, metrics, reports, records>>
        /\ Halts(r, "dead") /\ trouble' \in [files : 0 .. MaxTrouble, other : 0 .. MaxTrouble]
    BY DieMoves DEF TInv
  <1>2. FilesTyped'
    BY <1>1 DEF TInv, FilesTyped
  <1> QED BY <1>1, <1>2, EndKeepsTypes DEF Halts, Ended

LEMMA HarmTypes ==
  ASSUME TInv, Harms
  PROVE  TInv'
  <1>1. FilesTyped'
    BY HarmMoves DEF TInv, FilesTyped
  <1>2. UNCHANGED <<run, task>>
    BY HarmMoves DEF TInv
  <1> QED BY <1>1, <1>2 DEF TInv, Begun, Phase

LEMMA InitTypes == Init => TInv
  <1> SUFFICES ASSUME Init PROVE TInv
    OBVIOUS
  <1>1. Blank(Idle) /\ Idle.pc = "start" /\ Idle.plan = None
    BY DEF Blank, Idle, IsLocal, LocalFields, Same
  <1>2. Idle \in RunRecords /\ Phase(Idle)
    BY <1>1, BlankTyped
  <1>3. run \in [Runners -> RunRecords] /\ \A r \in Runners : Phase(run[r]) /\ Begun(run[r])
    BY <1>1, <1>2 DEF Init, Begun
  <1>4. /\ NoOutputs.files \in [Conditions -> Stamped(Contents)]
        /\ NoOutputs.tables \in Stamped(Tables \cup {None})
    BY DEF NoOutputs, Stamped, Contents
  <1>5. FilesTyped
    BY <1>4, SmokeAssumption DEF Init, FilesTyped
  <1> QED BY <1>3, <1>5 DEF TInv

LEMMA StutterTypes ==
  ASSUME TInv, UNCHANGED vars
  PROVE  TInv'
  BY DEF TInv, vars, FilesTyped, Begun, Phase

\* The disjuncts of the next-state relation, one runner or the files at a time.
LEMMA NextTypes ==
  ASSUME TInv, [Next]_vars
  PROVE  TInv'
  <1>1. ASSUME NEW r \in Runners, Step(r)
        PROVE  TInv'
    BY <1>1, BeginTypes, ReadExistingTypes, ScanTypes, FindPublishedTypes, LaunchTypes,
       TrainPassesTypes, TrainFailsTypes, GatherTypes, CollectFailureTypes, CollectPredictionsTypes,
       CollectRaisesMoves, RaiseTypes, ValidateSplitTypes, EvaluateTypes, CompareTypes,
       ReportColdTypes, SnapshotTypes, VerifyTypes, ReportFinalTypes DEF Step, TInv
  <1>2. Environment => TInv'
    BY DieTypes, HarmTypes DEF Environment, Harms
  <1> QED BY <1>1, <1>2, StutterTypes DEF Next

\* Every variable is one of its records, whatever the runners of
\* run_smoke_experiment.py do, die of or find changed.
THEOREM SmokeTyped == Spec => []SmokeTypeOK
  <1>1. Init => TInv
    BY InitTypes
  <1>2. TInv /\ [Next]_vars => TInv'
    BY NextTypes
  <1>3. TInv => SmokeTypeOK
    BY DEF TInv, FilesTyped, SmokeTypeOK
  <1> QED BY <1>1, <1>2, <1>3, PTL DEF Spec


-----------------------------------------------------------------------------
(* The invariant: what the files are.                                         *)

\* Nobody trains what is cached, or what another one trains.
Training ==
  /\ \A r \in Runners : \A c \in run[r].training : ~Valid(c)
  /\ \A q, r \in Runners : q # r => run[q].training \cap run[r].training = {}

Unharmed == trouble.files = 0
Labels == intact["targets"]

Files ==
  /\ Unharmed => \A s \in Sources : intact[s]
  /\ \A c \in Conditions : Valid(c) /\ ~cache[c].sound => ~Labels
  /\ Unharmed /\ metrics.content # None => \A c \in Conditions : Valid(c)

-----------------------------------------------------------------------------
(* The invariant: what a runner knows.                                        *)

Passes(r, c) == IsPass(run[r].runs[c])

Knows(r) ==
  /\ \A c \in Conditions : Passes(r, c) => run[r].runs[c].payload.plan = run[r].plan
  /\ \A c \in Conditions :
       Passes(r, c) /\ Fresh2(run[r], c) /\ run[r].runs[c].payload.net => run[r].net
  /\ \A c \in Conditions : Passes(r, c) /\ ~run[r].runs[c].payload.sound =>
       ~Labels /\ (run[r].pc = "final" => ~run[r].unchanged)
  /\ run[r].pc \in {"compare", "report"} /\ AllPass(run[r].runs) /\ run[r].split = "PASS" =>
       run[r].metrics # None

\* What was collected or evaluated is what the cache still holds, unless files
\* were harmed.
Cached(r) ==
  Unharmed =>
    /\ \A c \in Conditions : Passes(r, c) => Valid(c) /\ run[r].runs[c].payload = cache[c]
    /\ run[r].metrics # None => /\ \A c \in Conditions : Valid(c)
                                /\ run[r].metrics = [c \in Conditions |-> cache[c]]
    /\ \A c \in run[r].executed :
         run[r].mode = "cold" => Valid(c) /\ cache[c].by = r /\ cache[c].mode = "cold"

\* The same for a runner that is alone, whatever happens to files: an entry that
\* validates and was not trained in the second pass is the one of the first.
AloneCached(r) ==
  /\ \A c \in Conditions :
       Passes(r, c) /\ run[r].mode = "cold" /\ Valid(c) => cache[c] = run[r].runs[c].payload
  /\ run[r].metrics # None =>
       \A c \in Conditions :
         run[r].mode = "cold" \/ c \notin run[r].executed =>
           /\ Valid(c) => cache[c] = run[r].metrics[c]
           /\ run[r].mode = "resume" /\ Fresh2(run[r], c) /\ Passes(r, c) =>
                run[r].runs[c].payload = run[r].metrics[c]

\* A prediction file that was not written since the snapshot is as it was then,
\* and what the second pass collected is what the file holds.
Snapped(u) == u.pc = "preread" \/ (u.mode = "resume" /\ u.pc \notin {"recompare", "final"})
Watched(r) ==
  Snapped(run[r]) =>
    \A c \in Conditions :
      /\ run[r].before.files[c].stamp <= predictions[c].stamp
      /\ /\ run[r].mode = "resume" /\ Fresh2(run[r], c) /\ Passes(r, c)
         /\ run[r].before.files[c].stamp = predictions[c].stamp
         => predictions[c].content = run[r].runs[c].payload

Verified(r) ==
  run[r].pc \in {"recompare", "final"} =>
    LET v == run[r].verification IN
    /\ v.by = r /\ v.plan = run[r].plan
    /\ v.passed => /\ v.before = v.after
                   /\ run[r].executed = {} /\ run[r].hits = Conditions
                   /\ AllPass(run[r].runs) /\ ~run[r].net
                   /\ \A c \in Conditions : v.after.files[c].content = run[r].runs[c].payload

\* The cold report is the runner's own, or another runner's.
Told(r) ==
  Sequel(run[r]) =>
    LET x == reports[run[r].plan].cold IN
    x # None /\ x.by = r => x.status = run[r].coldStatus

-----------------------------------------------------------------------------
(* The invariant: a runner that is alone, with files unharmed.                *)

Pristine ==
  /\ \A p \in Plans : task[p] = None
  /\ \A c \in Conditions : cache[c] = None /\ predictions[c].content = None
  /\ metrics.content = None

State(r, c) == task[run[r].plan][c].state

Past(u) ==
  u.pc \in {"execute", "collect"} \cup Judging \cup Closing \/ (u.pc = "scan" /\ u.mode = "resume")

Progress(r) ==
  /\ task[run[r].plan] # None
  /\ \A c \in Conditions :
       /\ Valid(c) <=> State(r, c) = "COMPLETE"
       /\ State(r, c) \in {"COMPLETE", "FAILED"} \/ c \in run[r].queue \cup run[r].training
       /\ Valid(c) => cache[c].plan = run[r].plan
       /\ Passes(r, c) => predictions[c].content = run[r].runs[c].payload
       /\ Filled(run[r], c) => (Passes(r, c) <=> Valid(c))
  /\ \A c \in run[r].queue : ~Valid(c) /\ c \notin run[r].training
  /\ metrics.content = run[r].metrics
  /\ run[r].pc = "collect" => run[r].seen = task[run[r].plan]

FirstPass(r) ==
  run[r].mode = "cold" => run[r].hits = {} /\ \A c \in Conditions : Valid(c) => c \in run[r].executed

SecondPass(r) ==
  run[r].mode = "resume" =>
    /\ run[r].executed = {} /\ run[r].queue = {} /\ run[r].training = {}
    /\ run[r].existing = {c \in Conditions : Valid(c)}
    /\ run[r].pc # "scan" => run[r].hits = {c \in Conditions : Valid(c)}
    /\ \A c \in Conditions : Fresh2(run[r], c) /\ Passes(r, c) => run[r].runs[c].hit

Papers(r) ==
  /\ run[r].pc = "preread" \/ run[r].mode = "resume" => run[r].before = Outputs
  /\ run[r].pc \in {"evaluate", "compare", "report", "snapshot", "preread"} \/ run[r].mode = "resume" =>
       records.split = run[r].split
  /\ run[r].pc = "final" =>
       records.resume = [plan |-> run[r].plan, unchanged |-> run[r].unchanged]
  /\ run[r].pc \in {"recompare", "final"} => records.verification = run[r].verification
  /\ Sequel(run[r]) => /\ reports[run[r].plan].cold # None
                       /\ reports[run[r].plan].cold.by = r
                       /\ reports[run[r].plan].cold.runs = run[r].coldRuns

Solo(r) ==
  /\ run[r].pc # "raised"
  /\ run[r].pc \in Early \/ (run[r].pc = "scan" /\ run[r].mode = "cold") => Pristine
  /\ Past(run[r]) => Progress(r) /\ FirstPass(r) /\ SecondPass(r) /\ Papers(r)

Own(r) ==
  /\ Knows(r) /\ Cached(r) /\ (Alone(r) => AloneCached(r))
  /\ Watched(r) /\ Verified(r) /\ Told(r)
  /\ Unharmed /\ Alone(r) => Solo(r)

-----------------------------------------------------------------------------
(* The invariant: what the reports say.                                       *)

Passing(x) == x # None /\ x.status = "PASS_PENDING_REVIEW"

ColdReports ==
  \A p \in Plans :
    LET x == reports[p].cold IN
    Passing(x) =>
      \A c \in Conditions :
        LET it == x.runs[c].payload IN
        it.plan = p /\ (Unharmed => it.by = x.by /\ it.mode = "cold")

FinalReport(p) ==
  LET x == reports[p].resume IN
  /\ x.by \in Runners /\ run[x.by].pc = "done" /\ x.plan = p
  /\ x.verification # None
  /\ x.verification.by = x.by
  /\ Passing(x) =>
       /\ AllPass(x.runs) /\ Gates(x) /\ x.metrics # None
       /\ \A c \in Conditions : /\ x.runs[c].payload.sound /\ ~x.runs[c].payload.net
                                /\ x.runs[c].payload.plan = p
                                /\ x.verification.after.files[c].content = x.runs[c].payload
       /\ Unharmed \/ Alone(x.by) => x.metrics = [c \in Conditions |-> x.runs[c].payload]
       /\ reports[p].cold # None /\ reports[p].cold.by = x.by =>
            reports[p].cold.status = "PASS_PENDING_REVIEW"
       /\ Unharmed /\ Alone(x.by) => Verdict(p) = "PASS"

FinalReports == \A p \in Plans : reports[p].resume # None => FinalReport(p)

IInv ==
  /\ TInv /\ Training /\ Files
  /\ \A r \in Runners : Own(r)
  /\ ColdReports /\ FinalReports

-----------------------------------------------------------------------------
(* A step of one runner, as the others see it.                                *)

Evolves(r) ==
  /\ Moves(r) /\ run'[r].pc # "start" /\ run[r].pc \notin Ended
  /\ UNCHANGED intact /\ trouble'.files = trouble.files
  /\ \A c \in Conditions : Valid(c) => cache'[c] = cache[c]
  /\ \A c \in Conditions : \/ predictions'[c] = predictions[c]
                           \/ predictions'[c].stamp = predictions[c].stamp + 1
  /\ \A p \in Plans : \/ reports'[p].cold = reports[p].cold
                      \/ reports'[p].cold # None /\ reports'[p].cold.by = r

\* Only this runner's own records and nothing that others see.
LEMMA QuietEvolves ==
  ASSUME TInv, NEW r \in Runners, Moves(r), run'[r].pc # "start", run[r].pc \notin Ended,
         UNCHANGED <<intact, cache, predictions, reports>>, trouble'.files = trouble.files
  PROVE  Evolves(r)
  BY DEF Evolves

LEMMA Stamps ==
  ASSUME TInv, NEW q \in Runners, NEW c \in Conditions
  PROVE  run[q].before.files[c].stamp \in Nat /\ predictions[c].stamp \in Nat
  <1>1. run[q].before \in Snapshots
    BY DEF TInv, RunRecords
  <1>2. run[q].before.files[c] \in Stamped(Contents) /\ predictions[c] \in Stamped(Contents)
    BY <1>1 DEF Snapshots, TInv, FilesTyped
  <1> QED BY <1>2 DEF Stamped

LEMMA OthersAlone ==
  ASSUME TInv, NEW r \in Runners, Evolves(r)
  PROVE  /\ \A q \in Runners : q # r => run'[q] = run[q] /\ ~Alone(q)'
         /\ Alone(r)' <=> Alone(r)
  <1>1. \A q \in Runners : q # r => run'[q] = run[q]
    BY DEF Evolves, Moves, TInv
  <1> QED BY <1>1 DEF Alone, At, Evolves

\* What another runner knows is not disturbed.
LEMMA OthersKeep ==
  ASSUME TInv, TInv', NEW r \in Runners, Evolves(r), NEW q \in Runners, q # r, Own(q)
  PROVE  Own(q)'
  <1> DEFINE u == run[q]
  <1>1. run'[q] = run[q] /\ ~Alone(q)'
    BY OthersAlone
  <1>2. Labels' = Labels /\ Unharmed' = Unharmed
    BY DEF Evolves, Labels, Unharmed
  <1>3. Knows(q)'
    BY <1>1, <1>2 DEF Own, Knows, Passes
  <1>4. Cached(q)'
    <2>1. \A c \in Conditions : Valid(c) => Valid(c)' /\ cache'[c] = cache[c]
      BY DEF Evolves, Valid
    <2>2. \A c \in Conditions : Passes(q, c)' = Passes(q, c)
      BY <1>1 DEF Passes
    <2>3. (\A c \in Conditions : Valid(c)) => [c \in Conditions |-> cache[c]] = [c \in Conditions |-> cache'[c]]
      BY <2>1
    <2>4. u.executed \subseteq Conditions
      BY DEF TInv, RunRecords
    <2>5. Unharmed => Cached(q)
      BY DEF Own
    <2> QED BY <1>1, <1>2, <2>1, <2>2, <2>3, <2>4, <2>5 DEF Cached
  <1>5. Watched(q)'
    <2> SUFFICES ASSUME Snapped(u), NEW c \in Conditions
                 PROVE  /\ u.before.files[c].stamp <= predictions'[c].stamp
                        /\ /\ u.mode = "resume" /\ Fresh2(u, c) /\ IsPass(u.runs[c])
                           /\ u.before.files[c].stamp = predictions'[c].stamp
                           => predictions'[c].content = u.runs[c].payload
      BY <1>1 DEF Watched, Passes
    <2>1. u.before.files[c].stamp \in Nat /\ predictions[c].stamp \in Nat
      BY Stamps
    <2>2. \/ predictions'[c] = predictions[c]
          \/ predictions'[c].stamp = predictions[c].stamp + 1
      BY DEF Evolves
    <2>3. Watched(q)
      BY DEF Own
    <2> QED BY <2>1, <2>2, <2>3 DEF Watched, Passes
  <1>6. Verified(q)'
    BY <1>1 DEF Own, Verified
  <1>7. Told(q)'
    <2>1. Sequel(u) => u.plan \in Plans
      BY DEF TInv, Phase, Sequel, Working, Judging, Blank, Same, LocalFields, Idle
    <2> QED BY <1>1, <2>1 DEF Own, Told, Evolves
  <1> QED BY <1>1, <1>3, <1>4, <1>5, <1>6, <1>7 DEF Own

\* A final report stays what it is when another runner moves.
LEMMA FinalKeeps ==
  ASSUME TInv, NEW r \in Runners, Evolves(r), NEW p \in Plans, reports'[p].resume = reports[p].resume,
         reports[p].resume # None, FinalReport(p)
  PROVE  FinalReport(p)'
  <1>1. PICK x : x = reports[p].resume
    OBVIOUS
  <1>2. x.by \in Runners /\ x.by # r
    BY <1>1 DEF FinalReport, Evolves, Ended
  <1>3. run'[x.by] = run[x.by] /\ ~Alone(x.by)'
    BY <1>2, OthersAlone
  <1>4. Unharmed' = Unharmed /\ reports'[p].resume = x
    BY <1>1 DEF Evolves, Unharmed
  <1>5. reports'[p].cold = reports[p].cold \/ reports'[p].cold.by # x.by
    BY <1>2 DEF Evolves
  <1>6. Passing(x) => /\ AllPass(x.runs) /\ Gates(x) /\ x.metrics # None
                      /\ \A c \in Conditions :
                           /\ x.runs[c].payload.sound /\ ~x.runs[c].payload.net
                           /\ x.runs[c].payload.plan = p
                           /\ x.verification.after.files[c].content = x.runs[c].payload
    BY <1>1 DEF FinalReport
  <1>7. Passing(x) /\ Unharmed' => x.metrics = [c \in Conditions |-> x.runs[c].payload]
    BY <1>1, <1>4 DEF FinalReport
  <1>8. Passing(x) /\ reports'[p].cold # None /\ reports'[p].cold.by = x.by =>
          reports'[p].cold.status = "PASS_PENDING_REVIEW"
    BY <1>1, <1>5 DEF FinalReport
  <1>9. /\ run[x.by].pc = "done" /\ x.plan = p
        /\ x.verification # None /\ x.verification.by = x.by
    BY <1>1 DEF FinalReport
  <1>10. Passing(x)' = Passing(x) /\ AllPass(x.runs)' = AllPass(x.runs) /\ Gates(x)' = Gates(x)
    BY DEF Passing, AllPass, Gates
  <1> QED BY <1>2, <1>3, <1>4, <1>6, <1>7, <1>8, <1>9, <1>10 DEF FinalReport

\* What is left to show of a step that writes no final report.
LEMMA StepKeeps ==
  ASSUME IInv, TInv', NEW r \in Runners, Evolves(r),
         Training', Files', Own(r)', ColdReports',
         \A p \in Plans : reports'[p].resume = reports[p].resume
  PROVE  IInv'
  <1>1. \A q \in Runners : Own(q)'
    BY OthersKeep DEF IInv
  <1>2. FinalReports'
    BY FinalKeeps DEF IInv, FinalReports
  <1> QED BY <1>1, <1>2 DEF IInv

\* Files and cold reports are what they were.
LEMMA SameFiles ==
  ASSUME IInv, UNCHANGED <<intact, cache, metrics>>, trouble'.files = trouble.files
  PROVE  Files'
  BY DEF IInv, Files, Unharmed, Labels, Valid

LEMMA SameColdReports ==
  ASSUME IInv, UNCHANGED reports, trouble'.files = trouble.files
  PROVE  ColdReports'
  BY DEF IInv, ColdReports, Unharmed

\* Nothing new is valid, and nobody trains more.
LEMMA SameTraining ==
  ASSUME IInv, TInv', NEW r \in Runners, Moves(r), run'[r].training \subseteq run[r].training,
         \A c \in Conditions : cache'[c] \in Payloads => cache'[c] = cache[c]
  PROVE  Training'
  <1>1. \A q \in Runners : run'[q].training \subseteq run[q].training
    BY DEF Moves, IInv, TInv
  <1>2. \A q \in Runners : run[q].training \subseteq Conditions
    BY DEF IInv, TInv, RunRecords
  <1> QED BY <1>1, <1>2 DEF IInv, Training, Valid

\* A runner that ends leaves nothing behind to be known.
LEMMA EndKeeps ==
  ASSUME IInv, TInv', NEW r \in Runners, NEW how \in Ended, EndsAs(r, how), Evolves(r),
         UNCHANGED <<cache, intact, metrics>>, how = "raised" => ~(Unharmed /\ Alone(r))
  PROVE  Own(r)' /\ Training' /\ Files'
  <1> DEFINE v == run'[r]
  <1>1. /\ v.pc = how /\ v.mode = "cold" /\ v.executed = {} /\ v.training = {}
        /\ v.runs = [c \in Conditions |-> None] /\ v.metrics = None
    BY DEF EndsAs, Blank, Same, LocalFields, Idle
  <1>2. \A c \in Conditions : ~Passes(r, c)'
    BY <1>1, NoneIsNoPass DEF Passes
  <1>3. Knows(r)'
    BY <1>1, <1>2 DEF Knows, Ended
  <1>4. Cached(r)'
    BY <1>1, <1>2 DEF Cached
  <1>5. AloneCached(r)'
    BY <1>1, <1>2 DEF AloneCached
  <1>6. Watched(r)' /\ Verified(r)' /\ Told(r)'
    BY <1>1 DEF Watched, Snapped, Verified, Told, Sequel, Ended
  <1>7. Unharmed' /\ Alone(r)' => Solo(r)'
    <2>1. Unharmed' /\ Alone(r)' => Unharmed /\ Alone(r)
      BY OthersAlone DEF Evolves, Unharmed, IInv
    <2>2. Unharmed' /\ Alone(r)' => v.pc # "raised"
      BY <1>1, <2>1
    <2>3. ~Past(run[r])' /\ v.pc \notin Early \cup {"scan"}
      BY <1>1 DEF Past, Judging, Closing, Ended, Early
    <2> QED BY <2>2, <2>3 DEF Solo
  <1>8. Files'
    BY SameFiles DEF Evolves
  <1>9. Training'
    BY <1>1, SameTraining DEF Evolves
  <1> QED BY <1>3, <1>4, <1>5, <1>6, <1>7, <1>8, <1>9 DEF Own

\* A runner that raises was not alone, or files were harmed.
LEMMA RaiseKeeps ==
  ASSUME IInv, TInv', NEW r \in Runners, run[r].pc \notin Ended, Quiet, Halts(r, "raised"),
         ~(Unharmed /\ Alone(r))
  PROVE  IInv'
  <1>1. Evolves(r)
    BY QuietEvolves DEF Halts, EndsAs, Quiet, IInv
  <1>2. Own(r)' /\ Training' /\ Files'
    BY <1>1, EndKeeps DEF Halts, Quiet, Ended
  <1>3. ColdReports'
    BY SameColdReports DEF Quiet
  <1> QED BY <1>1, <1>2, <1>3, StepKeeps DEF Quiet

LEMMA DieKeeps ==
  ASSUME IInv, TInv', NEW r \in Runners, Die(r)
  PROVE  IInv'
  <1>1. /\ UNCHANGED <<intact, cache, task, predictions, metrics, reports, records>>
        /\ run[r].pc \notin Ended \cup {"start"} /\ Halts(r, "dead") /\ trouble'.files = trouble.files
    BY DieMoves DEF IInv, TInv
  <1>2. Evolves(r)
    BY <1>1, QuietEvolves DEF Halts, EndsAs, IInv
  <1>3. Own(r)' /\ Training' /\ Files'
    BY <1>1, <1>2, EndKeeps DEF Halts, Ended
  <1>4. ColdReports'
    BY <1>1, SameColdReports
  <1> QED BY <1>1, <1>2, <1>3, <1>4, StepKeeps

\* What a changed file leaves of it.
LEMMA HarmKeeps ==
  ASSUME IInv, TInv', Harms
  PROVE  IInv'
  <1>1. /\ UNCHANGED <<run, task, metrics, reports, records>> /\ trouble'.files > 0
        /\ \A s \in Sources : intact'[s] => intact[s]
        /\ \A c \in Conditions : cache'[c] \in Payloads => cache'[c] = cache[c]
        /\ \A c \in Conditions : \/ predictions'[c] = predictions[c]
                                 \/ predictions'[c].stamp = predictions[c].stamp + 1
    BY HarmMoves DEF IInv, TInv
  <1>2. ~Unharmed' /\ (Labels' => Labels)
    <2>1. trouble'.files \in Nat
      BY DEF TInv, FilesTyped
    <2> QED BY <1>1, <2>1 DEF Unharmed, Labels, Sources, Protected
  <1>3. \A c \in Conditions : Valid(c)' => Valid(c) /\ cache'[c] = cache[c]
    BY <1>1 DEF Valid
  <1>4. Training'
    <2>1. \A r \in Runners : run[r].training \subseteq Conditions
      BY DEF IInv, TInv, RunRecords
    <2> QED BY <1>1, <1>3, <2>1 DEF Training, IInv
  <1>5. Files'
    BY <1>2, <1>3 DEF Files, IInv
  <1>6. ASSUME NEW r \in Runners
        PROVE  Own(r)'
    <2>1. Own(r) /\ Alone(r)' = Alone(r) /\ \A c \in Conditions : Passes(r, c)' = Passes(r, c)
      BY <1>1 DEF IInv, Alone, At, Passes
    <2>2. Knows(r)'
      BY <1>1, <1>2, <2>1 DEF Own, Knows
    <2>3. Cached(r)'
      BY <1>2 DEF Cached
    <2>4. Alone(r)' => AloneCached(r)'
      BY <1>1, <1>3, <2>1 DEF Own, AloneCached
    <2>5. Watched(r)'
      <3> SUFFICES ASSUME Snapped(run[r]), NEW c \in Conditions
                   PROVE  /\ run[r].before.files[c].stamp <= predictions'[c].stamp
                          /\ /\ run[r].mode = "resume" /\ Fresh2(run[r], c) /\ Passes(r, c)
                             /\ run[r].before.files[c].stamp = predictions'[c].stamp
                             => predictions'[c].content = run[r].runs[c].payload
        BY <1>1, <2>1 DEF Watched
      <3>1. run[r].before.files[c].stamp \in Nat /\ predictions[c].stamp \in Nat
        BY Stamps DEF IInv
      <3>2. Watched(r)
        BY <2>1 DEF Own
      <3> QED BY <1>1, <3>1, <3>2 DEF Watched
    <2>6. Verified(r)' /\ Told(r)'
      BY <1>1, <2>1 DEF Own, Verified, Told
    <2> QED BY <1>2, <2>2, <2>3, <2>4, <2>5, <2>6 DEF Own
  <1>7. ColdReports'
    BY <1>1, <1>2 DEF IInv, ColdReports
  <1>8. FinalReports'
    <2>1. \A q \in Runners : Alone(q)' = Alone(q)
      BY <1>1 DEF Alone, At
    <2>2. ASSUME NEW p \in Plans, reports[p].resume # None, FinalReport(p)
          PROVE  FinalReport(p)'
      BY <1>1, <1>2, <2>1, <2>2, SMTT(30) DEF FinalReport, Passing, AllPass, Gates
    <2> QED BY <1>1, <2>2 DEF IInv, FinalReports
  <1> QED BY <1>4, <1>5, <1>6, <1>7, <1>8 DEF IInv

\* What the runner collected, executed and evaluated is what it was.
SameOutcome(r) ==
  /\ run'[r].runs = run[r].runs /\ run'[r].metrics = run[r].metrics
  /\ run'[r].mode = run[r].mode /\ run'[r].executed = run[r].executed

LEMMA SameCached ==
  ASSUME IInv, NEW r \in Runners, SameOutcome(r), UNCHANGED cache, trouble'.files = trouble.files
  PROVE  Cached(r)'
  <1>1. Cached(r)
    BY DEF IInv, Own
  <1> QED BY <1>1 DEF SameOutcome, Cached, Passes, Valid, Unharmed

LEMMA SameAloneCached ==
  ASSUME IInv, NEW r \in Runners, SameOutcome(r), UNCHANGED cache, AloneCached(r),
         \A c \in Conditions : Fresh2(run'[r], c) => Fresh2(run[r], c)
  PROVE  AloneCached(r)'
  BY DEF SameOutcome, AloneCached, Passes, Valid

-----------------------------------------------------------------------------
(* Each step keeps the invariant.                                             *)

LEMMA AllIntact ==
  ASSUME IInv, Unharmed
  PROVE  /\ \A s \in Sources : intact[s]
         /\ PreflightHolds /\ RuntimeSourcesHold /\ FoundationUnchanged /\ SourcesHold /\ ViewFilesHold
         /\ intact["targets"] /\ \A c \in Conditions : WorkerInputsHold(c)
  <1>1. \A s \in Sources : intact[s]
    BY DEF IInv, Files
  <1>2. /\ intact["features"] /\ intact["targets"] /\ intact["assignment"] /\ intact["view"]
        /\ intact["certificate"] /\ intact["registry"] /\ intact["checkpoint"]
    BY <1>1 DEF Sources, Protected
  <1> QED BY <1>1, <1>2 DEF Protected, PreflightHolds, PlanHolds, ViewRecordsHold, ViewFilesHold,
                            RegistryHolds, CheckpointVerified, RuntimeSourcesHold,
                            FoundationUnchanged, SourcesHold, WorkerInputsHold

LEMMA BeginKeeps ==
  ASSUME IInv, TInv', NEW r \in Runners, Preflight(r) \/ Freeze(r) \/ EnsureNewColdRun(r)
  PROVE  IInv'
  <1> DEFINE u == run[r]
             v == run'[r]
  <1>1. Quiet /\ u.pc \in Early /\ u.pc \notin Ended /\ Phase(u) /\ Phase(v) /\ Own(r)
    BY PreflightMoves, FreezeMoves, EnsureMoves DEF IInv, TInv, At, Early, Ended
  <1>2. Unharmed /\ Alone(r) => Pristine
    BY <1>1 DEF Own, Solo
  <1>3. CASE Halts(r, "raised")
    <2>1. v.pc = "raised"
      BY <1>3 DEF Halts, EndsAs
    <2>2. Unharmed => /\ Preflight(r) => v.pc = "planned"
                      /\ Freeze(r) => v.pc = "frozen"
      BY AllIntact, PreflightMoves, FreezeMoves DEF IInv, TInv, Turns
    <2>3. Pristine /\ u.plan \in Plans => Fresh(Me(r))
      BY DEF Pristine, Fresh, Me
    <2>4. EnsureNewColdRun(r) /\ Pristine => v.pc = "scan"
      BY <1>1, <2>3, EnsureMoves DEF IInv, TInv, Turns, Phase, At, Working, Early, Judging, Closing
    <2>5. ~(Unharmed /\ Alone(r))
      BY <1>2, <2>1, <2>2, <2>4
    <2> QED BY <1>1, <1>3, <2>5, RaiseKeeps
  <1>4. CASE \/ Turns(r, "planned", {"plan"}) \/ Turns(r, "frozen", {}) \/ Turns(r, "scan", {})
    <2>1. /\ v.runs = u.runs /\ v.net = u.net /\ v.metrics = u.metrics /\ v.mode = u.mode
          /\ v.executed = u.executed /\ v.training = u.training /\ v.pc \in {"planned", "frozen", "scan"}
          /\ Moves(r)
      BY <1>4 DEF Turns, Same, LocalFields
    <2>2. Evolves(r)
      BY <1>1, <2>1, QuietEvolves DEF IInv, Quiet
    <2>3. v.mode = "cold"
      BY <1>1, <2>1 DEF Phase
    <2>4. \A c \in Conditions : ~Passes(r, c)'
      <3>1. \A c \in Conditions : ~Filled(v, c)
        BY <2>1, <2>3 DEF Filled, Fresh2, Judging, Closing
      <3> QED BY <1>1, <3>1, NoneIsNoPass DEF Phase, Passes
    <2>5. v.metrics = None
      BY <1>1, <2>1, <2>3 DEF Phase
    <2>6. Knows(r)' /\ AloneCached(r)'
      BY <2>1, <2>4, <2>5 DEF Knows, AloneCached
    <2>7. Cached(r)'
      BY <1>1, <2>1, <2>4, <2>5 DEF Own, Cached, Quiet, Unharmed, Valid
    <2>8. Watched(r)' /\ Verified(r)' /\ Told(r)'
      BY <2>1, <2>3 DEF Watched, Snapped, Verified, Told, Sequel
    <2>9. Unharmed' /\ Alone(r)' => Solo(r)'
      <3>1. ~Past(v) /\ v.pc # "raised"
        BY <2>1, <2>3 DEF Past, Judging, Closing
      <3>2. (Unharmed' => Unharmed) /\ (Pristine => Pristine')
        BY <1>1 DEF Pristine, Quiet, Unharmed
      <3>3. Alone(r)' => Alone(r)
        BY <2>2, OthersAlone DEF IInv
      <3> QED BY <1>2, <3>1, <3>2, <3>3 DEF Solo
    <2>10. Own(r)'
      BY <2>6, <2>7, <2>8, <2>9 DEF Own
    <2>11. Training' /\ Files' /\ ColdReports'
      BY <1>1, <2>1, SameTraining, SameFiles, SameColdReports DEF Quiet
    <2> QED BY <1>1, <2>2, <2>10, <2>11, StepKeeps DEF Quiet
  <1> QED BY <1>3, <1>4, PreflightMoves, FreezeMoves, EnsureMoves DEF IInv, TInv

LEMMA ReadExistingKeeps ==
  ASSUME IInv, TInv', NEW r \in Runners, ReadExisting(r)
  PROVE  IInv'
  <1> DEFINE u == run[r]
             v == run'[r]
  <1>1. Phase(u) /\ Phase(v) /\ Own(r)
    BY DEF IInv, TInv
  <1>2. /\ u.pc = "preread" /\ Quiet
        /\ Turns(r, "scan", {"mode", "existing", "hits", "executed", "net"})
        /\ v.mode = "resume" /\ v.existing = {c \in Conditions : Valid(c)}
        /\ v.hits = {} /\ v.executed = {} /\ v.net = FALSE
    BY ReadExistingMoves DEF IInv, TInv, At
  <1>3. /\ Moves(r) /\ v.pc = "scan" /\ v.plan = u.plan /\ v.queue = u.queue /\ v.training = u.training
        /\ v.runs = u.runs /\ v.split = u.split /\ v.metrics = u.metrics /\ v.coldStatus = u.coldStatus
        /\ v.coldRuns = u.coldRuns /\ v.before = u.before
    BY <1>2 DEF Turns, Same, LocalFields
  <1>4. u.mode = "cold" /\ u.queue = {} /\ u.training = {} /\ \A c \in Conditions : Filled(u, c)
    BY <1>1, <1>2 DEF Phase, Filled, Fresh2, Judging
  <1>5. Evolves(r)
    BY <1>2, <1>3, QuietEvolves DEF IInv, Quiet, Ended
  <1>6. /\ Unharmed' = Unharmed /\ Labels' = Labels /\ (Alone(r)' <=> Alone(r))
        /\ \A c \in Conditions : Passes(r, c)' = Passes(r, c) /\ Valid(c)' = Valid(c)
        /\ \A c \in Conditions : ~Fresh2(v, c) /\ Fresh2(u, c)
    <2>1. Alone(r)' <=> Alone(r)
      BY <1>5, OthersAlone DEF IInv
    <2>2. /\ Unharmed' = Unharmed /\ Labels' = Labels
          /\ \A c \in Conditions : Passes(r, c)' = Passes(r, c) /\ Valid(c)' = Valid(c)
      BY <1>2, <1>3 DEF Quiet, Unharmed, Labels, Passes, Valid
    <2> QED BY <1>2, <1>3, <2>1, <2>2 DEF Fresh2, Judging, Closing
  <1>7. Knows(r)'
    BY <1>1, <1>3, <1>6 DEF Own, Knows
  <1>8. Cached(r)'
    BY <1>1, <1>2, <1>3, <1>6 DEF Own, Cached, Quiet
  <1>9. Alone(r)' => AloneCached(r)'
    BY <1>1, <1>2, <1>3, <1>4, <1>6 DEF Own, AloneCached, Quiet
  <1>10. Watched(r)' /\ Verified(r)' /\ Told(r)'
    BY <1>1, <1>2, <1>3, <1>6 DEF Own, Watched, Verified, Told, Snapped, Sequel, Quiet
  <1>11. Unharmed' /\ Alone(r)' => Solo(r)'
    <2> SUFFICES ASSUME Unharmed, Alone(r)
                 PROVE  Solo(r)'
      BY <1>6
    <2>1. Progress(r) /\ Papers(r)
      BY <1>1, <1>2 DEF Own, Solo, Past, Judging
    <2>2. Progress(r)'
      BY <1>2, <1>3, <1>4, <1>6, <2>1 DEF Progress, State, Quiet
    <2>3. FirstPass(r)' /\ SecondPass(r)'
      BY <1>2, <1>3, <1>4, <1>6 DEF FirstPass, SecondPass
    <2>4. Papers(r)'
      BY <1>2, <1>3, <2>1 DEF Papers, Quiet, Outputs, Sequel
    <2> QED BY <1>2, <1>3, <2>2, <2>3, <2>4 DEF Solo, Early
  <1>12. Own(r)'
    BY <1>7, <1>8, <1>9, <1>10, <1>11 DEF Own
  <1>13. Training' /\ Files' /\ ColdReports'
    BY <1>2, <1>3, SameTraining, SameFiles, SameColdReports DEF Quiet
  <1> QED BY <1>2, <1>5, <1>12, <1>13, StepKeeps DEF Quiet

\* The scheduler changes nothing of what was collected.
LEMMA PoolKnows ==
  ASSUME IInv, TInv', NEW r \in Runners, run[r].pc \in {"scan", "execute"}, run'[r].pc = "execute",
         Same(run[r], run'[r], {"pc", "queue", "training", "hits", "executed", "net"}),
         run[r].net => run'[r].net, Evolves(r), UNCHANGED <<predictions, reports>>,
         run[r].executed \subseteq run'[r].executed,
         \A c \in run'[r].executed \ run[r].executed :
           Valid(c)' /\ cache'[c].by = r /\ cache'[c].mode = run[r].mode,
         \A c \in Conditions : Valid(c)' => Valid(c) \/ c \in run'[r].executed
  PROVE  /\ Knows(r)' /\ Cached(r)' /\ (Alone(r)' => AloneCached(r)')
         /\ Watched(r)' /\ Verified(r)' /\ Told(r)'
  <1> DEFINE u == run[r]
             v == run'[r]
  <1>1. Phase(u) /\ Phase(v) /\ Own(r)
    BY DEF IInv, TInv
  <1>2. /\ v.plan = u.plan /\ v.mode = u.mode /\ v.runs = u.runs /\ v.split = u.split
        /\ v.metrics = u.metrics /\ v.coldStatus = u.coldStatus /\ v.before = u.before
    BY DEF Same, LocalFields
  <1>3. /\ Unharmed' = Unharmed /\ Labels' = Labels
        /\ \A c \in Conditions : Passes(r, c)' = Passes(r, c)
        /\ \A c \in Conditions : Valid(c) => Valid(c)' /\ cache'[c] = cache[c]
    BY <1>2 DEF Unharmed, Labels, Passes, Valid, Evolves
  <1>4. Alone(r)' <=> Alone(r)
    BY OthersAlone DEF IInv
  <1>5. \A c \in Conditions : ~Fresh2(u, c) /\ ~Fresh2(v, c)
    BY DEF Fresh2, Judging, Closing
  <1>6. Knows(r)'
    BY <1>1, <1>2, <1>3, <1>5 DEF Own, Knows
  <1>7. Cached(r)'
    <2> SUFFICES ASSUME Unharmed
                 PROVE  Cached(r)'
      BY <1>3 DEF Cached
    <2>1. \A c \in Conditions : Passes(r, c) => Valid(c) /\ u.runs[c].payload = cache[c]
      BY <1>1 DEF Own, Cached
    <2>2. u.metrics # None => /\ \A c \in Conditions : Valid(c)
                              /\ u.metrics = [c \in Conditions |-> cache[c]]
      BY <1>1 DEF Own, Cached
    <2>3. u.metrics # None => /\ \A c \in Conditions : Valid(c)'
                              /\ u.metrics = [c \in Conditions |-> cache'[c]]
      BY <1>3, <2>2
    <2>4. u.executed \subseteq Conditions
      BY DEF IInv, TInv, RunRecords
    <2>5. \A c \in v.executed : v.mode = "cold" => Valid(c)' /\ cache'[c].by = r /\ cache'[c].mode = "cold"
      BY <1>1, <1>2, <1>3, <2>4 DEF Own, Cached
    <2> QED BY <1>2, <1>3, <2>1, <2>3, <2>5 DEF Cached
  <1>8. Alone(r)' => AloneCached(r)'
    <2> SUFFICES ASSUME Alone(r)
                 PROVE  AloneCached(r)'
      BY <1>4
    <2>1. v.mode = "cold" => v.metrics = None /\ \A c \in Conditions : ~Passes(r, c)
      <3>1. v.mode = "cold" => \A c \in Conditions : ~Filled(v, c)
        BY <1>5 DEF Filled
      <3> QED BY <1>1, <1>2, <3>1, NoneIsNoPass DEF Phase, Passes
    <2>2. v.metrics # None => \A c \in Conditions : c \notin v.executed /\ Valid(c)' => cache'[c] = v.metrics[c]
      BY <1>1, <1>2, <1>3 DEF Own, AloneCached
    <2> QED BY <1>2, <1>3, <1>5, <2>1, <2>2 DEF AloneCached
  <1>9. Watched(r)'
    BY <1>1, <1>2, <1>5 DEF Own, Watched, Snapped
  <1>10. Verified(r)'
    BY DEF Verified
  <1>11. Told(r)'
    BY <1>1, <1>2 DEF Own, Told, Sequel
  <1> QED BY <1>6, <1>7, <1>8, <1>9, <1>10, <1>11

\* The same, for the steps that train nothing and change no entry.
LEMMA PoolKeeps ==
  ASSUME IInv, TInv', NEW r \in Runners, At(r, "execute"), run'[r].pc = "execute", Moves(r),
         Same(run[r], run'[r], {"pc", "queue", "training", "hits", "net"}),
         run[r].net => run'[r].net,
         UNCHANGED <<intact, cache, predictions, metrics, reports>>, trouble'.files = trouble.files,
         Training', Unharmed /\ Alone(r) => Solo(r)'
  PROVE  IInv'
  <1>1. Evolves(r)
    BY QuietEvolves DEF IInv, At, Ended
  <1>2. Same(run[r], run'[r], {"pc", "queue", "training", "hits", "executed", "net"})
    BY DEF Same
  <1>3. run'[r].executed = run[r].executed
    BY DEF Same, LocalFields
  <1>4. /\ Knows(r)' /\ Cached(r)' /\ (Alone(r)' => AloneCached(r)')
        /\ Watched(r)' /\ Verified(r)' /\ Told(r)'
    BY <1>1, <1>2, <1>3, PoolKnows DEF At, Valid
  <1>5. Unharmed' /\ Alone(r)' => Solo(r)'
    BY <1>1, OthersAlone DEF Unharmed, IInv
  <1> QED BY <1>1, <1>4, <1>5, SameFiles, SameColdReports, StepKeeps DEF Own

\* What a runner that is alone and undisturbed has in the pool.
LEMMA SoloPool ==
  ASSUME IInv, NEW r \in Runners, At(r, "execute"), Unharmed, Alone(r)
  PROVE  /\ Progress(r) /\ FirstPass(r) /\ SecondPass(r) /\ Papers(r)
         /\ \A c \in Conditions : Fresh2(run[r], c) = FALSE
         /\ run[r].plan \in Plans /\ task[run[r].plan] \in [Conditions -> Tasks]
  <1>1. Own(r) /\ Phase(run[r]) /\ FilesTyped
    BY DEF IInv, TInv
  <1>2. Progress(r) /\ FirstPass(r) /\ SecondPass(r) /\ Papers(r)
    BY <1>1 DEF Own, Solo, Past, At
  <1>3. run[r].plan \in Plans
    BY <1>1 DEF Phase, Working, At
  <1>4. task[run[r].plan] \in [Conditions -> Tasks]
    BY <1>1, <1>2, <1>3 DEF FilesTyped, Progress
  <1> QED BY <1>2, <1>3, <1>4 DEF Fresh2, At, Judging, Closing

LEMMA ScanKeeps ==
  ASSUME IInv, TInv', NEW r \in Runners, Scan(r)
  PROVE  IInv'
  <1> DEFINE u == run[r]
             v == run'[r]
  <1>1. Phase(u) /\ Phase(v) /\ Own(r) /\ FilesTyped
    BY DEF IInv, TInv
  <1>2. /\ u.pc = "scan" /\ UNCHANGED <<intact, predictions, metrics, reports, records, trouble>>
        /\ Turns(r, "execute", {"hits", "queue"})
    BY ScanMoves DEF IInv, TInv, At
  <1>3. PICK open : Opens(r, open)
    BY ScanMoves DEF IInv, TInv
  <1>4. /\ Moves(r) /\ v.pc = "execute" /\ v.plan = u.plan /\ v.mode = u.mode /\ v.runs = u.runs
        /\ v.executed = u.executed /\ v.training = u.training /\ v.net = u.net /\ v.metrics = u.metrics
        /\ v.split = u.split /\ v.existing = u.existing /\ v.before = u.before
        /\ v.coldRuns = u.coldRuns
        /\ Same(u, v, {"pc", "queue", "training", "hits", "executed", "net"})
    BY <1>2 DEF Turns, Same, LocalFields
  <1>5. /\ \A c \in Conditions : Valid(c) => cache'[c] = cache[c]
        /\ \A c \in Conditions : cache'[c] \in Payloads => cache'[c] = cache[c]
        /\ \A c \in Conditions : Valid(c)' = Valid(c)
    BY <1>3, NothingAssumption DEF Opens, Valid
  <1>6. Evolves(r)
    BY <1>2, <1>4, <1>5 DEF Evolves, Ended
  <1>7. /\ Knows(r)' /\ Cached(r)' /\ (Alone(r)' => AloneCached(r)')
        /\ Watched(r)' /\ Verified(r)' /\ Told(r)'
    BY <1>2, <1>4, <1>5, <1>6, PoolKnows
  <1>8. u.plan \in Plans /\ u.queue = {} /\ u.training = {}
    BY <1>1, <1>2 DEF Phase, Working
  <1>9. \A c \in Conditions : State(r, c)' = IF c \in open /\ Valid(c) THEN "COMPLETE"
                                             ELSE IF c \in open THEN "RUNNING"
                                             ELSE Known(u.plan)[c].state
    <2> DEFINE t == [c \in Conditions |-> IF c \in open /\ Valid(c) THEN Complete
                                          ELSE IF c \in open THEN Running(r) ELSE Known(u.plan)[c]]
    <2>1. task' = [task EXCEPT ![u.plan] = t]
      BY <1>3 DEF Opens, Me
    <2>2. task'[u.plan] = t
      BY <1>1, <1>8, <2>1 DEF FilesTyped
    <2> QED BY <1>4, <2>2, TaskFacts DEF State
  <1>10. /\ open \subseteq Conditions
         /\ \A c \in Conditions : Known(u.plan)[c].state \in {"PENDING", "COMPLETE"} => c \in open
         /\ \A c \in open : Known(u.plan)[c].state \in {"PENDING", "COMPLETE", "RUNNING"}
         /\ v.hits = {c \in open : Valid(c)} /\ v.queue = {c \in open : ~Valid(c)}
    BY <1>3 DEF Opens, Me
  <1>11. task'[v.plan] # None
    BY <1>4 DEF TInv, Begun
  <1>12. \A c \in Conditions : ~Fresh2(u, c) /\ ~Fresh2(v, c)
    BY <1>2, <1>4 DEF Fresh2, Judging, Closing
  <1>13. ASSUME Unharmed, Alone(r)
         PROVE  Solo(r)'
    <2>1. CASE u.mode = "cold"
      <3>1. Pristine
        BY <1>1, <1>2, <1>13, <2>1 DEF Own, Solo
      <3>2. \A c \in Conditions : ~Valid(c) /\ predictions[c].content = None /\ ~Passes(r, c)'
        <4>1. \A c \in Conditions : ~Filled(v, c)
          BY <1>4, <1>12, <2>1 DEF Filled
        <4>2. \A c \in Conditions : ~Passes(r, c)'
          BY <1>1, <4>1, NoneIsNoPass DEF Phase, Passes
        <4> QED BY <3>1, <4>2, NothingAssumption DEF Pristine, Valid
      <3>3. Known(u.plan) = [c \in Conditions |-> Waiting]
        BY <1>8, <3>1 DEF Known, Pristine
      <3>4. open = Conditions
        BY <1>10, <3>3, TaskFacts
      <3>5. v.queue = Conditions /\ v.hits = {} /\ v.metrics = None /\ metrics.content = None
        BY <1>1, <1>2, <1>4, <1>10, <2>1, <3>1, <3>2, <3>4 DEF Phase, Pristine
      <3>6. Progress(r)'
        BY <1>2, <1>4, <1>5, <1>8, <1>9, <1>11, <1>12, <2>1, <3>2, <3>4, <3>5 DEF Progress, Filled
      <3>7. FirstPass(r)' /\ SecondPass(r)'
        BY <1>4, <1>5, <2>1, <3>2, <3>5 DEF FirstPass, SecondPass
      <3>8. Papers(r)'
        BY <1>4, <2>1 DEF Papers, Sequel
      <3> QED BY <1>4, <3>6, <3>7, <3>8 DEF Solo, Early
    <2>2. CASE u.mode = "resume"
      <3>1. Progress(r) /\ SecondPass(r) /\ Papers(r)
        BY <1>1, <1>2, <1>13, <2>2 DEF Own, Solo, Past
      <3>2. \A c \in Conditions : /\ Valid(c) <=> Known(u.plan)[c].state = "COMPLETE"
                                  /\ Known(u.plan)[c].state \in {"COMPLETE", "FAILED"}
        BY <1>8, <3>1 DEF Progress, State, Known
      <3>3. \A c \in Conditions : c \in open <=> Valid(c)
        BY <1>10, <3>2
      <3>4. v.hits = {c \in Conditions : Valid(c)} /\ v.queue = {}
        BY <1>10, <3>3
      <3>5. \A c \in Conditions : State(r, c)' = Known(u.plan)[c].state
        BY <1>9, <3>2, <3>3
      <3>6. \A c \in Conditions : cache'[c] = cache[c] /\ Passes(r, c)' = Passes(r, c)
        BY <1>3, <1>4, <3>3 DEF Opens, Passes
      <3>7. Progress(r)'
        BY <1>2, <1>4, <1>5, <1>8, <1>11, <2>2, <3>1, <3>2, <3>4, <3>5, <3>6 DEF Progress, Filled
      <3>8. FirstPass(r)' /\ SecondPass(r)'
        BY <1>4, <1>5, <1>8, <1>12, <2>2, <3>1, <3>4 DEF FirstPass, SecondPass
      <3>9. Papers(r)'
        BY <1>2, <1>4, <2>2, <3>1 DEF Papers, Sequel, Outputs
      <3> QED BY <1>4, <3>7, <3>8, <3>9 DEF Solo, Early
    <2> QED BY <2>1, <2>2, RecordFacts DEF IInv, TInv, Modes
  <1>14. Own(r)'
    <2>1. Unharmed' /\ Alone(r)' => Unharmed /\ Alone(r)
      BY <1>2, <1>6, OthersAlone DEF Unharmed, IInv
    <2> QED BY <1>7, <1>13, <2>1 DEF Own
  <1>15. Training' /\ ColdReports'
    BY <1>2, <1>4, <1>5, SameTraining, SameColdReports
  <1>16. Files'
    BY <1>2, <1>5 DEF IInv, Files, Unharmed, Labels, Valid
  <1> QED BY <1>2, <1>6, <1>14, <1>15, <1>16, StepKeeps

\* A task that is set, and the others that are not.
LEMMA SetState ==
  ASSUME TInv, NEW r \in Runners, run[r].plan \in Plans, task[run[r].plan] \in [Conditions -> Tasks],
         NEW c \in Conditions, NEW t, task' = [task EXCEPT ![Me(r)][c] = t], run'[r].plan = run[r].plan
  PROVE  State(r, c)' = t.state /\ \A d \in Conditions : d # c => State(r, d)' = State(r, d)
  <1>1. task' = [task EXCEPT ![run[r].plan] = [task[run[r].plan] EXCEPT ![c] = t]]
    BY DEF Me
  <1>2. task'[run[r].plan] = [task[run[r].plan] EXCEPT ![c] = t]
    BY <1>1 DEF TInv, FilesTyped
  <1> QED BY <1>2 DEF State

LEMMA FindPublishedKeeps ==
  ASSUME IInv, TInv', NEW r \in Runners, NEW c \in Conditions, FindPublished(r, c)
  PROVE  IInv'
  <1>1. /\ At(r, "execute") /\ c \in run[r].queue /\ Valid(c)
        /\ UNCHANGED <<intact, cache, predictions, metrics, reports, records, trouble>>
        /\ Turns(r, "execute", {"queue", "hits"})
    BY FindPublishedMoves DEF IInv, TInv
  <1>2. /\ Moves(r) /\ run'[r].pc = "execute" /\ run'[r].training = run[r].training
        /\ run'[r].net = run[r].net
        /\ Same(run[r], run'[r], {"pc", "queue", "training", "hits", "net"})
    BY <1>1 DEF Turns, Same, LocalFields
  <1>3. Training'
    BY <1>1, <1>2, SameTraining
  <1>4. ~(Unharmed /\ Alone(r))
    BY <1>1, SoloPool DEF Progress
  <1> QED BY <1>1, <1>2, <1>3, <1>4, PoolKeeps

LEMMA LaunchKeeps ==
  ASSUME IInv, TInv', NEW r \in Runners, NEW c \in Conditions, Launch(r, c)
  PROVE  IInv'
  <1> DEFINE u == run[r]
             v == run'[r]
  <1>1. /\ At(r, "execute") /\ c \in u.queue /\ ~Valid(c)
        /\ \A q \in Runners : c \notin run[q].training \/ ~Alive(q)
        /\ UNCHANGED <<intact, cache, predictions, metrics, reports, records, trouble>>
        /\ v.queue = u.queue \ {c}
    BY LaunchMoves DEF IInv, TInv
  <1>2. CASE /\ ~WorkerInputsHold(c) /\ Turns(r, "execute", {"queue"})
    <2>1. /\ Moves(r) /\ v.pc = "execute" /\ v.training = u.training /\ v.net = u.net
          /\ Same(u, v, {"pc", "queue", "training", "hits", "net"})
      BY <1>2 DEF Turns, Same, LocalFields
    <2>2. Training'
      BY <1>1, <2>1, SameTraining
    <2>3. ~Unharmed
      BY <1>2, AllIntact
    <2> QED BY <1>1, <2>1, <2>2, <2>3, PoolKeeps
  <1>3. CASE /\ UNCHANGED task /\ Turns(r, "execute", {"queue", "training"})
             /\ v.training = u.training \cup {c}
    <2>1. /\ Moves(r) /\ v.pc = "execute" /\ v.net = u.net /\ v.plan = u.plan /\ v.mode = u.mode
          /\ v.runs = u.runs /\ v.metrics = u.metrics /\ v.hits = u.hits /\ v.executed = u.executed
          /\ v.existing = u.existing /\ v.before = u.before /\ v.split = u.split
          /\ v.coldRuns = u.coldRuns
          /\ Same(u, v, {"pc", "queue", "training", "hits", "net"})
      BY <1>3 DEF Turns, Same, LocalFields
    <2>2. \A q \in Runners : c \notin run[q].training
      <3>1. \A q \in Runners : ~Alive(q) => run[q].training = {}
        BY DEF IInv, TInv, Phase, Alive, Ended
      <3> QED BY <1>1, <3>1
    <2>3. \A q \in Runners : q # r => run'[q] = run[q]
      BY <2>1 DEF IInv, TInv, Moves
    <2>4. Training'
      BY <1>1, <1>3, <2>2, <2>3 DEF IInv, Training, Valid
    <2>5. ASSUME Unharmed, Alone(r)
          PROVE  Solo(r)'
      <3>1. /\ Progress(r) /\ FirstPass(r) /\ SecondPass(r) /\ Papers(r)
            /\ \A d \in Conditions : Fresh2(u, d) = FALSE
        BY <1>1, <2>5, SoloPool
      <3>2. u.mode # "resume"
        BY <1>1, <3>1 DEF SecondPass
      <3>3. \A d \in Conditions : /\ Passes(r, d)' = Passes(r, d) /\ State(r, d)' = State(r, d)
                                  /\ Valid(d)' = Valid(d) /\ ~Filled(v, d)
        BY <1>1, <1>3, <2>1, <3>2 DEF Passes, State, Valid, Filled, Fresh2, Judging, Closing
      <3>4. u.queue \subseteq Conditions
        BY DEF IInv, TInv, RunRecords
      <3>5. Progress(r)'
        BY <1>1, <1>3, <2>1, <2>2, <3>1, <3>3, <3>4 DEF Progress
      <3>6. FirstPass(r)' /\ SecondPass(r)' /\ Papers(r)'
        BY <1>1, <2>1, <3>1, <3>2 DEF FirstPass, SecondPass, Papers, Sequel, Valid
      <3> QED BY <2>1, <3>5, <3>6 DEF Solo, Early
    <2> QED BY <1>1, <2>1, <2>4, <2>5, PoolKeeps
  <1> QED BY <1>2, <1>3, LaunchMoves DEF IInv, TInv

LEMMA TrainPassesKeeps ==
  ASSUME IInv, TInv', NEW r \in Runners, NEW c \in Conditions, TrainPasses(r, c)
  PROVE  IInv'
  <1> DEFINE u == run[r]
             v == run'[r]
  <1>1. /\ At(r, "execute") /\ c \in u.training
        /\ UNCHANGED <<intact, predictions, metrics, reports, records>>
        /\ trouble'.files = trouble.files
        /\ task' = [task EXCEPT ![Me(r)][c] = Complete]
        /\ Turns(r, "execute", {"training", "executed"})
        /\ v.training = u.training \ {c} /\ v.executed = u.executed \cup {c}
    BY TrainPassesMoves DEF IInv, TInv
  <1>2. PICK net \in BOOLEAN : cache' = [cache EXCEPT ![c] = PredictionFrame(r, net)]
    BY TrainPassesMoves DEF IInv, TInv
  <1>3. /\ Moves(r) /\ v.pc = "execute" /\ v.net = u.net /\ v.plan = u.plan /\ v.mode = u.mode
        /\ v.runs = u.runs /\ v.metrics = u.metrics /\ v.hits = u.hits /\ v.queue = u.queue
        /\ v.existing = u.existing /\ v.before = u.before /\ v.split = u.split
        /\ v.coldRuns = u.coldRuns
        /\ Same(u, v, {"pc", "queue", "training", "hits", "executed", "net"})
    BY <1>1 DEF Turns, Same, LocalFields
  <1>4. /\ cache'[c] = PredictionFrame(r, net) /\ cache'[c] \in Payloads
        /\ \A d \in Conditions : d # c => cache'[d] = cache[d]
    BY <1>1, <1>2, FrameTyped DEF IInv, TInv, FilesTyped
  <1>5. /\ cache'[c].by = r /\ cache'[c].mode = u.mode /\ cache'[c].plan = u.plan
        /\ cache'[c].sound = Labels
    BY <1>4 DEF PredictionFrame, Me, TrainingTargets, Labels
  <1>6. ~Valid(c)
    BY <1>1 DEF IInv, Training
  <1>7. Valid(c)' /\ \A d \in Conditions : d # c => Valid(d)' = Valid(d)
    BY <1>4 DEF Valid
  <1>8. Evolves(r)
    BY <1>1, <1>3, <1>4, <1>6 DEF Evolves, At, Ended
  <1>9. /\ Knows(r)' /\ Cached(r)' /\ (Alone(r)' => AloneCached(r)')
        /\ Watched(r)' /\ Verified(r)' /\ Told(r)'
    BY <1>1, <1>3, <1>5, <1>7, <1>8, PoolKnows DEF At
  <1>10. ASSUME Unharmed, Alone(r)
         PROVE  Solo(r)'
    <2>1. /\ Progress(r) /\ FirstPass(r) /\ SecondPass(r) /\ Papers(r)
          /\ \A d \in Conditions : Fresh2(u, d) = FALSE
          /\ u.plan \in Plans /\ task[u.plan] \in [Conditions -> Tasks]
      BY <1>1, <1>10, SoloPool
    <2>2. u.mode # "resume"
      BY <1>1, <2>1 DEF SecondPass
    <2>3. State(r, c)' = "COMPLETE" /\ \A d \in Conditions : d # c => State(r, d)' = State(r, d)
      BY <1>1, <1>3, <2>1, SetState, TaskFacts DEF IInv
    <2>4. \A d \in Conditions : Passes(r, d)' = Passes(r, d) /\ ~Filled(v, d)
      BY <1>3, <2>2 DEF Passes, Filled, Fresh2, Judging, Closing
    <2>5. task'[v.plan] # None
      BY <1>3 DEF TInv, Begun
    <2>6. c \notin u.queue
      BY <1>1, <2>1 DEF Progress
    <2>7. u.queue \subseteq Conditions
      BY DEF IInv, TInv, RunRecords
    <2>8. Progress(r)'
      BY <1>1, <1>3, <1>4, <1>5, <1>7, <2>1, <2>3, <2>4, <2>5, <2>6, <2>7 DEF Progress
    <2>9. FirstPass(r)' /\ SecondPass(r)' /\ Papers(r)'
      BY <1>1, <1>3, <1>7, <2>1, <2>2 DEF FirstPass, SecondPass, Papers, Sequel
    <2> QED BY <1>3, <2>8, <2>9 DEF Solo, Early
  <1>11. Own(r)'
    <2>1. Unharmed' /\ Alone(r)' => Unharmed /\ Alone(r)
      BY <1>1, <1>8, OthersAlone DEF Unharmed, IInv
    <2> QED BY <1>9, <1>10, <2>1 DEF Own
  <1>12. Training'
    <2>1. \A q \in Runners : q # r => run'[q] = run[q] /\ c \notin run[q].training
      BY <1>1, <1>3 DEF IInv, TInv, Moves, Training
    <2>2. \A q \in Runners : run[q].training \subseteq Conditions
      BY DEF IInv, TInv, RunRecords
    <2> QED BY <1>1, <1>7, <2>1, <2>2 DEF IInv, Training
  <1>13. Files'
    BY <1>1, <1>4, <1>5, <1>6, <1>7 DEF IInv, Files, Unharmed, Labels
  <1> QED BY <1>1, <1>8, <1>11, <1>12, <1>13, SameColdReports, StepKeeps

LEMMA TrainFailsKeeps ==
  ASSUME IInv, TInv', NEW r \in Runners, NEW c \in Conditions, TrainFails(r, c)
  PROVE  IInv'
  <1> DEFINE u == run[r]
             v == run'[r]
  <1>1. /\ At(r, "execute") /\ c \in u.training
        /\ UNCHANGED <<intact, cache, predictions, metrics, reports, records>>
        /\ trouble'.files = trouble.files
        /\ Turns(r, "execute", {"training", "net"})
        /\ v.training = u.training \ {c} /\ (u.net => v.net)
    BY TrainFailsMoves DEF IInv, TInv
  <1>2. PICK g \in Categories : task' = [task EXCEPT ![Me(r)][c] = Failed(g)]
    BY TrainFailsMoves DEF IInv, TInv
  <1>3. /\ Moves(r) /\ v.pc = "execute" /\ v.plan = u.plan /\ v.mode = u.mode /\ v.runs = u.runs
        /\ v.metrics = u.metrics /\ v.hits = u.hits /\ v.executed = u.executed /\ v.queue = u.queue
        /\ v.existing = u.existing /\ v.before = u.before /\ v.split = u.split
        /\ v.coldRuns = u.coldRuns
        /\ Same(u, v, {"pc", "queue", "training", "hits", "net"})
    BY <1>1 DEF Turns, Same, LocalFields
  <1>4. Training'
    BY <1>1, <1>3, SameTraining
  <1>5. ~Valid(c)
    BY <1>1 DEF IInv, Training
  <1>6. ASSUME Unharmed, Alone(r)
        PROVE  Solo(r)'
    <2>1. /\ Progress(r) /\ FirstPass(r) /\ SecondPass(r) /\ Papers(r)
          /\ \A d \in Conditions : Fresh2(u, d) = FALSE
          /\ u.plan \in Plans /\ task[u.plan] \in [Conditions -> Tasks]
      BY <1>1, <1>6, SoloPool
    <2>2. u.mode # "resume"
      BY <1>1, <2>1 DEF SecondPass
    <2>3. State(r, c)' = "FAILED" /\ \A d \in Conditions : d # c => State(r, d)' = State(r, d)
      <3>1. Failed(g).state = "FAILED"
        BY TaskFacts
      <3> QED BY <1>2, <1>3, <2>1, <3>1, SetState DEF IInv
    <2>4. \A d \in Conditions : Passes(r, d)' = Passes(r, d) /\ ~Filled(v, d) /\ Valid(d)' = Valid(d)
      BY <1>1, <1>3, <2>2 DEF Passes, Filled, Fresh2, Judging, Closing, Valid
    <2>5. task'[v.plan] # None
      BY <1>3 DEF TInv, Begun
    <2>6. u.queue \subseteq Conditions
      BY DEF IInv, TInv, RunRecords
    <2>7. Progress(r)'
      BY <1>1, <1>3, <1>5, <2>1, <2>3, <2>4, <2>5, <2>6 DEF Progress
    <2>8. FirstPass(r)' /\ SecondPass(r)' /\ Papers(r)'
      BY <1>1, <1>3, <2>1, <2>2, <2>4 DEF FirstPass, SecondPass, Papers, Sequel
    <2> QED BY <1>3, <2>7, <2>8 DEF Solo, Early
  <1> QED BY <1>1, <1>3, <1>4, <1>6, PoolKeeps

LEMMA GatherKeeps ==
  ASSUME IInv, TInv', NEW r \in Runners, Gather(r)
  PROVE  IInv'
  <1> DEFINE u == run[r]
             v == run'[r]
  <1>1. At(r, "execute") /\ u.queue = {} /\ u.training = {} /\ Quiet /\ Phase(u) /\ Phase(v) /\ Own(r)
    BY GatherMoves DEF IInv, TInv
  <1>2. CASE /\ Halts(r, "raised") /\ u.mode = "resume"
             /\ Cardinality(u.existing) > Cardinality(u.hits)
    <2>1. ASSUME Unharmed, Alone(r)
          PROVE  FALSE
      <3>1. u.existing = u.hits
        BY <1>1, <1>2, <2>1, SoloPool DEF SecondPass, At
      <3>2. Cardinality(u.hits) \in Nat
        <4>1. u.hits \subseteq Conditions
          BY DEF IInv, TInv, RunRecords
        <4> QED BY <4>1, SmokeAssumption, FS_Subset, FS_CardinalityType
      <3> QED BY <1>2, <3>1, <3>2
    <2> QED BY <1>1, <1>2, <2>1, RaiseKeeps DEF At, Ended
  <1>3. CASE /\ Turns(r, "collect", {"seen", "left"})
             /\ v.seen = task[Me(r)] /\ v.left = Conditions
    <2>1. /\ Moves(r) /\ v.pc = "collect" /\ v.plan = u.plan /\ v.mode = u.mode /\ v.runs = u.runs
          /\ v.metrics = u.metrics /\ v.hits = u.hits /\ v.executed = u.executed /\ v.queue = u.queue
          /\ v.existing = u.existing /\ v.before = u.before /\ v.split = u.split
          /\ v.coldRuns = u.coldRuns /\ v.training = u.training /\ v.net = u.net
          /\ v.coldStatus = u.coldStatus
      BY <1>3 DEF Turns, Same, LocalFields
    <2>2. Evolves(r)
      BY <1>1, <2>1, QuietEvolves DEF IInv, Quiet, At, Ended
    <2>3. \A c \in Conditions : ~Fresh2(u, c) /\ ~Fresh2(v, c)
      BY <1>1, <1>3, <2>1 DEF Fresh2, At, Judging, Closing
    <2>4. /\ Unharmed' = Unharmed /\ Labels' = Labels
          /\ \A c \in Conditions : /\ Passes(r, c)' = Passes(r, c) /\ Valid(c)' = Valid(c)
                                   /\ State(r, c)' = State(r, c)
      BY <1>1, <2>1 DEF Quiet, Unharmed, Labels, Passes, Valid, State
    <2>5. Alone(r)' <=> Alone(r)
      BY <2>2, OthersAlone DEF IInv
    <2>6. Knows(r)'
      BY <1>1, <2>1, <2>3, <2>4 DEF Own, Knows
    <2>7. Cached(r)' /\ (Alone(r)' => AloneCached(r)')
      <3>1. Cached(r)'
        BY <1>1, <2>1, SameCached DEF SameOutcome, Quiet
      <3>2. ASSUME Alone(r)
            PROVE  AloneCached(r)'
        BY <1>1, <2>1, <2>3, <3>2, SameAloneCached DEF Own, SameOutcome, Quiet
      <3> QED BY <2>5, <3>1, <3>2
    <2>8. Watched(r)' /\ Verified(r)' /\ Told(r)'
      BY <1>1, <2>1, <2>3 DEF Own, Watched, Snapped, Verified, Told, Sequel, Quiet, At
    <2>9. ASSUME Unharmed, Alone(r)
          PROVE  Solo(r)'
      <3>1. Progress(r) /\ FirstPass(r) /\ SecondPass(r) /\ Papers(r)
        BY <1>1, <2>9, SoloPool
      <3>2. Progress(r)'
        BY <1>1, <1>3, <2>1, <2>3, <2>4, <3>1 DEF Progress, Quiet, Filled, Me
      <3>3. FirstPass(r)' /\ SecondPass(r)' /\ Papers(r)'
        BY <1>1, <2>1, <2>3, <2>4, <3>1
        DEF FirstPass, SecondPass, Papers, Sequel, Quiet, Outputs, At
      <3> QED BY <2>1, <3>2, <3>3 DEF Solo, Early
    <2>10. Own(r)'
      BY <2>4, <2>5, <2>6, <2>7, <2>8, <2>9 DEF Own
    <2> QED BY <1>1, <2>1, <2>2, <2>10, SameTraining, SameFiles, SameColdReports, StepKeeps DEF Quiet
  <1> QED BY <1>2, <1>3, GatherMoves DEF IInv, TInv

\* What a collected condition changes of the runner's record.
LEMMA CollectedFields ==
  ASSUME TInv, NEW r \in Runners, NEW c \in Conditions, NEW x, Collecting(r, c), Collects(r, c, x)
  PROVE  /\ Moves(r) /\ run[r].pc = "collect"
         /\ run'[r].pc = IF run[r].left # {c} THEN "collect"
                         ELSE IF run[r].mode = "cold" THEN "split" ELSE "verify"
         /\ run'[r].runs[c] = x /\ \A d \in Conditions : d # c => run'[r].runs[d] = run[r].runs[d]
         /\ run'[r].net = (run[r].net \/ (x.status = "PASS" /\ x.payload.net))
         /\ run'[r].plan = run[r].plan /\ run'[r].mode = run[r].mode
         /\ run'[r].existing = run[r].existing /\ run'[r].hits = run[r].hits
         /\ run'[r].executed = run[r].executed /\ run'[r].queue = run[r].queue
         /\ run'[r].training = run[r].training /\ run'[r].seen = run[r].seen
         /\ run'[r].split = run[r].split /\ run'[r].metrics = run[r].metrics
         /\ run'[r].coldStatus = run[r].coldStatus /\ run'[r].coldRuns = run[r].coldRuns
         /\ run'[r].before = run[r].before
         /\ Fresh2(run'[r], c)
         /\ \A d \in Conditions : d # c => (Fresh2(run'[r], d) <=> Fresh2(run[r], d))
  <1> DEFINE u == run[r]
             v == run'[r]
  <1>1. /\ u.pc = "collect" /\ c \in u.left /\ u.runs \in [Conditions -> ConditionRuns \cup {None}]
    BY DEF Collecting, At, TInv, RunRecords
  <1>2. /\ Moves(r) /\ v.left = u.left \ {c}
        /\ v.pc = IF u.left # {c} THEN "collect" ELSE IF u.mode = "cold" THEN "split" ELSE "verify"
        /\ v.net = (u.net \/ (x.status = "PASS" /\ x.payload.net))
    BY DEF Collects, Turns
  <1>3. v.runs[c] = x /\ \A d \in Conditions : d # c => v.runs[d] = u.runs[d]
    BY <1>1 DEF Collects
  <1>4. /\ v.plan = u.plan /\ v.mode = u.mode /\ v.existing = u.existing /\ v.hits = u.hits
        /\ v.executed = u.executed /\ v.queue = u.queue /\ v.training = u.training /\ v.seen = u.seen
        /\ v.split = u.split /\ v.metrics = u.metrics /\ v.coldStatus = u.coldStatus
        /\ v.coldRuns = u.coldRuns /\ v.before = u.before
    BY DEF Collects, Turns, Same, LocalFields
  <1>5. Fresh2(v, c) /\ \A d \in Conditions : d # c => (Fresh2(v, d) <=> Fresh2(u, d))
    BY <1>1, <1>2 DEF Fresh2, Judging, Closing
  <1> QED BY <1>1, <1>2, <1>3, <1>4, <1>5

\* A pass is backed by the entry and its file; alone, every valid entry passes.
LEMMA CollectKeeps ==
  ASSUME IInv, TInv', NEW r \in Runners, NEW c \in Conditions, Collecting(r, c),
         NEW x \in ConditionRuns, Collects(r, c, x),
         UNCHANGED <<intact, cache, task, metrics, reports, records, trouble>>,
         \A d \in Conditions : d # c => predictions'[d] = predictions[d],
         predictions'[c] = predictions[c] \/ predictions'[c].stamp = predictions[c].stamp + 1,
         predictions' = predictions \/ (IsPass(x) /\ predictions[c].content # cache[c]),
         IsPass(x) => /\ Valid(c) /\ x.payload = cache[c] /\ cache[c].plan = run[r].plan
                      /\ predictions'[c].content = cache[c] /\ x.hit = (c \in run[r].existing),
         Unharmed /\ Alone(r) /\ Progress(r) /\ Valid(c) => IsPass(x)
  PROVE  IInv'
  <1> DEFINE u == run[r]
             v == run'[r]
  <1>1. Phase(u) /\ Phase(v) /\ Own(r)
    BY DEF IInv, TInv
  <1>2. /\ Moves(r) /\ u.pc = "collect" /\ v.pc \in {"collect", "split", "verify"}
        /\ v.pc = "split" => u.mode = "cold"
        /\ v.runs[c] = x /\ \A d \in Conditions : d # c => v.runs[d] = u.runs[d]
        /\ v.net = (u.net \/ (x.status = "PASS" /\ x.payload.net))
        /\ v.plan = u.plan /\ v.mode = u.mode /\ v.existing = u.existing /\ v.hits = u.hits
        /\ v.executed = u.executed /\ v.queue = u.queue /\ v.training = u.training /\ v.seen = u.seen
        /\ v.split = u.split /\ v.metrics = u.metrics /\ v.coldStatus = u.coldStatus
        /\ v.coldRuns = u.coldRuns /\ v.before = u.before
    BY CollectedFields DEF IInv
  <1>3. Fresh2(v, c) /\ \A d \in Conditions : d # c => (Fresh2(v, d) <=> Fresh2(u, d))
    BY CollectedFields DEF IInv
  <1>4. /\ Unharmed' = Unharmed /\ Labels' = Labels
        /\ \A d \in Conditions : /\ Valid(d)' = Valid(d) /\ State(r, d)' = State(r, d)
                                 /\ d # c => Passes(r, d)' = Passes(r, d)
        /\ Passes(r, c)' = IsPass(x)
    BY <1>2 DEF Unharmed, Labels, Passes, Valid, State
  <1>5. Evolves(r)
    BY <1>2 DEF Evolves, Ended
  <1>6. Alone(r)' <=> Alone(r)
    BY <1>5, OthersAlone DEF IInv
  <1>7. IsPass(x) => x.status = "PASS" /\ cache[c] \in Payloads
    BY DEF IsPass, Valid
  <1>8. Knows(r)'
    <2>1. \A d \in Conditions : Passes(r, d)' => v.runs[d].payload.plan = v.plan
      BY <1>1, <1>2, <1>4 DEF Own, Knows
    <2>2. \A d \in Conditions : Passes(r, d)' /\ Fresh2(v, d) /\ v.runs[d].payload.net => v.net
      BY <1>1, <1>2, <1>3, <1>4, <1>7 DEF Own, Knows
    <2>3. \A d \in Conditions : Passes(r, d)' /\ ~v.runs[d].payload.sound => ~Labels
      BY <1>1, <1>2, <1>4, <1>7 DEF Own, Knows, IInv, Files
    <2> QED BY <1>2, <1>4, <2>1, <2>2, <2>3 DEF Knows
  <1>9. Cached(r)'
    <2> SUFFICES ASSUME Unharmed
                 PROVE  Cached(r)'
      BY <1>4 DEF Cached
    <2>1. /\ \A d \in Conditions : Passes(r, d) => Valid(d) /\ u.runs[d].payload = cache[d]
          /\ u.metrics # None => /\ \A d \in Conditions : Valid(d)
                                 /\ u.metrics = [d \in Conditions |-> cache[d]]
          /\ \A d \in u.executed : u.mode = "cold" => Valid(d) /\ cache[d].by = r /\ cache[d].mode = "cold"
      BY <1>1 DEF Own, Cached
    <2>2. \A d \in Conditions : Passes(r, d)' => Valid(d)' /\ v.runs[d].payload = cache[d]
      BY <1>2, <1>4, <2>1
    <2>3. u.executed \subseteq Conditions
      BY DEF IInv, TInv, RunRecords
    <2> QED BY <1>2, <1>4, <2>1, <2>2, <2>3 DEF Cached
  <1>10. ASSUME Alone(r)
         PROVE  AloneCached(r)'
    <2>1. AloneCached(r)
      BY <1>1, <1>10 DEF Own
    <2>2. \A d \in Conditions : Passes(r, d)' /\ v.mode = "cold" /\ Valid(d) => cache[d] = v.runs[d].payload
      BY <1>2, <1>4, <2>1 DEF AloneCached
    <2>3. v.mode = "cold" => v.metrics = None
      BY <1>1, <1>2 DEF Phase
    <2>4. v.metrics # None => \A d \in Conditions : d \notin v.executed =>
            /\ Valid(d) => cache[d] = v.metrics[d]
            /\ Fresh2(v, d) /\ Passes(r, d)' => v.runs[d].payload = v.metrics[d]
      <3>1. v.metrics # None => \A d \in Conditions : d \notin v.executed =>
              /\ Valid(d) => cache[d] = v.metrics[d]
              /\ Fresh2(u, d) /\ Passes(r, d) => u.runs[d].payload = v.metrics[d]
        BY <1>1, <1>2, <2>1, <2>3, RecordFacts DEF AloneCached, IInv, TInv, Modes
      <3> QED BY <1>2, <1>3, <1>4, <3>1
    <2> QED BY <1>4, <2>2, <2>3, <2>4 DEF AloneCached
  <1>11. Watched(r)'
    <2> SUFFICES ASSUME u.mode = "resume", NEW d \in Conditions
                 PROVE  /\ u.before.files[d].stamp <= predictions'[d].stamp
                        /\ /\ Fresh2(v, d) /\ Passes(r, d)'
                           /\ u.before.files[d].stamp = predictions'[d].stamp
                           => predictions'[d].content = v.runs[d].payload
      BY <1>2 DEF Watched, Snapped
    <2>1. /\ u.before.files[d].stamp <= predictions[d].stamp
          /\ /\ Fresh2(u, d) /\ Passes(r, d)
             /\ u.before.files[d].stamp = predictions[d].stamp
             => predictions[d].content = u.runs[d].payload
      BY <1>1, <1>2 DEF Own, Watched, Snapped
    <2>2. u.before.files[d].stamp \in Nat /\ predictions[d].stamp \in Nat
      BY Stamps DEF IInv
    <2> QED BY <1>2, <1>3, <1>4, <2>1, <2>2
  <1>12. Verified(r)' /\ Told(r)'
    BY <1>1, <1>2 DEF Own, Verified, Told, Sequel
  <1>13. ASSUME Unharmed, Alone(r)
         PROVE  Solo(r)'
    <2>1. Progress(r) /\ FirstPass(r) /\ SecondPass(r) /\ Papers(r)
      BY <1>1, <1>2, <1>13 DEF Own, Solo, Past
    <2>2. Passes(r, c)' <=> Valid(c)
      BY <1>4, <1>13, <2>1
    <2>3. \A d \in Conditions : Passes(r, d)' => predictions'[d].content = v.runs[d].payload
      BY <1>2, <1>4, <2>1 DEF Progress
    <2>4. \A d \in Conditions : Filled(v, d) => (Passes(r, d)' <=> Valid(d))
      BY <1>2, <1>3, <1>4, <2>1, <2>2 DEF Progress, Filled
    <2>5. /\ \A d \in Conditions : d \in u.queue => Valid(d)' = Valid(d)
          /\ u.queue \subseteq Conditions /\ u.queue = {} /\ u.training = {}
      BY <1>1, <1>2, <1>4 DEF IInv, TInv, RunRecords, Phase
    <2>6. Progress(r)'
      BY <1>2, <1>4, <2>1, <2>3, <2>4, <2>5 DEF Progress
    <2>7. FirstPass(r)'
      BY <1>2, <1>4, <2>1 DEF FirstPass
    <2>8. SecondPass(r)'
      <3>1. v.mode = "resume" =>
              /\ v.executed = {} /\ v.queue = {} /\ v.training = {}
              /\ v.existing = {d \in Conditions : Valid(d)} /\ v.hits = {d \in Conditions : Valid(d)}
              /\ \A d \in Conditions : Fresh2(u, d) /\ Passes(r, d) => u.runs[d].hit
        BY <1>2, <2>1 DEF SecondPass
      <3>2. v.mode = "resume" => \A d \in Conditions : Fresh2(v, d) /\ Passes(r, d)' => v.runs[d].hit
        BY <1>2, <1>3, <1>4, <3>1
      <3> QED BY <1>2, <1>4, <3>1, <3>2 DEF SecondPass
    <2>9. u.mode = "resume" => predictions' = predictions
      <3>1. u.mode = "resume" /\ IsPass(x) => predictions[c].content = cache[c]
        <4>1. u.mode = "resume" /\ Valid(c) => Passes(r, c) /\ predictions[c].content = u.runs[c].payload
          BY <2>1 DEF Progress, Filled
        <4>2. Passes(r, c) => u.runs[c].payload = cache[c]
          BY <1>1, <1>13 DEF Own, Cached
        <4> QED BY <4>1, <4>2
      <3> QED BY <3>1
    <2>10. Papers(r)'
      BY <1>2, <2>1, <2>9 DEF Papers, Sequel, Outputs
    <2> QED BY <1>2, <2>6, <2>7, <2>8, <2>10 DEF Solo, Early
  <1>14. Own(r)'
    BY <1>4, <1>6, <1>8, <1>9, <1>10, <1>11, <1>12, <1>13 DEF Own
  <1> QED BY <1>2, <1>5, <1>14, SameTraining, SameFiles, SameColdReports, StepKeeps

LEMMA CollectFailureKeeps ==
  ASSUME IInv, TInv', NEW r \in Runners, NEW c \in Conditions, CollectFailure(r, c)
  PROVE  IInv'
  <1>1. /\ Collecting(r, c) /\ Quiet /\ run[r].seen[c].state # "COMPLETE"
        /\ Collects(r, c, Unpassed(CategoryOf(run[r].seen[c])))
    BY CollectFailureMoves DEF IInv, TInv
  <1>2. run[r].seen[c] \in Tasks
    BY <1>1 DEF IInv, TInv, Phase, Collecting, At
  <1>3. /\ Unpassed(CategoryOf(run[r].seen[c])) \in ConditionRuns
        /\ ~IsPass(Unpassed(CategoryOf(run[r].seen[c])))
    BY <1>2, CategoryFacts, UnpassedFacts
  <1>4. Progress(r) => ~Valid(c)
    BY <1>1 DEF Progress, State, Collecting, At
  <1> QED BY <1>1, <1>3, <1>4, CollectKeeps DEF Quiet

LEMMA CollectPredictionsKeeps ==
  ASSUME IInv, TInv', NEW r \in Runners, NEW c \in Conditions, CollectPredictions(r, c)
  PROVE  IInv'
  <1> DEFINE h == c \in run[r].existing
             x == Passed(cache[c], h)
  <1>1. /\ Collecting(r, c) /\ UNCHANGED <<intact, cache, task, metrics, reports, records, trouble>>
        /\ Valid(c) /\ cache[c].plan = run[r].plan /\ Collects(r, c, x)
        /\ predictions' = IF predictions[c].content = cache[c] THEN predictions
                          ELSE [predictions EXCEPT ![c] = Rewritten(@, cache[c])]
    BY CollectPredictionsMoves DEF IInv, TInv, Me
  <1>2. h \in BOOLEAN /\ cache[c] \in Payloads
    BY <1>1 DEF Valid
  <1>3. x \in ConditionRuns /\ IsPass(x) /\ x.payload = cache[c] /\ x.hit = h
    <2> HIDE DEF h
    <2> QED BY <1>2, PassedFacts DEF IsPass
  <1>4. /\ predictions'[c].content = cache[c]
        /\ \A d \in Conditions : d # c => predictions'[d] = predictions[d]
        /\ predictions'[c] = predictions[c] \/ predictions'[c].stamp = predictions[c].stamp + 1
    BY <1>1, WritePredictionsTypes DEF IInv, TInv
  <1>5. predictions' = predictions \/ predictions[c].content # cache[c]
    BY <1>1
  <1> HIDE DEF x
  <1> QED BY <1>1, <1>3, <1>4, <1>5, CollectKeeps

LEMMA CollectRaisesKeeps ==
  ASSUME IInv, TInv', NEW r \in Runners, NEW c \in Conditions, CollectRaises(r, c)
  PROVE  IInv'
  <1>1. /\ Collecting(r, c) /\ Quiet /\ Halts(r, "raised")
        /\ run[r].seen[c].state = "COMPLETE" /\ (Valid(c) => cache[c].plan # run[r].plan)
    BY CollectRaisesMoves DEF IInv, TInv, Me
  <1>2. run[r].pc = "collect"
    BY <1>1 DEF Collecting, At
  <1>3. Unharmed /\ Alone(r) => Progress(r)
    BY <1>2 DEF IInv, Own, Solo, Past
  <1>4. ~(Unharmed /\ Alone(r))
    BY <1>1, <1>2, <1>3 DEF Progress, State
  <1> QED BY <1>1, <1>2, <1>4, RaiseKeeps DEF Ended

\* A runner past a pass judges what it collected: split, metrics, comparison,
\* report, snapshot or verification.
Judges(r) ==
  /\ Moves(r) /\ run[r].pc \in Judging \cup Closing /\ run'[r].pc \in Judging \cup Closing
  /\ run'[r].plan = run[r].plan /\ run'[r].mode = run[r].mode /\ run'[r].existing = run[r].existing
  /\ run'[r].hits = run[r].hits /\ run'[r].executed = run[r].executed /\ run'[r].queue = run[r].queue
  /\ run'[r].training = run[r].training /\ run'[r].net = run[r].net /\ run'[r].runs = run[r].runs
  /\ UNCHANGED <<intact, cache, task, predictions, trouble>>

LEMMA TurnsJudges ==
  ASSUME NEW r \in Runners, NEW pc \in Judging \cup Closing, run[r].pc \in Judging \cup Closing,
         NEW F \in SUBSET {"split", "metrics", "unchanged", "coldStatus", "coldRuns", "before",
                           "verification"},
         Turns(r, pc, F), UNCHANGED <<intact, cache, task, predictions, trouble>>
  PROVE  Judges(r) /\ run'[r].pc = pc
  BY DEF Turns, Same, LocalFields, Judges

LEMMA JudgesFacts ==
  ASSUME IInv, NEW r \in Runners, Judges(r),
         \A p \in Plans : \/ reports'[p].cold = reports[p].cold
                          \/ reports'[p].cold # None /\ reports'[p].cold.by = r
  PROVE  /\ Evolves(r) /\ Unharmed' = Unharmed /\ Labels' = Labels /\ (Alone(r)' <=> Alone(r))
         /\ \A c \in Conditions : /\ Passes(r, c)' = Passes(r, c) /\ Valid(c)' = Valid(c)
                                  /\ Fresh2(run[r], c) /\ Fresh2(run'[r], c)
  <1>1. Evolves(r)
    BY DEF Judges, Evolves, Judging, Closing, Ended
  <1>2. Alone(r)' <=> Alone(r)
    BY <1>1, OthersAlone DEF IInv
  <1> QED BY <1>1, <1>2 DEF Judges, Unharmed, Labels, Passes, Valid, Fresh2, Outputs

LEMMA JudgesSolo ==
  ASSUME IInv, TInv', NEW r \in Runners, Judges(r), Unharmed, Alone(r),
         metrics'.content = run'[r].metrics, Papers(r)'
  PROVE  Solo(r)'
  <1> DEFINE u == run[r]
             v == run'[r]
  <1>1. Progress(r) /\ FirstPass(r) /\ SecondPass(r)
    BY DEF Judges, IInv, Own, Solo, Past
  <1>2. \A c \in Conditions : /\ Passes(r, c)' = Passes(r, c) /\ Valid(c)' = Valid(c)
                              /\ State(r, c)' = State(r, c)
                              /\ Fresh2(u, c) /\ Fresh2(v, c) /\ Filled(u, c)
    BY DEF Judges, Passes, Valid, Fresh2, Filled, State
  <1>3. u.queue \subseteq Conditions /\ v.pc \in Judging \cup Closing
    BY DEF IInv, TInv, RunRecords, Judges
  <1>4. v.pc # "collect" /\ u.pc # "scan" /\ v.pc # "raised" /\ v.pc \notin Early /\ v.pc # "scan"
    BY DEF Judges, Judging, Closing, Early
  <1>5. Progress(r)'
    BY <1>1, <1>2, <1>3, <1>4 DEF Progress, Judges
  <1>6. FirstPass(r)' /\ SecondPass(r)'
    BY <1>1, <1>2, <1>4 DEF FirstPass, SecondPass, Judges
  <1> QED BY <1>4, <1>5, <1>6 DEF Solo

LEMMA ValidateSplitKeeps ==
  ASSUME IInv, TInv', NEW r \in Runners, ValidateSplit(r)
  PROVE  IInv'
  <1> DEFINE u == run[r]
             v == run'[r]
  <1>1. Phase(u) /\ Own(r)
    BY DEF IInv, TInv
  <1>2. /\ u.pc = "split" /\ UNCHANGED <<intact, cache, task, predictions, metrics, reports, trouble>>
        /\ Turns(r, "evaluate", {"split"}) /\ records' = [records EXCEPT !.split = v.split]
    BY ValidateSplitMoves DEF IInv, TInv, At
  <1>3. Judges(r) /\ v.pc = "evaluate"
    BY <1>2, TurnsJudges DEF Judging
  <1>4. /\ v.metrics = u.metrics /\ v.unchanged = u.unchanged /\ v.coldStatus = u.coldStatus
        /\ v.coldRuns = u.coldRuns /\ v.before = u.before /\ v.verification = u.verification
    BY <1>2 DEF Turns, Same, LocalFields
  <1>5. /\ Evolves(r) /\ Unharmed' = Unharmed /\ Labels' = Labels /\ (Alone(r)' <=> Alone(r))
        /\ \A c \in Conditions : /\ Passes(r, c)' = Passes(r, c) /\ Valid(c)' = Valid(c)
                                 /\ Fresh2(u, c) /\ Fresh2(v, c)
    BY <1>2, <1>3, JudgesFacts
  <1>6. u.mode = "cold" /\ v.mode = "cold"
    BY <1>1, <1>2, <1>3 DEF Phase, Judging, Judges
  <1>7. Knows(r)'
    BY <1>1, <1>3, <1>5 DEF Own, Knows, Judges
  <1>8. Cached(r)' /\ (Alone(r)' => AloneCached(r)')
    BY <1>1, <1>2, <1>3, <1>4, <1>5, SameCached, SameAloneCached DEF SameOutcome, Judges, Own
  <1>9. Watched(r)' /\ Verified(r)' /\ Told(r)'
    BY <1>3, <1>6 DEF Watched, Snapped, Verified, Told, Sequel
  <1>10. Unharmed' /\ Alone(r)' => Solo(r)'
    <2> SUFFICES ASSUME Unharmed, Alone(r)
                 PROVE  Solo(r)'
      BY <1>5
    <2>1. Progress(r)
      BY <1>1, <1>2 DEF Own, Solo, Past, Judging
    <2>2. metrics'.content = v.metrics
      BY <1>2, <1>4, <2>1 DEF Progress
    <2>3. records'.split = v.split
      BY <1>2 DEF IInv, TInv, FilesTyped
    <2>4. Papers(r)'
      BY <1>3, <1>6, <2>3 DEF Papers, Sequel
    <2> QED BY <1>3, <2>2, <2>4, JudgesSolo
  <1>11. Own(r)'
    BY <1>7, <1>8, <1>9, <1>10 DEF Own
  <1>12. Training' /\ Files' /\ ColdReports'
    BY <1>2, <1>3, SameTraining, SameFiles, SameColdReports DEF Judges
  <1> QED BY <1>2, <1>5, <1>11, <1>12, StepKeeps

\* Labels are opened for a runner that found every prediction where it put it.
LEMMA EvaluateKeeps ==
  ASSUME IInv, TInv', NEW r \in Runners, Evaluate(r)
  PROVE  IInv'
  <1> DEFINE u == run[r]
             v == run'[r]
  <1>1. Phase(u) /\ Own(r)
    BY DEF IInv, TInv
  <1>2. u.pc = "evaluate" /\ UNCHANGED <<intact, cache, task, predictions, reports, records, trouble>>
    BY EvaluateMoves DEF IInv, TInv, At
  <1>3. u.mode = "cold" /\ u.metrics = None
    BY <1>1, <1>2 DEF Phase, Judging
  <1>4. u.runs \in [Conditions -> ConditionRuns]
    BY <1>1, <1>2 DEF Phase, Filled, Fresh2, Judging, IInv, TInv, RunRecords
  <1>5. AllPass(u.runs) <=> \A c \in Conditions : Passes(r, c)
    BY <1>4, ConditionRunFacts DEF AllPass, Passes
  <1>6. Unharmed /\ Alone(r) => Progress(r) /\ Papers(r)
    BY <1>1, <1>2 DEF Own, Solo, Past, Judging
  <1>7. CASE AllPass(u.runs) /\ ~MayOpenLabels(r) /\ Halts(r, "raised") /\ UNCHANGED metrics
    <2>1. Unharmed /\ Alone(r) => \A c \in Conditions : predictions[c].content = u.runs[c].payload
      BY <1>5, <1>6, <1>7 DEF Progress
    <2>2. ~(Unharmed /\ Alone(r))
      BY <1>7, <2>1, AllIntact DEF MayOpenLabels
    <2> QED BY <1>2, <1>7, <2>2, RaiseKeeps DEF Quiet, Ended
  <1>8. CASE Turns(r, "compare", {}) \/ Turns(r, "compare", {"metrics"})
    <2>1. Judges(r) /\ v.pc = "compare" /\ v.mode = "cold"
      BY <1>2, <1>3, <1>8, TurnsJudges DEF Judging, Judges
    <2>2. v.split = u.split
      BY <1>8 DEF Turns, Same, LocalFields
    <2>3. /\ Evolves(r) /\ Unharmed' = Unharmed /\ Labels' = Labels /\ (Alone(r)' <=> Alone(r))
          /\ \A c \in Conditions : /\ Passes(r, c)' = Passes(r, c) /\ Valid(c)' = Valid(c)
                                   /\ Fresh2(u, c) /\ Fresh2(v, c)
      BY <1>2, <2>1, JudgesFacts
    <2>4. \/ /\ v.metrics = None /\ UNCHANGED metrics
             /\ ~(AllPass(u.runs) /\ u.split = "PASS")
          \/ /\ AllPass(u.runs) /\ MayOpenLabels(r)
             /\ v.metrics = PredictionTable /\ metrics'.content = PredictionTable
      <3>1. Turns(r, "compare", {}) => v.metrics = u.metrics
        BY DEF Turns, Same, LocalFields
      <3>2. metrics' = Rewritten(metrics, PredictionTable) => metrics'.content = PredictionTable
        BY DEF Rewritten
      <3>3. ~Halts(r, "raised")
        BY <2>1 DEF Halts, EndsAs
      <3> QED BY <1>3, <3>1, <3>2, <3>3, EvaluateMoves DEF IInv, TInv
    <2>5. v.metrics # None => /\ \A c \in Conditions : Passes(r, c)
                              /\ v.metrics = [c \in Conditions |-> u.runs[c].payload]
      <3>1. AllPass(u.runs) /\ MayOpenLabels(r) =>
              PredictionTable = [c \in Conditions |-> u.runs[c].payload]
        BY DEF MayOpenLabels, PredictionTable
      <3> QED BY <1>5, <2>4, <3>1
    <2>6. Knows(r)'
      <3>1. AllPass(v.runs) /\ v.split = "PASS" => v.metrics # None
        BY <2>1, <2>2, <2>4, OutputsTyped DEF Judges, IInv, TInv
      <3> QED BY <1>1, <2>1, <2>3, <3>1 DEF Own, Knows, Judges
    <2>7. Unharmed => \A c \in Conditions : Passes(r, c) => Valid(c) /\ u.runs[c].payload = cache[c]
      BY <1>1 DEF Own, Cached
    <2>8. Cached(r)'
      <3>1. Unharmed /\ v.metrics # None => /\ \A c \in Conditions : Valid(c)
                                            /\ v.metrics = [c \in Conditions |-> cache[c]]
        BY <2>5, <2>7
      <3>2. u.executed \subseteq Conditions
        BY DEF IInv, TInv, RunRecords
      <3>3. Unharmed => \A c \in u.executed : Valid(c) /\ cache[c].by = r /\ cache[c].mode = "cold"
        BY <1>1, <1>3 DEF Own, Cached
      <3> QED BY <2>1, <2>3, <2>7, <3>1, <3>2, <3>3 DEF Cached, Judges
    <2>9. Alone(r)' => AloneCached(r)'
      <3> SUFFICES ASSUME Alone(r)
                   PROVE  AloneCached(r)'
        BY <2>3
      <3>1. \A c \in Conditions : Passes(r, c) /\ Valid(c) => cache[c] = u.runs[c].payload
        BY <1>1, <1>3 DEF Own, AloneCached
      <3>2. v.metrics # None => \A c \in Conditions : Valid(c) => cache[c] = v.metrics[c]
        BY <2>5, <3>1
      <3> QED BY <2>1, <2>3, <3>1, <3>2 DEF AloneCached, Judges
    <2>10. Watched(r)' /\ Verified(r)' /\ Told(r)'
      BY <2>1 DEF Watched, Snapped, Verified, Told, Sequel
    <2>11. Unharmed' /\ Alone(r)' => Solo(r)'
      <3> SUFFICES ASSUME Unharmed, Alone(r)
                   PROVE  Solo(r)'
        BY <2>3
      <3>1. metrics'.content = v.metrics
        BY <1>3, <1>6, <2>4 DEF Progress
      <3>2. Papers(r)'
        BY <1>2, <1>6, <2>1, <2>2 DEF Papers, Sequel
      <3> QED BY <2>1, <3>1, <3>2, JudgesSolo
    <2>12. Own(r)'
      BY <2>6, <2>8, <2>9, <2>10, <2>11 DEF Own
    <2>13. Files'
      <3>1. Unharmed /\ v.metrics # None => \A c \in Conditions : Valid(c)
        BY <2>5, <2>7
      <3>2. metrics' = metrics \/ v.metrics # None
        BY <2>4, OutputsTyped DEF IInv, TInv
      <3> QED BY <1>2, <2>3, <3>1, <3>2 DEF IInv, Files
    <2>14. Training' /\ ColdReports'
      BY <1>2, <2>1, SameTraining, SameColdReports DEF Judges
    <2> QED BY <1>2, <2>3, <2>12, <2>13, <2>14, StepKeeps
  <1> QED BY <1>7, <1>8, EvaluateMoves DEF IInv, TInv

\* The comparison sees every change of a target byte.
LEMMA CompareKeeps ==
  ASSUME IInv, TInv', NEW r \in Runners, Compare(r)
  PROVE  IInv'
  <1> DEFINE u == run[r]
             v == run'[r]
  <1>1. Phase(u) /\ Own(r)
    BY DEF IInv, TInv
  <1>2. /\ UNCHANGED <<intact, cache, task, predictions, metrics, reports, trouble>>
        /\ \/ u.pc = "compare" /\ Turns(r, "report", {"unchanged"})
           \/ u.pc = "recompare" /\ Turns(r, "final", {"unchanged"})
        /\ v.unchanged = FoundationUnchanged
        /\ records' = [records EXCEPT ![u.mode] = [plan |-> u.plan, unchanged |-> v.unchanged]]
    BY CompareMoves DEF IInv, TInv, At, Me
  <1>3. /\ Judges(r)
        /\ \/ u.pc = "compare" /\ v.pc = "report" /\ u.mode = "cold"
           \/ u.pc = "recompare" /\ v.pc = "final" /\ u.mode = "resume"
    BY <1>1, <1>2, TurnsJudges DEF Judging, Closing, Phase
  <1>4. /\ v.metrics = u.metrics /\ v.split = u.split /\ v.coldStatus = u.coldStatus
        /\ v.coldRuns = u.coldRuns /\ v.before = u.before /\ v.verification = u.verification
    BY <1>2 DEF Turns, Same, LocalFields
  <1>5. /\ Evolves(r) /\ Unharmed' = Unharmed /\ Labels' = Labels /\ (Alone(r)' <=> Alone(r))
        /\ \A c \in Conditions : /\ Passes(r, c)' = Passes(r, c) /\ Valid(c)' = Valid(c)
                                 /\ Fresh2(u, c) /\ Fresh2(v, c)
    BY <1>2, <1>3, JudgesFacts
  <1>6. Knows(r)'
    <2>1. ~Labels => ~v.unchanged
      BY <1>2 DEF Labels, FoundationUnchanged, Protected
    <2> QED BY <1>1, <1>3, <1>4, <1>5, <2>1 DEF Own, Knows, Judges
  <1>7. Cached(r)' /\ (Alone(r)' => AloneCached(r)')
    BY <1>1, <1>2, <1>3, <1>4, <1>5, SameCached, SameAloneCached DEF SameOutcome, Judges, Own
  <1>8. Watched(r)' /\ Verified(r)' /\ Told(r)'
    BY <1>1, <1>2, <1>3, <1>4, <1>5 DEF Own, Judges, Watched, Snapped, Verified, Told, Sequel
  <1>9. Unharmed' /\ Alone(r)' => Solo(r)'
    <2> SUFFICES ASSUME Unharmed, Alone(r)
                 PROVE  Solo(r)'
      BY <1>5
    <2>1. Progress(r) /\ Papers(r)
      BY <1>1, <1>3 DEF Own, Solo, Past, Judging, Closing
    <2>2. metrics'.content = v.metrics
      BY <1>2, <1>4, <2>1 DEF Progress
    <2>3. /\ records'.split = records.split /\ records'.verification = records.verification
          /\ u.mode = "resume" => records'.resume = [plan |-> u.plan, unchanged |-> v.unchanged]
      BY <1>2, <1>3 DEF IInv, TInv, FilesTyped
    <2>4. Papers(r)'
      BY <1>2, <1>3, <1>4, <2>1, <2>3 DEF Papers, Sequel, Outputs, Judges
    <2> QED BY <1>3, <2>2, <2>4, JudgesSolo
  <1>10. Own(r)'
    BY <1>6, <1>7, <1>8, <1>9 DEF Own
  <1>11. Training' /\ Files' /\ ColdReports'
    BY <1>2, <1>3, SameTraining, SameFiles, SameColdReports DEF Judges
  <1> QED BY <1>2, <1>5, <1>10, <1>11, StepKeeps

-----------------------------------------------------------------------------
(* Counts of conditions.                                                      *)

LEMMA FullSubset ==
  ASSUME NEW S \in SUBSET Conditions
  PROVE  /\ Cardinality(S) \in Nat /\ IsFiniteSet(S)
         /\ Cardinality(S) = 0 <=> S = {}
         /\ Cardinality(S) = Cardinality(Conditions) <=> S = Conditions
  BY SmokeAssumption, FS_Subset, FS_CardinalityType, FS_EmptySet

LEMMA DisjointUnion ==
  ASSUME NEW S \in SUBSET Conditions, NEW T \in SUBSET Conditions, S \cap T = {}
  PROVE  Cardinality(S \cup T) = Cardinality(S) + Cardinality(T)
  <1>1. /\ IsFiniteSet(S) /\ IsFiniteSet(T) /\ Cardinality(S) \in Nat /\ Cardinality(T) \in Nat
        /\ Cardinality(S \cap T) = 0
    BY FullSubset, FS_EmptySet
  <1>2. Cardinality(S \cup T) = Cardinality(S) + Cardinality(T) - Cardinality(S \cap T)
    BY <1>1, FS_Union
  <1> QED BY <1>1, <1>2

Having(runs, s) == {c \in Conditions : runs[c].status = s}

LEMMA CountFacts ==
  ASSUME NEW runs, NEW s
  PROVE  /\ Count(runs, s) \in Nat
         /\ Count(runs, s) = 0 <=> \A c \in Conditions : runs[c].status # s
         /\ Count(runs, s) = Cardinality(Conditions) <=> \A c \in Conditions : runs[c].status = s
  <1>1. Count(runs, s) = Cardinality(Having(runs, s))
    BY DEF Count, Having
  <1>2. /\ Having(runs, s) \in SUBSET Conditions
        /\ Having(runs, s) = {} <=> \A c \in Conditions : runs[c].status # s
        /\ Having(runs, s) = Conditions <=> \A c \in Conditions : runs[c].status = s
    BY DEF Having
  <1> HIDE DEF Having
  <1> QED BY <1>1, <1>2, FullSubset

\* Every condition passed, failed or was blocked, and none twice.
LEMMA CountPartition ==
  ASSUME NEW runs, \A c \in Conditions : runs[c] \in ConditionRuns
  PROVE  Count(runs, "PASS") + Count(runs, "FAIL") + Count(runs, "BLOCKED") = Cardinality(Conditions)
  <1> DEFINE P == Having(runs, "PASS")
             F == Having(runs, "FAIL")
             B == Having(runs, "BLOCKED")
  <1>1. /\ P \in SUBSET Conditions /\ F \in SUBSET Conditions /\ B \in SUBSET Conditions
        /\ P \cap F = {} /\ (P \cup F) \cap B = {}
    BY DEF Having
  <1>2. (P \cup F) \cup B = Conditions
    BY ConditionRunFacts DEF Having
  <1>3. /\ Count(runs, "PASS") = Cardinality(P) /\ Count(runs, "FAIL") = Cardinality(F)
        /\ Count(runs, "BLOCKED") = Cardinality(B)
    BY DEF Count, Having
  <1> HIDE DEF P, F, B
  <1>4. /\ Cardinality(P) \in Nat /\ Cardinality(F) \in Nat /\ Cardinality(B) \in Nat
    BY <1>1, FullSubset
  <1>5. Cardinality(P \cup F) = Cardinality(P) + Cardinality(F)
    BY <1>1, DisjointUnion
  <1>6. Cardinality((P \cup F) \cup B) = Cardinality(P \cup F) + Cardinality(B)
    <2>1. P \cup F \in SUBSET Conditions
      BY <1>1
    <2> QED BY <1>1, <2>1, DisjointUnion
  <1> QED BY <1>2, <1>3, <1>4, <1>5, <1>6

\* What the status of a pass says of its conditions.
LEMMA StatusFacts ==
  ASSUME NEW runs, \A c \in Conditions : runs[c] \in ConditionRuns,
         NEW unchanged, NEW split, NEW net, NEW status,
         status = ConditionStatus(runs, unchanged, split, net)
  PROVE  /\ status = "PASS_PENDING_REVIEW" => AllPass(runs) /\ unchanged /\ ~net /\ split = "PASS"
         /\ status = "PARTIAL_VALID" => ~AllPass(runs)
  <1>1. Count(runs, "BLOCKED") \in Nat /\ Count(runs, "FAIL") \in Nat
    BY CountFacts
  <1>2. status = "PASS_PENDING_REVIEW" =>
          /\ unchanged /\ ~net /\ split = "PASS"
          /\ Count(runs, "BLOCKED") = 0 /\ Count(runs, "FAIL") = 0
    BY <1>1 DEF ConditionStatus
  <1>3. status = "PARTIAL_VALID" => Count(runs, "FAIL") # 0
    BY <1>1 DEF ConditionStatus
  <1> QED BY <1>2, <1>3, CountFacts, ConditionRunFacts DEF AllPass

LEMMA ReportFields ==
  ASSUME NEW r \in Runners, NEW status
  PROVE  LET x == Report(r, status) IN
         /\ x.by = r /\ x.plan = run[r].plan /\ x.mode = run[r].mode /\ x.status = status
         /\ x.runs = run[r].runs /\ x.executed = Cardinality(run[r].executed)
         /\ x.hits = Cardinality(run[r].hits) /\ x.metrics = run[r].metrics
         /\ x.unchanged = run[r].unchanged /\ x.split = run[r].split /\ x.net = run[r].net
         /\ x.verification = run[r].verification
  BY DEF Report, Me

\* A cold report passes only when the pass executed everything.
LEMMA ReportColdKeeps ==
  ASSUME IInv, TInv', NEW r \in Runners, ReportCold(r)
  PROVE  IInv'
  <1> DEFINE u == run[r]
             v == run'[r]
             status == ConditionStatus(u.runs, u.unchanged, u.split, u.net)
  <1>1. Phase(u) /\ Own(r)
    BY DEF IInv, TInv
  <1>2. u.pc = "report" /\ UNCHANGED <<intact, cache, task, predictions, metrics, records, trouble>>
    BY ReportColdMoves DEF IInv, TInv, At
  <1>3. u.mode = "cold" /\ u.plan \in Plans /\ u.runs \in [Conditions -> ConditionRuns]
        /\ u.executed \subseteq Conditions
    BY <1>1, <1>2 DEF Phase, Filled, Fresh2, Judging, Working, IInv, TInv, RunRecords
  <1>4. AllPass(u.runs) <=> \A c \in Conditions : Passes(r, c)
    BY <1>3, ConditionRunFacts DEF AllPass, Passes
  <1>5. status \in Statuses
    BY ConditionStatusTyped
  <1>6. PICK x : x = ColdReport(r)
    OBVIOUS
  <1>7. /\ x.by = r /\ x.mode = "cold" /\ x.status = status /\ x.runs = u.runs
        /\ x.executed = Cardinality(u.executed) /\ x.hits = Cardinality(u.hits)
        /\ x.metrics = u.metrics /\ x.unchanged = u.unchanged /\ x.net = u.net
    BY <1>3, <1>6, ReportFields DEF ColdReport
  <1>8. x # None
    BY <1>2, <1>5, <1>6, ReportTyped DEF ColdReport, IInv
  <1>9. /\ status = "PASS_PENDING_REVIEW" => AllPass(u.runs) /\ u.unchanged /\ ~u.net /\ u.split = "PASS"
        /\ status = "PARTIAL_VALID" => ~AllPass(u.runs)
    BY <1>3, StatusFacts
  <1>10. Cardinality(u.executed) = Cardinality(Conditions) <=> u.executed = Conditions
    BY <1>3, FullSubset
  <1> HIDE DEF status
  <1>11. CASE ~ReportAccepted(ColdReport(r)) /\ Halts(r, "raised") /\ UNCHANGED reports
    <2>1. ASSUME Unharmed, Alone(r)
          PROVE  ReportAccepted(x)
      <3>1. Progress(r) /\ FirstPass(r)
        BY <1>1, <1>2, <2>1 DEF Own, Solo, Past, Judging
      <3>2. ASSUME status = "PASS_PENDING_REVIEW"
            PROVE  /\ AllPass(u.runs) /\ u.metrics # None /\ u.unchanged /\ ~u.net
                   /\ u.executed = Conditions /\ u.hits = {}
                   /\ \A c \in Conditions : u.runs[c].hit = FALSE
        <4>1. AllPass(u.runs) /\ u.unchanged /\ ~u.net /\ u.split = "PASS"
          BY <1>9, <3>2
        <4>2. u.metrics # None
          BY <1>1, <1>2, <4>1 DEF Own, Knows
        <4>3. \A c \in Conditions : Passes(r, c) /\ Valid(c)
          BY <1>2, <1>4, <3>1, <4>1 DEF Progress, Filled, Fresh2, Judging
        <4>4. u.executed = Conditions /\ u.hits = {}
          BY <1>3, <3>1, <4>3 DEF FirstPass
        <4>5. \A c \in Conditions : u.runs[c].hit = FALSE
          BY <1>1, <1>3, <4>3, ConditionRunFacts DEF Phase, Passes
        <4> QED BY <4>1, <4>2, <4>4, <4>5
      <3>3. status = "PASS_PENDING_REVIEW" => /\ x.executed = Cardinality(Conditions) /\ x.hits = 0
                                              /\ \A c \in Conditions : x.runs[c].hit = (x.mode = "resume")
        BY <1>7, <3>2, FS_EmptySet
      <3>4. status = "PASS_PENDING_REVIEW" => AllPass(x.runs) /\ x.metrics # None /\ x.unchanged /\ ~x.net
        BY <1>7, <3>2
      <3> QED BY <1>7, <1>9, <3>3, <3>4 DEF ReportAccepted
    <2> QED BY <1>2, <1>6, <1>11, <2>1, RaiseKeeps DEF Quiet, Ended
  <1>12. CASE /\ ReportAccepted(ColdReport(r)) /\ Turns(r, "snapshot", {"coldStatus", "coldRuns"})
              /\ reports' = [reports EXCEPT ![u.plan].cold = ColdReport(r)]
              /\ v.coldRuns = u.runs /\ v.coldStatus = status
    <2>1. Judges(r) /\ v.pc = "snapshot" /\ v.mode = "cold"
      BY <1>2, <1>3, <1>12, TurnsJudges DEF Judging, Judges
    <2>2. v.metrics = u.metrics /\ v.split = u.split
      BY <1>12 DEF Turns, Same, LocalFields
    <2>3. /\ reports'[u.plan].cold = x
          /\ \A p \in Plans : p # u.plan => reports'[p].cold = reports[p].cold
          /\ \A p \in Plans : reports'[p].resume = reports[p].resume
      BY <1>3, <1>6, <1>12 DEF IInv, TInv, FilesTyped
    <2>4. /\ Evolves(r) /\ Unharmed' = Unharmed /\ Labels' = Labels /\ (Alone(r)' <=> Alone(r))
          /\ \A c \in Conditions : /\ Passes(r, c)' = Passes(r, c) /\ Valid(c)' = Valid(c)
                                   /\ Fresh2(u, c) /\ Fresh2(v, c)
      BY <1>7, <1>8, <2>1, <2>3, JudgesFacts
    <2>5. Knows(r)'
      BY <1>1, <2>1, <2>4 DEF Own, Knows, Judges
    <2>6. Cached(r)' /\ (Alone(r)' => AloneCached(r)')
      BY <1>1, <1>2, <2>1, <2>2, <2>4, SameCached, SameAloneCached DEF SameOutcome, Judges, Own
    <2>7. Watched(r)' /\ Verified(r)'
      BY <2>1 DEF Watched, Snapped, Verified
    <2>8. Told(r)'
      BY <1>7, <1>12, <2>1, <2>3 DEF Told, Judges
    <2>9. Unharmed' /\ Alone(r)' => Solo(r)'
      <3> SUFFICES ASSUME Unharmed, Alone(r)
                   PROVE  Solo(r)'
        BY <2>4
      <3>1. Progress(r) /\ Papers(r)
        BY <1>1, <1>2 DEF Own, Solo, Past, Judging
      <3>2. metrics'.content = v.metrics
        BY <1>2, <2>2, <3>1 DEF Progress
      <3>3. Papers(r)'
        BY <1>2, <1>7, <1>8, <1>12, <2>1, <2>2, <2>3, <3>1 DEF Papers, Sequel, Judges
      <3> QED BY <2>1, <3>2, <3>3, JudgesSolo
    <2>10. Own(r)'
      BY <2>5, <2>6, <2>7, <2>8, <2>9 DEF Own
    <2>11. ASSUME Passing(x), NEW c \in Conditions
           PROVE  /\ x.runs[c].payload.plan = u.plan
                  /\ Unharmed => x.runs[c].payload.by = r /\ x.runs[c].payload.mode = "cold"
      <3>1. AllPass(u.runs) /\ u.executed = Conditions
        BY <1>6, <1>7, <1>10, <1>12, <2>11 DEF ReportAccepted, Passing
      <3>2. Passes(r, c)
        BY <1>4, <3>1
      <3>3. u.runs[c].payload.plan = u.plan
        BY <1>1, <3>2 DEF Own, Knows
      <3>4. Unharmed => u.runs[c].payload = cache[c] /\ cache[c].by = r /\ cache[c].mode = "cold"
        BY <1>1, <1>3, <3>1, <3>2 DEF Own, Cached
      <3> QED BY <1>7, <3>3, <3>4
    <2>12. ColdReports'
      <3>1. \A p \in Plans : Passing(reports[p].cold) =>
              \A c \in Conditions : /\ reports[p].cold.runs[c].payload.plan = p
                                    /\ Unharmed => /\ reports[p].cold.runs[c].payload.by = reports[p].cold.by
                                                   /\ reports[p].cold.runs[c].payload.mode = "cold"
        BY DEF IInv, ColdReports
      <3>2. \A p \in Plans : p = u.plan \/ reports'[p].cold = reports[p].cold
        BY <2>3
      <3> QED BY <1>7, <2>3, <2>4, <2>11, <3>1, <3>2 DEF ColdReports, Passing
    <2>13. Training' /\ Files'
      BY <1>2, <2>1, SameTraining, SameFiles DEF Judges
    <2> QED BY <2>3, <2>4, <2>10, <2>12, <2>13, StepKeeps
  <1> QED BY <1>11, <1>12, ReportColdMoves DEF IInv, TInv, Me, status

LEMMA OutputFields ==
  /\ \A c \in Conditions : Outputs.files[c] = predictions[c]
  /\ Outputs.tables = metrics
  BY DEF Outputs

\* From here on the runner watches the output files.
LEMMA SnapshotKeeps ==
  ASSUME IInv, TInv', NEW r \in Runners, Snapshot(r)
  PROVE  IInv'
  <1> DEFINE u == run[r]
             v == run'[r]
  <1>1. Phase(u) /\ Own(r)
    BY DEF IInv, TInv
  <1>2. u.pc = "snapshot" /\ Quiet /\ Turns(r, "preread", {"before"}) /\ v.before = Outputs
    BY SnapshotMoves DEF IInv, TInv, At
  <1>3. Judges(r) /\ v.pc = "preread"
    BY <1>2, TurnsJudges DEF Judging, Quiet
  <1>4. /\ v.metrics = u.metrics /\ v.split = u.split /\ v.coldStatus = u.coldStatus
        /\ v.coldRuns = u.coldRuns
    BY <1>2 DEF Turns, Same, LocalFields
  <1>5. /\ Evolves(r) /\ Unharmed' = Unharmed /\ Labels' = Labels /\ (Alone(r)' <=> Alone(r))
        /\ \A c \in Conditions : /\ Passes(r, c)' = Passes(r, c) /\ Valid(c)' = Valid(c)
                                 /\ Fresh2(u, c) /\ Fresh2(v, c)
    BY <1>2, <1>3, JudgesFacts DEF Quiet
  <1>6. u.mode = "cold" /\ v.mode = "cold"
    BY <1>1, <1>2, <1>3 DEF Phase, Judging, Judges
  <1>7. Knows(r)'
    BY <1>1, <1>3, <1>5 DEF Own, Knows, Judges
  <1>8. Cached(r)' /\ (Alone(r)' => AloneCached(r)')
    BY <1>1, <1>2, <1>3, <1>4, <1>5, SameCached, SameAloneCached DEF SameOutcome, Judges, Own, Quiet
  <1>9. Watched(r)'
    <2>1. \A c \in Conditions : predictions[c].stamp \in Nat
      BY Stamps DEF IInv
    <2>2. \A c \in Conditions : v.before.files[c].stamp = predictions[c].stamp
      BY <1>2, OutputFields
    <2>3. \A c \in Conditions : v.before.files[c].stamp <= predictions'[c].stamp
      BY <1>2, <2>1, <2>2 DEF Quiet
    <2> QED BY <1>6, <2>3 DEF Watched
  <1>10. Verified(r)' /\ Told(r)'
    BY <1>1, <1>2, <1>3, <1>4 DEF Own, Judges, Verified, Told, Sequel, Quiet
  <1>11. Unharmed' /\ Alone(r)' => Solo(r)'
    <2> SUFFICES ASSUME Unharmed, Alone(r)
                 PROVE  Solo(r)'
      BY <1>5
    <2>1. Progress(r) /\ Papers(r)
      BY <1>1, <1>2 DEF Own, Solo, Past, Judging
    <2>2. metrics'.content = v.metrics
      BY <1>2, <1>4, <2>1 DEF Progress, Quiet
    <2>3. Outputs' = Outputs
      BY <1>2 DEF Outputs, Quiet
    <2>4. Papers(r)'
      BY <1>2, <1>3, <1>4, <1>6, <2>1, <2>3 DEF Papers, Sequel, Judges, Quiet
    <2> QED BY <1>3, <2>2, <2>4, JudgesSolo
  <1>12. Own(r)'
    BY <1>7, <1>8, <1>9, <1>10, <1>11 DEF Own
  <1>13. Training' /\ Files' /\ ColdReports'
    BY <1>2, <1>3, SameTraining, SameFiles, SameColdReports DEF Judges, Quiet
  <1> QED BY <1>2, <1>5, <1>12, <1>13, StepKeeps DEF Quiet

\* What is verified is what the second pass collected.
LEMMA VerifyKeeps ==
  ASSUME IInv, TInv', NEW r \in Runners, Verify(r)
  PROVE  IInv'
  <1> DEFINE u == run[r]
             v == run'[r]
  <1>1. Phase(u) /\ Own(r)
    BY DEF IInv, TInv
  <1>2. u.pc = "verify" /\ UNCHANGED <<intact, cache, task, predictions, metrics, reports, trouble>>
    BY VerifyMoves DEF IInv, TInv, At
  <1>3. u.mode = "resume" /\ u.runs \in [Conditions -> ConditionRuns]
    BY <1>1, <1>2 DEF Phase, Filled, Closing, IInv, TInv, RunRecords
  <1>4. \A c \in Conditions : Passes(r, c) <=> u.runs[c].status = "PASS"
    BY <1>3, ConditionRunFacts DEF Passes
  <1>5. Unharmed /\ Alone(r) => Progress(r) /\ SecondPass(r) /\ Papers(r)
    BY <1>1, <1>2 DEF Own, Solo, Past, Closing
  <1>6. CASE ~VerificationAccepted(r, Outputs) /\ Halts(r, "raised") /\ UNCHANGED records
    <2>1. ASSUME Unharmed, Alone(r)
          PROVE  VerificationAccepted(r, Outputs)
      <3>1. u.before = Outputs /\ u.executed = {} /\ u.hits = {c \in Conditions : Valid(c)}
        BY <1>2, <1>3, <1>5, <2>1 DEF SecondPass, Papers
      <3>2. u.hits = Having(u.runs, "PASS")
        BY <1>3, <1>4, <1>5, <2>1, <3>1 DEF Having, Progress, Filled
      <3>3. Cardinality(u.hits) = Count(u.runs, "PASS") /\ Cardinality(u.executed) = 0
        BY <3>1, <3>2, FS_EmptySet DEF Having, Count
      <3>4. Count(u.runs, "PASS") + Count(u.runs, "FAIL") + Count(u.runs, "BLOCKED") = Cardinality(Conditions)
        BY <1>3, CountPartition
      <3>5. /\ Count(u.runs, "PASS") \in Nat /\ Count(u.runs, "FAIL") \in Nat
            /\ Count(u.runs, "BLOCKED") \in Nat
        BY CountFacts
      <3>6. Cardinality(u.executed) + Cardinality(u.hits) + Count(u.runs, "FAIL")
              + Count(u.runs, "BLOCKED") = Cardinality(Conditions)
        BY <3>3, <3>4, <3>5
      <3> QED BY <3>1, <3>6 DEF VerificationAccepted
    <2> QED BY <1>2, <1>6, <2>1, RaiseKeeps DEF Quiet, Ended
  <1>7. CASE /\ VerificationAccepted(r, Outputs) /\ Turns(r, "recompare", {"verification"})
             /\ records' = [records EXCEPT !.verification = ResumeVerification(r)]
             /\ v.verification = ResumeVerification(r)
    <2>1. Judges(r) /\ v.pc = "recompare" /\ v.mode = "resume"
      BY <1>2, <1>3, <1>7, TurnsJudges DEF Closing, Judges
    <2>2. /\ v.metrics = u.metrics /\ v.split = u.split /\ v.coldStatus = u.coldStatus
          /\ v.coldRuns = u.coldRuns /\ v.before = u.before
      BY <1>7 DEF Turns, Same, LocalFields
    <2>3. /\ Evolves(r) /\ Unharmed' = Unharmed /\ Labels' = Labels /\ (Alone(r)' <=> Alone(r))
          /\ \A c \in Conditions : /\ Passes(r, c)' = Passes(r, c) /\ Valid(c)' = Valid(c)
                                   /\ Fresh2(u, c) /\ Fresh2(v, c)
      BY <1>2, <2>1, JudgesFacts
    <2>4. Knows(r)'
      BY <1>1, <2>1, <2>3 DEF Own, Knows, Judges
    <2>5. Cached(r)' /\ (Alone(r)' => AloneCached(r)')
      BY <1>1, <1>2, <2>1, <2>2, <2>3, SameCached, SameAloneCached DEF SameOutcome, Judges, Own
    <2>6. Watched(r)' /\ Told(r)'
      BY <1>1, <1>2, <1>3, <2>1, <2>2 DEF Own, Judges, Watched, Snapped, Told, Sequel
    <2>7. PICK w : w = v.verification
      OBVIOUS
    <2>8. /\ w.by = r /\ w.plan = u.plan /\ w.before = u.before /\ w.after = Outputs
          /\ w.passed <=> VerificationPasses(r, Outputs)
      BY <1>7, <2>7 DEF ResumeVerification, Me
    <2>9. w.passed => /\ u.before = Outputs /\ u.executed = {} /\ u.hits = Conditions
                      /\ AllPass(u.runs) /\ ~u.net
      BY <2>8 DEF VerificationPasses
    <2>10. w.passed => \A c \in Conditions : w.after.files[c].content = u.runs[c].payload
      <3>1. w.passed => \A c \in Conditions : Passes(r, c)
        BY <1>4, <2>9 DEF AllPass
      <3>2. w.passed => \A c \in Conditions : u.before.files[c].stamp = predictions[c].stamp
        BY <2>9, OutputFields
      <3>3. w.passed => \A c \in Conditions : predictions[c].content = u.runs[c].payload
        BY <1>1, <1>2, <1>3, <2>3, <3>1, <3>2 DEF Own, Watched, Snapped
      <3> QED BY <2>8, <3>3, OutputFields
    <2>11. Verified(r)'
      BY <2>1, <2>7, <2>8, <2>9, <2>10 DEF Verified, Judges
    <2>12. Unharmed' /\ Alone(r)' => Solo(r)'
      <3> SUFFICES ASSUME Unharmed, Alone(r)
                   PROVE  Solo(r)'
        BY <2>3
      <3>1. metrics'.content = v.metrics
        BY <1>2, <1>5, <2>2 DEF Progress
      <3>2. records'.verification = v.verification /\ records'.split = records.split
        BY <1>7 DEF IInv, TInv, FilesTyped
      <3>3. Outputs' = Outputs
        BY <1>2 DEF Outputs
      <3>4. Papers(r)'
        BY <1>2, <1>3, <1>5, <2>1, <2>2, <3>2, <3>3 DEF Papers, Sequel, Judges
      <3> QED BY <2>1, <3>1, <3>4, JudgesSolo
    <2>13. Own(r)'
      BY <2>4, <2>5, <2>6, <2>11, <2>12 DEF Own
    <2>14. Training' /\ Files' /\ ColdReports'
      BY <1>2, <2>1, SameTraining, SameFiles, SameColdReports DEF Judges
    <2> QED BY <1>2, <2>3, <2>13, <2>14, StepKeeps
  <1> QED BY <1>6, <1>7, VerifyMoves DEF IInv, TInv

LEMMA FinalStatusFacts ==
  ASSUME NEW r \in Runners
  PROVE  /\ FinalStatus(r) = "PASS_PENDING_REVIEW" =>
              /\ run[r].unchanged /\ run[r].coldStatus = "PASS_PENDING_REVIEW"
              /\ run[r].verification.passed
         /\ FinalStatus(r) \in {"PASS_PENDING_REVIEW", "PARTIAL_VALID"} =>
              /\ run[r].coldStatus = FinalStatus(r)
              /\ \A c \in Conditions : run[r].coldRuns[c].status = run[r].runs[c].status
  BY DEF FinalStatus

\* What a runner that writes a passing final report knows.
LEMMA FinalPassFacts ==
  ASSUME IInv, NEW r \in Runners, At(r, "final"), FinalStatus(r) = "PASS_PENDING_REVIEW"
  PROVE  /\ AllPass(run[r].runs) /\ run[r].metrics # None /\ run[r].unchanged /\ ~run[r].net
         /\ run[r].split = "PASS" /\ run[r].executed = {} /\ run[r].hits = Conditions
         /\ run[r].verification.before = run[r].verification.after
         /\ \A c \in Conditions :
              /\ Passes(r, c)
              /\ run[r].runs[c].payload.sound /\ ~run[r].runs[c].payload.net
              /\ run[r].runs[c].payload.plan = run[r].plan
              /\ run[r].verification.after.files[c].content = run[r].runs[c].payload
         /\ Unharmed \/ Alone(r) => run[r].metrics = [c \in Conditions |-> run[r].runs[c].payload]
  <1> DEFINE u == run[r]
  <1>1. Phase(u) /\ Own(r) /\ u \in RunRecords
    BY DEF IInv, TInv
  <1>2. u.pc = "final" /\ u.mode = "resume" /\ u.runs \in [Conditions -> ConditionRuns] /\ ColdOutcome(u)
    BY <1>1 DEF At, Phase, Filled, Closing, Sequel, RunRecords
  <1>3. u.unchanged /\ u.coldStatus = "PASS_PENDING_REVIEW" /\ u.verification.passed
    BY FinalStatusFacts
  <1>4. u.metrics # None /\ u.split = "PASS"
    BY <1>2, <1>3 DEF ColdOutcome
  <1>5. /\ u.verification.before = u.verification.after
        /\ u.executed = {} /\ u.hits = Conditions /\ AllPass(u.runs) /\ ~u.net
        /\ \A c \in Conditions : u.verification.after.files[c].content = u.runs[c].payload
    BY <1>1, <1>2, <1>3 DEF Own, Verified
  <1>6. \A c \in Conditions : Passes(r, c) /\ Fresh2(u, c)
    BY <1>2, <1>5, ConditionRunFacts DEF AllPass, Passes, Fresh2, Closing
  <1>7. \A c \in Conditions : u.runs[c].payload \in Payloads
    BY <1>2, <1>6, ConditionRunFacts DEF Passes
  <1>8. \A c \in Conditions : u.runs[c].payload.sound /\ ~u.runs[c].payload.net
                              /\ u.runs[c].payload.plan = u.plan
    BY <1>1, <1>2, <1>3, <1>5, <1>6 DEF Own, Knows
  <1>9. u.metrics = [c \in Conditions |-> u.metrics[c]]
    BY <1>1, <1>4 DEF RunRecords, Tables
  <1>10. ASSUME Unharmed \/ Alone(r), NEW c \in Conditions
         PROVE  u.metrics[c] = u.runs[c].payload
    <2>1. CASE Unharmed
      BY <1>1, <1>4, <1>6, <2>1 DEF Own, Cached
    <2>2. CASE Alone(r)
      BY <1>1, <1>2, <1>4, <1>5, <1>6, <2>2 DEF Own, AloneCached
    <2> QED BY <1>10, <2>1, <2>2
  <1>11. Unharmed \/ Alone(r) => u.metrics = [c \in Conditions |-> u.runs[c].payload]
    BY <1>9, <1>10
  <1> QED BY <1>3, <1>4, <1>5, <1>6, <1>8, <1>11

\* Alone and undisturbed, the final report is accepted.
LEMMA FinalAccepted ==
  ASSUME IInv, NEW r \in Runners, At(r, "final"), Unharmed, Alone(r)
  PROVE  ReportAccepted(Report(r, FinalStatus(r)))
  <1> DEFINE u == run[r]
  <1>1. PICK x : x = Report(r, FinalStatus(r))
    OBVIOUS
  <1>2. /\ x.mode = u.mode /\ x.status = FinalStatus(r) /\ x.runs = u.runs
        /\ x.executed = Cardinality(u.executed) /\ x.hits = Cardinality(u.hits)
        /\ x.metrics = u.metrics /\ x.unchanged = u.unchanged /\ x.net = u.net
        /\ x.verification = u.verification
    BY <1>1, ReportFields
  <1>3. /\ u.pc = "final" /\ u.mode = "resume" /\ u.runs \in [Conditions -> ConditionRuns]
        /\ ColdOutcome(u) /\ u.verification # None /\ SecondPass(r)
    BY DEF IInv, TInv, At, Phase, Filled, Closing, Sequel, RunRecords, Own, Solo, Past
  <1>4. FinalStatus(r) = "PARTIAL_VALID" => ~AllPass(u.runs)
    BY <1>3, FinalStatusFacts DEF ColdOutcome, AllPass
  <1>5. ASSUME FinalStatus(r) = "PASS_PENDING_REVIEW"
        PROVE  /\ AllPass(u.runs) /\ u.metrics # None /\ u.unchanged /\ ~u.net
               /\ Cardinality(u.executed) = 0 /\ Cardinality(u.hits) = Cardinality(Conditions)
               /\ u.verification.before = u.verification.after
               /\ \A c \in Conditions : u.runs[c].hit = TRUE
    <2>1. /\ AllPass(u.runs) /\ u.metrics # None /\ u.unchanged /\ ~u.net
          /\ u.executed = {} /\ u.hits = Conditions
          /\ u.verification.before = u.verification.after /\ \A c \in Conditions : Passes(r, c)
      BY <1>5, FinalPassFacts
    <2>2. \A c \in Conditions : u.runs[c].hit
      BY <1>3, <2>1 DEF SecondPass, Fresh2, Closing
    <2>3. \A c \in Conditions : u.runs[c].hit \in BOOLEAN
      BY <1>3, ConditionRunFacts
    <2> QED BY <2>1, <2>2, <2>3, FS_EmptySet
  <1>6. x.status = "PASS_PENDING_REVIEW" => AllPass(x.runs) /\ x.metrics # None /\ x.unchanged /\ ~x.net
    BY <1>2, <1>5
  <1>7. x.status = "PASS_PENDING_REVIEW" =>
          /\ x.executed = 0 /\ x.hits = Cardinality(Conditions)
          /\ x.verification # None /\ x.verification.before = x.verification.after
          /\ \A c \in Conditions : x.runs[c].hit = (x.mode = "resume")
    BY <1>2, <1>3, <1>5
  <1>8. x.mode # "cold" /\ (x.status = "PARTIAL_VALID" => ~AllPass(x.runs))
    BY <1>2, <1>3, <1>4
  <1>9. ReportAccepted(x)
    BY <1>6, <1>7, <1>8 DEF ReportAccepted
  <1> QED BY <1>1, <1>9

\* The validator accepts what a lonely runner reports as passing.
LEMMA FinalValidated ==
  ASSUME IInv, NEW r \in Runners, At(r, "final"), Unharmed, Alone(r),
         FinalStatus(r) = "PASS_PENDING_REVIEW",
         NEW p \in Plans, p = run[r].plan, NEW x, x = Report(r, FinalStatus(r)), x # None,
         reports'[p].resume = x, reports'[p].cold = reports[p].cold,
         UNCHANGED <<intact, predictions, metrics, records>>
  PROVE  Gates(x) /\ Verdict(p)' = "PASS"
  <1> DEFINE u == run[r]
  <1>1. /\ x.by = r /\ x.plan = u.plan /\ x.status = FinalStatus(r) /\ x.runs = u.runs
        /\ x.metrics = u.metrics /\ x.unchanged = u.unchanged /\ x.split = u.split
        /\ x.net = u.net /\ x.verification = u.verification
    BY ReportFields
  <1>2. u.pc = "final" /\ u.mode = "resume" /\ Progress(r) /\ Papers(r) /\ Verified(r)
    BY DEF IInv, TInv, At, Phase, Closing, Own, Solo, Past
  <1>3. /\ u.unchanged /\ ~u.net /\ u.split = "PASS" /\ u.verification.passed /\ AllPass(u.runs)
        /\ \A c \in Conditions : Passes(r, c) /\ u.runs[c].payload.plan = u.plan
        /\ \A c \in Conditions : u.coldRuns[c].status = u.runs[c].status
    BY FinalPassFacts, FinalStatusFacts
  <1>4. Gates(x)
    BY <1>1, <1>3 DEF Gates
  <1>5. SourcesHold'
    <2>1. SourcesHold
      BY AllIntact
    <2> QED BY <2>1 DEF SourcesHold, PlanHolds, ViewRecordsHold, ViewFilesHold, RegistryHolds,
                        RuntimeSourcesHold, CheckpointVerified
  <1>6. PredictionsHold(x)'
    BY <1>1, <1>2, <1>3 DEF PredictionsHold, Progress
  <1>7. MetricsHold(x)'
    BY <1>1, <1>2, <1>3 DEF MetricsHold, Progress
  <1>8. RecordsHold(x)'
    BY <1>1, <1>2 DEF RecordsHold, Papers
  <1>9. ResumeHolds(x)'
    <2>1. /\ records.verification = u.verification /\ u.verification.by = r /\ u.verification.plan = p
          /\ reports[p].cold # None /\ reports[p].cold.by = r /\ reports[p].cold.runs = u.coldRuns
      BY <1>2 DEF Papers, Verified, Sequel
    <2>2. /\ x.plan = p /\ x.verification = u.verification /\ x.runs = u.runs
          /\ reports'[p].cold = reports[p].cold
      BY <1>1
    <2>3. UNCHANGED records
      OBVIOUS
    <2>4. /\ records'.verification = x.verification /\ x.verification.plan = x.plan
          /\ reports'[x.plan].cold # None /\ reports'[x.plan].cold.by = x.verification.by
      BY <2>1, <2>2, <2>3
    <2>5. \A c \in Conditions : reports'[x.plan].cold.runs[c].status = x.runs[c].status
      <3>1. reports'[x.plan].cold.runs = u.coldRuns
        BY <2>1, <2>2
      <3>2. \A c \in Conditions : u.coldRuns[c].status = x.runs[c].status
        BY <1>3, <2>2
      <3> QED BY <3>1, <3>2
    <2> QED BY <2>4, <2>5 DEF ResumeHolds
  <1>10. /\ reports'[p].resume = x /\ ~(x = None) /\ SourcesHold' /\ PredictionsHold(x)'
         /\ MetricsHold(x)' /\ RecordsHold(x)' /\ ResumeHolds(x)' /\ Gates(x)'
    BY <1>4, <1>5, <1>6, <1>7, <1>8, <1>9 DEF Gates
  <1>11. Verdict(p)' = "PASS"
    BY <1>10 DEF Verdict
  <1> QED BY <1>4, <1>11

LEMMA ReportFinalKeeps ==
  ASSUME IInv, TInv', NEW r \in Runners, ReportFinal(r)
  PROVE  IInv'
  <1> DEFINE u == run[r]
             v == run'[r]
  <1>1. Phase(u) /\ Own(r)
    BY DEF IInv, TInv
  <1>2. At(r, "final") /\ UNCHANGED <<intact, cache, task, predictions, metrics, records, trouble>>
    BY ReportFinalMoves DEF IInv, TInv
  <1>3. u.pc = "final" /\ u.mode = "resume" /\ u.plan \in Plans /\ u.verification # None
    BY <1>1, <1>2 DEF At, Phase, Closing, Working
  <1> PICK p : p = u.plan
    OBVIOUS
  <1>4. CASE ~ReportAccepted(Report(r, FinalStatus(r))) /\ Halts(r, "raised") /\ UNCHANGED reports
    BY <1>2, <1>3, <1>4, FinalAccepted, RaiseKeeps DEF Quiet, Ended
  <1>5. CASE /\ ReportAccepted(Report(r, FinalStatus(r))) /\ Halts(r, "done")
             /\ reports' = [reports EXCEPT ![p].resume = Report(r, FinalStatus(r))]
    <2>1. PICK x : x = Report(r, FinalStatus(r))
      OBVIOUS
    <2>2. /\ x.by = r /\ x.plan = u.plan /\ x.status = FinalStatus(r) /\ x.runs = u.runs
          /\ x.metrics = u.metrics /\ x.unchanged = u.unchanged /\ x.split = u.split
          /\ x.net = u.net /\ x.verification = u.verification
      BY <2>1, ReportFields
    <2>3. x # None
      BY <1>2, <1>3, <2>1, FinalStatusTyped, ReportTyped DEF IInv
    <2>4. /\ reports'[p].resume = x
          /\ \A q \in Plans : q # p => reports'[q].resume = reports[q].resume
          /\ \A q \in Plans : reports'[q].cold = reports[q].cold
      BY <1>3, <1>5, <2>1 DEF IInv, TInv, FilesTyped
    <2>5. Moves(r) /\ EndsAs(r, "done") /\ v.pc = "done"
      BY <1>5 DEF Halts, EndsAs
    <2>6. Evolves(r)
      BY <1>2, <1>3, <2>4, <2>5 DEF Evolves, Ended
    <2>7. Own(r)' /\ Training' /\ Files'
      BY <1>2, <2>5, <2>6, EndKeeps DEF Ended
    <2>8. ASSUME NEW q \in Runners
          PROVE  Own(q)'
      BY <2>6, <2>7, OthersKeep DEF IInv
    <2>9. ColdReports'
      BY <1>2, <2>4 DEF IInv, ColdReports, Unharmed, Passing
    <2>10. (Unharmed' <=> Unharmed) /\ (Alone(r)' <=> Alone(r))
      BY <1>2, <2>6, OthersAlone DEF IInv, Unharmed
    <2>11. FinalReport(p)'
      <3>1. x.by \in Runners /\ run'[x.by].pc = "done" /\ x.verification # None /\ x.verification.by = x.by
        BY <1>1, <1>3, <2>2, <2>5 DEF Own, Verified
      <3>2. ASSUME Passing(x)
            PROVE  /\ AllPass(x.runs) /\ Gates(x) /\ x.metrics # None
                   /\ \A c \in Conditions : /\ x.runs[c].payload.sound /\ ~x.runs[c].payload.net
                                            /\ x.runs[c].payload.plan = p
                                            /\ x.verification.after.files[c].content = x.runs[c].payload
                   /\ Unharmed' \/ Alone(r)' => x.metrics = [c \in Conditions |-> x.runs[c].payload]
                   /\ reports'[p].cold # None /\ reports'[p].cold.by = x.by =>
                        reports'[p].cold.status = "PASS_PENDING_REVIEW"
                   /\ Unharmed' /\ Alone(r)' => Verdict(p)' = "PASS"
        <4>1. FinalStatus(r) = "PASS_PENDING_REVIEW"
          BY <2>2, <3>2 DEF Passing
        <4>2. /\ AllPass(u.runs) /\ u.metrics # None /\ u.unchanged /\ ~u.net /\ u.split = "PASS"
              /\ \A c \in Conditions : /\ u.runs[c].payload.sound /\ ~u.runs[c].payload.net
                                       /\ u.runs[c].payload.plan = p
                                       /\ u.verification.after.files[c].content = u.runs[c].payload
              /\ Unharmed \/ Alone(r) => u.metrics = [c \in Conditions |-> u.runs[c].payload]
          BY <1>2, <4>1, FinalPassFacts
        <4>3. u.verification.passed /\ u.coldStatus = "PASS_PENDING_REVIEW"
          BY <4>1, FinalStatusFacts
        <4>4. Gates(x)
          BY <2>2, <4>1, <4>2, <4>3 DEF Gates
        <4>5. reports'[p].cold # None /\ reports'[p].cold.by = x.by =>
                reports'[p].cold.status = "PASS_PENDING_REVIEW"
          BY <1>1, <1>3, <2>2, <2>4, <4>3 DEF Own, Told, Sequel
        <4>6. Unharmed' /\ Alone(r)' => Verdict(p)' = "PASS"
          BY <1>2, <1>3, <2>1, <2>3, <2>4, <2>10, <4>1, FinalValidated
        <4> QED BY <2>2, <2>10, <4>2, <4>4, <4>5, <4>6
      <3>3. Passing(x)' = Passing(x) /\ AllPass(x.runs)' = AllPass(x.runs) /\ Gates(x)' = Gates(x)
        BY DEF Passing, AllPass, Gates
      <3> QED BY <2>2, <2>4, <3>1, <3>2, <3>3 DEF FinalReport
    <2>12. ASSUME NEW q \in Plans, reports'[q].resume # None
           PROVE  FinalReport(q)'
      BY <2>4, <2>6, <2>11, <2>12, FinalKeeps DEF IInv, FinalReports
    <2>13. FinalReports'
      BY <2>12 DEF FinalReports
    <2> QED BY <2>7, <2>8, <2>9, <2>13 DEF IInv
  <1> QED BY <1>4, <1>5, ReportFinalMoves DEF IInv, TInv, Me

-----------------------------------------------------------------------------
(* The invariant holds.                                                       *)

LEMMA InitKeeps == Init => IInv
  <1> SUFFICES ASSUME Init PROVE IInv
    OBVIOUS
  <1>1. TInv
    BY InitTypes
  <1>2. ASSUME NEW r \in Runners
        PROVE  /\ run[r].pc = "start" /\ run[r].mode = "cold" /\ run[r].training = {}
               /\ run[r].executed = {} /\ run[r].metrics = None
               /\ \A c \in Conditions : ~Passes(r, c)
    <2>1. run[r] = Idle
      BY DEF Init
    <2> QED BY <2>1, NoneIsNoPass DEF Idle, Passes
  <1>3. /\ \A c \in Conditions : ~Valid(c) /\ cache[c] = None /\ predictions[c].content = None
        /\ metrics.content = None /\ \A s \in Sources : intact[s]
        /\ \A p \in Plans : task[p] = None /\ reports[p].cold = None /\ reports[p].resume = None
    BY NothingAssumption DEF Init, Valid, NoOutputs
  <1>4. Training /\ Files
    BY <1>2, <1>3 DEF Training, Files
  <1>5. ASSUME NEW r \in Runners
        PROVE  Own(r)
    <2>1. Knows(r) /\ Cached(r) /\ AloneCached(r)
      BY <1>2 DEF Knows, Cached, AloneCached
    <2>2. Watched(r) /\ Verified(r) /\ Told(r)
      BY <1>2 DEF Watched, Snapped, Verified, Told, Sequel
    <2>3. Solo(r)
      BY <1>2, <1>3 DEF Solo, Pristine, Past, Judging, Closing
    <2> QED BY <2>1, <2>2, <2>3 DEF Own
  <1>6. ColdReports /\ FinalReports
    BY <1>3 DEF ColdReports, Passing, FinalReports
  <1> QED BY <1>1, <1>4, <1>5, <1>6 DEF IInv

LEMMA StutterKeeps ==
  ASSUME IInv, UNCHANGED vars
  PROVE  IInv'
  <1>1. TInv'
    BY StutterTypes DEF IInv
  <1>2. UNCHANGED <<run, intact, cache, task, predictions, metrics, reports, records, trouble>>
    BY DEF vars
  <1>3. Training' /\ Files' /\ ColdReports'
    BY <1>2 DEF IInv, Training, Files, ColdReports, Valid, Unharmed, Labels, Passing
  <1>4. ASSUME NEW r \in Runners
        PROVE  Own(r)'
    <2>1. Own(r) /\ (Alone(r)' <=> Alone(r)) /\ (Unharmed' <=> Unharmed)
      BY <1>2 DEF IInv, Alone, At, Unharmed
    <2>2. Knows(r)' /\ Verified(r)' /\ Told(r)' /\ Watched(r)'
      BY <1>2, <2>1 DEF Own, Knows, Verified, Told, Watched, Passes, Labels
    <2>3. Cached(r)' /\ (AloneCached(r) => AloneCached(r)')
      BY <1>2, <2>1 DEF Own, Cached, AloneCached, Passes, Valid
    <2>4. Solo(r) => Solo(r)'
      <3>1. (Pristine => Pristine') /\ (Progress(r) => Progress(r)')
        BY <1>2 DEF Pristine, Progress, State, Passes, Valid
      <3>2. /\ FirstPass(r) => FirstPass(r)'
            /\ SecondPass(r) => SecondPass(r)'
            /\ Papers(r) => Papers(r)'
        BY <1>2 DEF FirstPass, SecondPass, Papers, Outputs, Passes, Valid
      <3> QED BY <1>2, <3>1, <3>2 DEF Solo
    <2> QED BY <2>1, <2>2, <2>3, <2>4 DEF Own
  <1>5. ASSUME NEW p \in Plans, reports[p].resume # None
        PROVE  FinalReport(p)'
    <2>1. FinalReport(p)
      BY <1>5 DEF IInv, FinalReports
    <2>2. PICK x : x = reports[p].resume
      OBVIOUS
    <2>3. SourcesHold' <=> SourcesHold
      BY <1>2 DEF SourcesHold, PlanHolds, ViewRecordsHold, ViewFilesHold, RegistryHolds,
                  RuntimeSourcesHold, CheckpointVerified
    <2>4. /\ PredictionsHold(x)' <=> PredictionsHold(x)
          /\ MetricsHold(x)' <=> MetricsHold(x)
          /\ RecordsHold(x)' <=> RecordsHold(x)
          /\ ResumeHolds(x)' <=> ResumeHolds(x)
          /\ Gates(x)' <=> Gates(x)
      BY <1>2 DEF PredictionsHold, MetricsHold, RecordsHold, ResumeHolds, Gates, AllPass
    <2>5. Verdict(p) = "PASS" => Verdict(p)' = "PASS"
      <3>1. reports'[p].resume = x
        BY <1>2, <2>2
      <3> QED BY <2>2, <2>3, <2>4, <3>1 DEF Verdict
    <2>6. /\ x.by \in Runners /\ run'[x.by].pc = "done" /\ x.plan = p
          /\ x.verification # None /\ x.verification.by = x.by
      BY <1>2, <2>1, <2>2 DEF FinalReport
    <2>7. (Alone(x.by)' <=> Alone(x.by)) /\ (Unharmed' <=> Unharmed)
      BY <1>2 DEF Alone, At, Unharmed
    <2>8. reports' = reports /\ reports'[p].resume = x
      BY <1>2, <2>2
    <2>9. Passing(x)' = Passing(x) /\ AllPass(x.runs)' = AllPass(x.runs) /\ (Gates(x)' <=> Gates(x))
      BY <2>4 DEF Passing, AllPass
    <2> QED BY <2>1, <2>2, <2>5, <2>6, <2>7, <2>8, <2>9 DEF FinalReport
  <1> QED BY <1>1, <1>2, <1>3, <1>4, <1>5 DEF IInv, FinalReports

LEMMA NextKeeps ==
  ASSUME IInv, [Next]_vars
  PROVE  IInv'
  <1>1. TInv'
    BY NextTypes DEF IInv
  <1>2. ASSUME NEW r \in Runners, Step(r)
        PROVE  IInv'
    BY <1>1, <1>2, BeginKeeps, ReadExistingKeeps, ScanKeeps, FindPublishedKeeps, LaunchKeeps,
       TrainPassesKeeps, TrainFailsKeeps, GatherKeeps, CollectFailureKeeps, CollectPredictionsKeeps,
       CollectRaisesKeeps, ValidateSplitKeeps, EvaluateKeeps, CompareKeeps, ReportColdKeeps,
       SnapshotKeeps, VerifyKeeps, ReportFinalKeeps DEF Step
  <1>3. Environment => IInv'
    BY <1>1, DieKeeps, HarmKeeps DEF Environment, Harms
  <1> QED BY <1>2, <1>3, StutterKeeps DEF Next

\* The invariant of the whole experiment, from which the properties follow.
THEOREM SmokeInvariant == Spec => []IInv
  BY InitKeeps, NextKeeps, PTL DEF Spec

-----------------------------------------------------------------------------
(* What it says of the reports.                                               *)

\* The cold report passes only over conditions executed for its plan and, with
\* files unharmed, by its own runner's cold pass: the counts that
\* SmokeRunReport.validate_report compares are enough for that, even among
\* runners that share the cache.
THEOREM ColdReportsAreCold == Spec => []ColdPassIsCold
  <1>1. IInv => ColdPassIsCold
    BY DEF IInv, ColdReports, ColdPassIsCold, Passing, Unharmed
  <1> QED BY <1>1, SmokeInvariant, PTL

\* The final report passes only over offline models trained on the planned
\* labels, verified prediction files, and metrics of these very predictions.
THEOREM FinalReportsAreSound == Spec => []FinalPassIsSound
  <1>1. IInv => FinalPassIsSound
    BY DEF IInv, FinalReports, FinalReport, FinalPassIsSound, Passing, Unharmed
  <1> QED BY <1>1, SmokeInvariant, PTL

\* None of the contracts that a runner's records must satisfy, nor any check in
\* between, raises for a runner that is alone with files unharmed.
THEOREM UndisturbedRunsReport == Spec => []UndisturbedRunReports
  <1>1. IInv => UndisturbedRunReports
    BY DEF IInv, Own, Solo, UndisturbedRunReports, At, Unharmed
  <1> QED BY <1>1, SmokeInvariant, PTL

\* The inventory of a report counts every condition, and all as passed when it passes.
LEMMA InventoryFacts ==
  ASSUME IInv, NEW p \in Plans, reports[p].resume # None
  PROVE  InventoryAccepted(MakeInventory(reports[p].resume))
  <1>1. PICK x : x = reports[p].resume
    OBVIOUS
  <1>2. FinalReport(p) /\ x \in Reports
    BY <1>1 DEF IInv, TInv, FilesTyped, FinalReports
  <1>3. x.runs \in [Conditions -> ConditionRuns]
    BY <1>2 DEF Reports
  <1>4. PICK i : i = MakeInventory(x)
    OBVIOUS
  <1>5. /\ i.status = x.status /\ (i.gates <=> Gates(x))
        /\ i.passed = Count(x.runs, "PASS") /\ i.failed = Count(x.runs, "FAIL")
        /\ i.blocked = Count(x.runs, "BLOCKED")
        /\ i.files = Cardinality({c \in Conditions : x.runs[c].payload # None})
        /\ i.unchanged = x.unchanged /\ i.net = x.net
    BY <1>4 DEF MakeInventory
  <1>6. i.passed + i.failed + i.blocked = Cardinality(Conditions)
    BY <1>3, <1>5, CountPartition
  <1>7. ASSUME Passing(x)
        PROVE  /\ Gates(x) /\ Count(x.runs, "PASS") = Cardinality(Conditions)
               /\ {c \in Conditions : x.runs[c].payload # None} = Conditions
    <2>1. AllPass(x.runs) /\ Gates(x)
      BY <1>1, <1>2, <1>7 DEF FinalReport
    <2>2. \A c \in Conditions : x.runs[c].payload # None
      BY <1>3, <2>1, ConditionRunFacts, NothingAssumption DEF AllPass
    <2> QED BY <2>1, <2>2, CountFacts DEF AllPass
  <1>8. i.status = "PASS_PENDING_REVIEW" =>
          /\ i.gates /\ i.passed = Cardinality(Conditions) /\ i.files = Cardinality(Conditions)
          /\ i.unchanged /\ ~i.net
    BY <1>1, <1>5, <1>7 DEF Passing, Gates
  <1> QED BY <1>1, <1>4, <1>6, <1>8 DEF InventoryAccepted

\* What validate_smoke_experiment.py says of the final report of any plan: PASS
\* only of a passing one backed by its own cold report, always of one nobody
\* disturbed, and its inventory of the evidence is never refused.
THEOREM ValidatorIsRight == Spec => []ValidatorAgrees
  <1>1. ASSUME IInv, NEW p \in Plans, Verdict(p) = "PASS"
        PROVE  /\ reports[p].cold.status = "PASS_PENDING_REVIEW"
               /\ reports[p].cold.by = reports[p].resume.by
    <2>1. PICK x : x = reports[p].resume
      OBVIOUS
    <2>2. x # None /\ ResumeHolds(x) /\ Gates(x)
      BY <1>1, <2>1 DEF Verdict
    <2>3. FinalReport(p) /\ Passing(x)
      BY <1>1, <2>1, <2>2 DEF IInv, FinalReports, Gates, Passing
    <2>4. x.plan = p /\ x.verification.by = x.by
      BY <2>1, <2>3 DEF FinalReport
    <2>5. reports[p].cold # None /\ reports[p].cold.by = x.by
      BY <2>2, <2>4 DEF ResumeHolds
    <2> QED BY <2>1, <2>3, <2>5 DEF FinalReport
  <1>2. ASSUME IInv, NEW p \in Plans, reports[p].resume # None,
               reports[p].resume.status = "PASS_PENDING_REVIEW",
               trouble.files = 0, Alone(reports[p].resume.by)
        PROVE  Verdict(p) = "PASS"
    BY <1>2 DEF IInv, FinalReports, FinalReport, Passing, Unharmed
  <1>3. ASSUME IInv, NEW p \in Plans
        PROVE  RecordEvidence(p) # "refused"
    <2>1. Verdict(p) = "raised" \/ reports[p].resume # None
      BY DEF Verdict
    <2> QED BY <1>3, <2>1, InventoryFacts DEF RecordEvidence
  <1>4. IInv => ValidatorAgrees
    BY <1>1, <1>2, <1>3 DEF ValidatorAgrees
  <1> QED BY <1>4, SmokeInvariant, PTL

-----------------------------------------------------------------------------
(* Training and labels.                                                       *)

LEMMA TurnsTrains ==
  ASSUME NEW r \in Runners, NEW pc, NEW F, Turns(r, pc, F), "training" \notin F
  PROVE  Moves(r) /\ run'[r].training = run[r].training
  BY DEF Turns, Same, LocalFields

LEMMA HaltsTrains ==
  ASSUME NEW r \in Runners, NEW how, Halts(r, how)
  PROVE  Moves(r) /\ run'[r].training = {}
  BY DEF Halts, EndsAs, Blank, Same, LocalFields, Idle

\* Runner r moves and trains nothing that it did not train before.
Ceases(r) == Moves(r) /\ run'[r].training \subseteq run[r].training

\* A runner trains more only by launching a worker for an entry that is missing.
LEMMA TrainingGrows ==
  ASSUME TInv, NEW r \in Runners, Step(r)
  PROVE  Ceases(r) \/ (Moves(r) /\ \E c \in Conditions : ~Valid(c))
  <1>1. run \in [Runners -> RunRecords] /\ FilesTyped
    BY DEF TInv
  <1>2. ASSUME NEW pc, NEW F, Turns(r, pc, F), "training" \notin F
        PROVE  Ceases(r)
    BY <1>2, TurnsTrains DEF Ceases
  <1>3. ASSUME NEW how, Halts(r, how)
        PROVE  Ceases(r)
    BY <1>3, HaltsTrains DEF Ceases
  <1>4. Preflight(r) \/ Freeze(r) \/ EnsureNewColdRun(r) => Ceases(r)
    BY <1>1, <1>2, <1>3, PreflightMoves, FreezeMoves, EnsureMoves
  <1>5. ReadExisting(r) \/ Scan(r) \/ Gather(r) => Ceases(r)
    BY <1>1, <1>2, <1>3, ReadExistingMoves, ScanMoves, GatherMoves
  <1>6. ASSUME NEW c \in Conditions, FindPublished(r, c)
        PROVE  Ceases(r)
    BY <1>1, <1>2, <1>6, FindPublishedMoves
  <1>7. ASSUME NEW c \in Conditions, TrainPasses(r, c) \/ TrainFails(r, c)
        PROVE  Ceases(r)
    <2>1. /\ run'[r].training = run[r].training \ {c}
          /\ \E F : Turns(r, "execute", F)
      BY <1>1, <1>7, TrainPassesMoves, TrainFailsMoves
    <2> QED BY <2>1 DEF Turns, Ceases
  <1>8. ASSUME NEW c \in Conditions, Launch(r, c)
        PROVE  Moves(r) /\ ~Valid(c)
    BY <1>1, <1>8, LaunchMoves DEF Turns
  <1>9. ASSUME NEW c \in Conditions,
               CollectFailure(r, c) \/ CollectPredictions(r, c) \/ CollectRaises(r, c)
        PROVE  Ceases(r)
    <2>1. ASSUME NEW x, Collects(r, c, x)
          PROVE  Ceases(r)
      BY <1>2, <2>1 DEF Collects
    <2> QED BY <1>1, <1>3, <1>9, <2>1, CollectFailureMoves, CollectPredictionsMoves, CollectRaisesMoves
  <1>10. ValidateSplit(r) \/ Evaluate(r) \/ Compare(r) => Ceases(r)
    BY <1>1, <1>2, <1>3, ValidateSplitMoves, EvaluateMoves, CompareMoves
  <1>11. ReportCold(r) \/ Snapshot(r) \/ Verify(r) \/ ReportFinal(r) => Ceases(r)
    BY <1>1, <1>2, <1>3, ReportColdMoves, SnapshotMoves, VerifyMoves, ReportFinalMoves
  <1> QED BY <1>4, <1>5, <1>6, <1>7, <1>8, <1>9, <1>10, <1>11 DEF Step

\* Once the metrics are written every entry is valid, and Scheduler.run launches
\* a worker only for one that is not: no model is trained after the labels of
\* the test partition were opened.
THEOREM LabelsEndTraining == Spec => NoTrainingAfterLabels
  <1>1. ASSUME IInv, [Next]_vars, metrics.content # None, trouble.files = 0, NEW q \in Runners
        PROVE  run'[q].training \subseteq run[q].training
    <2>1. run \in [Runners -> RunRecords] /\ FilesTyped /\ TInv
      BY <1>1 DEF IInv, TInv
    <2>2. \A c \in Conditions : Valid(c)
      BY <1>1 DEF IInv, Files, Unharmed
    <2>3. ASSUME NEW r \in Runners, Ceases(r)
          PROVE  run'[q].training \subseteq run[q].training
      BY <2>1, <2>3 DEF Ceases, Moves
    <2>4. ASSUME NEW r \in Runners, Step(r)
          PROVE  run'[q].training \subseteq run[q].training
      BY <2>1, <2>2, <2>3, <2>4, TrainingGrows
    <2>5. ASSUME NEW r \in Runners, Die(r)
          PROVE  run'[q].training \subseteq run[q].training
      BY <2>1, <2>3, <2>5, DieMoves, HaltsTrains DEF Ceases
    <2>6. Harms => run' = run
      BY <2>1, HarmMoves
    <2>7. UNCHANGED vars => run' = run
      BY DEF vars
    <2> QED BY <1>1, <2>4, <2>5, <2>6, <2>7 DEF Next, Environment, Harms
  <1>2. IInv /\ [Next]_vars =>
          [\A r \in Runners : metrics.content # None /\ trouble.files = 0 =>
             run'[r].training \subseteq run[r].training]_vars
    BY <1>1
  <1> QED BY <1>2, SmokeInvariant, PTL DEF Spec, NoTrainingAfterLabels
=============================================================================
