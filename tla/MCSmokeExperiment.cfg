\* Two runners, two plans that share their cache keys, one named event.
CONSTANTS
  Runners = {r1, r2}
  Plans = {p1, p2}
  c1 = c1
  c2 = c2
  Conditions <- SmokeConditions
  ViewOf <- SmokeViewOf
  MaxTrouble = 1
  None = None
  Damaged = Damaged
  Foreign = Foreign
SPECIFICATION Spec
INVARIANTS ColdPassIsCold FinalPassIsSound UndisturbedRunReports ValidatorAgrees
PROPERTY NoTrainingAfterLabels
SYMMETRY SmokeSymmetry
CHECK_DEADLOCK FALSE
