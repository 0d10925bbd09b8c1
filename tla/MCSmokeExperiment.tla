-------------------------- MODULE MCSmokeExperiment --------------------------
\* A small instance of SmokeExperiment: one condition per view; runners and
\* plans are interchangeable.
EXTENDS SmokeExperiment, TLC

CONSTANTS c1, c2

SmokeConditions == {c1, c2}
SmokeViewOf == (c1 :> "V00") @@ (c2 :> "V01")
SmokeSymmetry == Permutations(Runners) \cup Permutations(Plans)
=============================================================================
