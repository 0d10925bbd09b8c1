----------------------------- MODULE MCAdapters -----------------------------
(* Small instances of Adapters.  Agreement within a tolerance is no        *)
(* equivalence: b1 and b3 both agree with b2, but not with each other.     *)
EXTENDS Adapters, TLC

CONSTANTS b1, b2, b3
MCClose == {<<x, y>> \in Bytes \X Bytes : {x, y} # {b1, b3}}
MCMixes ==
    {{j \in Jobs : j.foundation}, {j \in Jobs : j.program = "classical"},
     {j \in Jobs : j.program = "smoke" /\ ~j.foundation}}
AdapterSymmetry == Permutations(Procs)
=============================================================================
