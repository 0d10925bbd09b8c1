----------------------------- MODULE MCDataChain -----------------------------
(* Symmetry of the processes of DataChain.                                  *)
EXTENDS DataChain, TLC
ChainSymmetry == Permutations(Procs)
=============================================================================
