----------------------------- MODULE MCCacheStore -----------------------------
(* CacheStore on a small instance, with processes and payloads             *)
(* interchangeable.                                                        *)
EXTENDS CacheStore, TLC

StoreSymmetry == Permutations(Procs) \cup Permutations(Payloads)
=============================================================================
