---------------------------- MODULE MCCacheStore -----------------------------
(* Model checking instance of CacheStore. *)
EXTENDS CacheStore, TLC

Symmetry == Permutations(Procs)
=============================================================================
