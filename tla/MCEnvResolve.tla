---------------------------- MODULE MCEnvResolve -----------------------------
(* Model checking instances of EnvResolve. *)
EXTENDS EnvResolve, TLC

Symmetry == Permutations(Items)
=============================================================================
