-------------------------- MODULE MCDaemonLifecycle ---------------------------
(* Model checking instances of DaemonLifecycle. *)
EXTENDS DaemonLifecycle, TLC

Symmetry == Permutations(Daemons) \cup Permutations(Inodes)
=============================================================================
