------------------------------ MODULE MCDirLock ------------------------------
(* Model checking instance of DirLock. *)
EXTENDS DirLock

=============================================================================
