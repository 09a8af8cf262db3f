---------------------------- MODULE MCDaemonCalls -----------------------------
(* Model checking instances of DaemonCalls. *)
EXTENDS DaemonCalls
=============================================================================
