---------------------------- MODULE MCGraphUtils -----------------------------
(* Model checking instance of GraphUtils: every graph of the given nodes. *)
EXTENDS GraphUtils
=============================================================================
