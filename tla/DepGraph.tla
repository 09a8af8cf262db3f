------------------------------ MODULE DepGraph -------------------------------
(***************************************************************************)
(* Dependency graphs of config items (graphAdjacencyList in                *)
(* packages/varlock/src/env-graph/lib/env-graph.ts): g[k] is the set of    *)
(* items that k refers to.                                                 *)
(***************************************************************************)

(* S and everything it depends on: the least set that contains S and the     *)
(* dependencies of its members.                                              *)
Closure(g, S) ==
  {k \in DOMAIN g :
     \A C \in SUBSET DOMAIN g :
       S \subseteq C /\ (\A c \in C : g[c] \subseteq C) => k \in C}

OnCycle(g, k) == k \in Closure(g, g[k])

(* No cycle within S: some item of every part of S depends on nothing in it. *)
Acyclic(g, S) ==
  \A T \in SUBSET S : T # {} => \E k \in T : g[k] \cap T = {}

(* What a cycle check owes its caller: it marks only items on cycles, and    *)
(* every cycle has a marked item.                                            *)
BreaksCycles(g, marked) ==
  /\ \A k \in marked : OnCycle(g, k)
  /\ Acyclic(g, DOMAIN g \ marked)

=============================================================================
