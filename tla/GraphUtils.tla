----------------------------- MODULE GraphUtils ------------------------------
(***************************************************************************)
(* The graph algorithms of packages/varlock/src/env-graph/lib/             *)
(* graph-utils.ts, one step per turn of their loops: the depth-first       *)
(* search of findGraphCycles and the worklist of getTransitiveDeps.        *)
(* EnvResolve takes what they promise for what they do; here it is shown   *)
(* that they do what they promise, in whatever order the edges come.       *)
(***************************************************************************)
EXTENDS DepGraph, Naturals, Sequences

CONSTANT Nodes

VARIABLES
  call,    \* the function that was called
  graph,   \* its adjacency list
  key,     \* its node: the argument of getTransitiveDeps
  visited, \* nodes reached so far
  path,    \* currentPath: the calls of dfs in progress, with the neighbors left
  marked,  \* nodes of the cycles found so far
  stack    \* nodes getTransitiveDeps has yet to look at

vars == <<call, graph, key, visited, path, marked, stack>>

Functions == {"findGraphCycles", "getTransitiveDeps"}

Init ==
  /\ call \in Functions
  /\ graph \in [Nodes -> SUBSET Nodes]
  /\ key \in Nodes
  /\ visited = {}
  /\ path = <<>>
  /\ marked = {}
  /\ stack = IF call = "getTransitiveDeps" THEN graph[key] ELSE {}

-----------------------------------------------------------------------------
unchangedByDfs == <<call, graph, key, stack>>

Frame(n) == [node |-> n, left |-> graph[n]]

Top == path[Len(path)]

(* recursionStack, the nodes of currentPath *)
OnPath == {path[i].node : i \in DOMAIN path}

(* The neighbor n of the top is taken from those left. *)
Taken(n) == [path EXCEPT ![Len(path)].left = @ \ {n}]

(* dfs(n) for a node that no earlier search has reached *)
Root(n) ==
  /\ call = "findGraphCycles"
  /\ path = <<>>
  /\ n \notin visited
  /\ visited' = visited \cup {n}
  /\ path' = <<Frame(n)>>
  /\ UNCHANGED <<marked, unchangedByDfs>>

(* Mutant: the cycle is taken to start after the node that closes it. *)
CycleAfter(n) ==
  {path[i].node : i \in {i \in DOMAIN path : \E j \in 1..(i - 1) : path[j].node = n}}

(* currentPath.slice(currentPath.indexOf(n)) *)
Cycle(n) ==
  {path[i].node : i \in {i \in DOMAIN path : \E j \in 1..i : path[j].node = n}}

(* dfs(n) for a node in the recursion stack: a cycle *)
BackEdge(n) ==
  /\ path # <<>>
  /\ n \in Top.left
  /\ n \in OnPath
  /\ marked' = marked \cup Cycle(n)
  /\ path' = Taken(n)
  /\ UNCHANGED <<visited, unchangedByDfs>>

(* ... for one that is visited and done with *)
Seen(n) ==
  /\ path # <<>>
  /\ n \in Top.left
  /\ n \in visited \ OnPath
  /\ path' = Taken(n)
  /\ UNCHANGED <<visited, marked, unchangedByDfs>>

(* ... for a new one *)
Descend(n) ==
  /\ path # <<>>
  /\ n \in Top.left
  /\ n \notin visited
  /\ visited' = visited \cup {n}
  /\ path' = Append(Taken(n), Frame(n))
  /\ UNCHANGED <<marked, unchangedByDfs>>

(* The end of a call of dfs *)
Leave ==
  /\ path # <<>>
  /\ Top.left = {}
  /\ path' = SubSeq(path, 1, Len(path) - 1)
  /\ UNCHANGED <<visited, marked, unchangedByDfs>>

-----------------------------------------------------------------------------
(* Mutant: the dependencies of a node are not looked at in their turn. *)
PopLeaf(n) ==
  /\ n \in stack
  /\ visited' = visited \cup {n}
  /\ stack' = stack \ {n}
  /\ UNCHANGED <<call, graph, key, path, marked>>

(* Mutant: the list of dependencies is pushed instead of its elements. *)
PopNested(n) ==
  /\ n \in stack
  /\ visited' = visited \cup {n}
  /\ stack' = IF n \in visited THEN stack \ {n} ELSE (stack \ {n}) \cup {graph[n]}
  /\ UNCHANGED <<call, graph, key, path, marked>>

(* Mutant: a node is looked at again whenever it comes off the stack. *)
PopAgain(n) ==
  /\ n \in stack
  /\ visited' = visited \cup {n}
  /\ stack' = (stack \ {n}) \cup graph[n]
  /\ UNCHANGED <<call, graph, key, path, marked>>

(* getTransitiveDeps: the next node off the stack (as a set: the code pushes *)
(* a node again for every edge to it and ignores all but the first)          *)
Pop(n) ==
  /\ n \in stack
  /\ visited' = visited \cup {n}
  /\ stack' = IF n \in visited THEN stack \ {n} ELSE (stack \ {n}) \cup graph[n]
  /\ UNCHANGED <<call, graph, key, path, marked>>

Next ==
  \/ \E n \in Nodes : Root(n) \/ BackEdge(n) \/ Seen(n) \/ Descend(n) \/ Pop(n)
  \/ Leave

Spec == Init /\ [][Next]_vars /\ WF_vars(Next)

-----------------------------------------------------------------------------
TypeOK ==
  /\ call \in Functions
  /\ graph \in [Nodes -> SUBSET Nodes]
  /\ key \in Nodes
  /\ visited \subseteq Nodes
  /\ path \in Seq([node : Nodes, left : SUBSET Nodes])
  /\ marked \subseteq Nodes
  /\ stack \subseteq Nodes

SearchDone == call = "findGraphCycles" /\ path = <<>> /\ visited = Nodes
DepsDone == call = "getTransitiveDeps" /\ stack = {}

(* findGraphCycles stops at the first cycle an edge closes and never walks a *)
(* node twice, so it does not list all cycles; but a node it lists is on a   *)
(* cycle, and no cycle is left when the nodes it lists are taken out.        *)
CyclesBroken == SearchDone => BreaksCycles(graph, marked)

(* getTransitiveDeps returns, of the other nodes, all and only those that    *)
(* can be reached from the node, whatever the order of the stack.            *)
DepsComplete == DepsDone => visited \ {key} = Closure(graph, graph[key]) \ {key}

(* Its doc comment (graph-utils.ts:4): "all transitive dependencies of a     *)
(* given node (not including the node itself)".                              *)
DepsExcludeNode == DepsDone => key \notin visited

(* Both functions return on every graph, cyclic ones included. *)
Terminates == <>(SearchDone \/ DepsDone)

=============================================================================
