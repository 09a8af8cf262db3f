-------------------------- MODULE GraphUtilsProofs ---------------------------
(* Proofs about GraphUtils and the operators of DepGraph, for every finite   *)
(* or infinite set of nodes.                                                 *)
EXTENDS GraphUtils, TLAPS

-----------------------------------------------------------------------------
(* What Closure is: it contains S, is closed under the edges, and lies in    *)
(* every closed set that contains S.                                         *)
LEMMA ClosureContains ==
  ASSUME NEW g, NEW S \in SUBSET DOMAIN g
  PROVE  S \subseteq Closure(g, S)
BY DEF Closure

LEMMA ClosureClosed ==
  ASSUME NEW N, NEW g \in [N -> SUBSET N], NEW S, NEW k \in Closure(g, S)
  PROVE  g[k] \subseteq Closure(g, S)
<1>1. SUFFICES ASSUME NEW d \in g[k],
                      NEW C \in SUBSET DOMAIN g,
                      S \subseteq C, \A c \in C : g[c] \subseteq C
               PROVE  d \in C
  BY DEF Closure
<1>2. k \in C
  BY <1>1 DEF Closure
<1> QED
  BY <1>1, <1>2

LEMMA ClosureLeast ==
  ASSUME NEW g, NEW S, NEW C \in SUBSET DOMAIN g,
         S \subseteq C, \A c \in C : g[c] \subseteq C
  PROVE  Closure(g, S) \subseteq C
BY DEF Closure

(* What a node leads to leads on. *)
LEMMA ClosureTransitive ==
  ASSUME NEW N, NEW g \in [N -> SUBSET N], NEW S, NEW k \in Closure(g, S)
  PROVE  Closure(g, g[k]) \subseteq Closure(g, S)
<1>1. /\ Closure(g, S) \in SUBSET DOMAIN g
      /\ \A c \in Closure(g, S) : g[c] \subseteq Closure(g, S)
  BY ClosureClosed DEF Closure
<1>2. g[k] \subseteq Closure(g, S)
  BY ClosureClosed
<1> QED
  BY <1>1, <1>2, ClosureLeast

-----------------------------------------------------------------------------
(* The calls of dfs in progress, and what is known of one. *)
Frames == [node : Nodes, left : SUBSET Nodes]

LEMMA TopFrame ==
  ASSUME NEW F, NEW s \in Seq(F), s # <<>>
  PROVE  Len(s) \in 1..Len(s) /\ s[Len(s)] \in F
OBVIOUS

LEMMA NodeOnPath ==
  ASSUME path \in Seq(Frames), NEW i \in DOMAIN path
  PROVE  path[i].node \in Nodes /\ path[i].left \subseteq Nodes
<1>1. path[i] \in Frames
  OBVIOUS
<1> QED
  BY <1>1 DEF Frames

LEMMA TypeInit == Init => TypeOK
BY DEF Init, TypeOK, Functions

LEMMA TypeNext == TypeOK /\ [Next]_vars => TypeOK'
<1> SUFFICES ASSUME TypeOK, [Next]_vars PROVE TypeOK'
  OBVIOUS
<1> USE DEF TypeOK, unchangedByDfs
<1>s. path \in Seq(Frames)
  BY DEF Frames
<1>t. ASSUME NEW n PROVE path # <<>> => Taken(n) \in Seq(Frames)
  <2> SUFFICES ASSUME path # <<>> PROVE Taken(n) \in Seq(Frames)
    OBVIOUS
  <2>1. Len(path) \in 1..Len(path) /\ Top \in Frames
    BY <1>s, TopFrame DEF Top
  <2>2. [Top EXCEPT !.left = @ \ {n}] \in Frames
    BY <2>1 DEF Frames
  <2>3. Taken(n) = [path EXCEPT ![Len(path)] = [Top EXCEPT !.left = @ \ {n}]]
    BY <2>1 DEF Taken, Top
  <2> QED
    BY <1>s, <2>1, <2>2, <2>3
<1>f. ASSUME NEW n \in Nodes PROVE Frame(n) \in Frames
  BY DEF Frame, Frames
<1>1. ASSUME NEW n \in Nodes, Root(n) PROVE TypeOK'
  <2>1. path' \in Seq(Frames)
    BY <1>1, <1>f DEF Root
  <2> QED
    BY <1>1, <2>1 DEF Root, Frames
<1>2. ASSUME NEW n \in Nodes, BackEdge(n) PROVE TypeOK'
  <2>1. Cycle(n) \subseteq Nodes
    BY <1>s, NodeOnPath DEF Cycle
  <2> QED
    BY <1>2, <1>t, <2>1 DEF BackEdge, Frames
<1>3. ASSUME NEW n \in Nodes, Seen(n) PROVE TypeOK'
  BY <1>3, <1>t DEF Seen, Frames
<1>4. ASSUME NEW n \in Nodes, Descend(n) PROVE TypeOK'
  <2>1. path' \in Seq(Frames)
    BY <1>4, <1>t, <1>f DEF Descend
  <2> QED
    BY <1>4, <2>1 DEF Descend, Frames
<1>5. ASSUME NEW n \in Nodes, Pop(n) PROVE TypeOK'
  BY <1>5 DEF Pop
<1>6. ASSUME Leave PROVE TypeOK'
  <2>1. path' \in Seq(Frames)
    BY <1>6, <1>s DEF Leave
  <2> QED
    BY <1>6, <2>1 DEF Leave, Frames
<1>7. ASSUME UNCHANGED vars PROVE TypeOK'
  BY <1>7 DEF vars
<1> QED
  BY <1>1, <1>2, <1>3, <1>4, <1>5, <1>6, <1>7 DEF Next

(* The state has the types of TypeOK.                                        *)
THEOREM TypeCorrect == Spec => []TypeOK
BY TypeInit, TypeNext, PTL DEF Spec

-----------------------------------------------------------------------------
(* getTransitiveDeps: what is visited or on the stack can be reached, and    *)
(* what follows a visited node is visited or on the stack.                   *)
DepsInv ==
  call = "getTransitiveDeps" =>
    /\ path = <<>>
    /\ visited \cup stack \subseteq Closure(graph, graph[key])
    /\ graph[key] \subseteq visited \cup stack
    /\ \A v \in visited : graph[v] \subseteq visited \cup stack

LEMMA DepsInvInit == Init => DepsInv
<1> SUFFICES ASSUME Init, call = "getTransitiveDeps" PROVE DepsInv
  BY DEF DepsInv
<1>1. graph[key] \in SUBSET DOMAIN graph
  BY DEF Init
<1>2. graph[key] \subseteq Closure(graph, graph[key])
  BY <1>1, ClosureContains
<1> QED
  BY <1>2 DEF Init, DepsInv

LEMMA DepsInvNext == TypeOK /\ DepsInv /\ [Next]_vars => DepsInv'
<1> SUFFICES ASSUME TypeOK, DepsInv, [Next]_vars, call = "getTransitiveDeps"
             PROVE  DepsInv'
  BY DEF DepsInv, Next, vars, Root, BackEdge, Seen, Descend, Leave, Pop, unchangedByDfs
<1>1. ASSUME NEW n \in Nodes, Pop(n) PROVE DepsInv'
  <2>1. n \in Closure(graph, graph[key])
    BY <1>1 DEF Pop, DepsInv
  <2>2. graph[n] \subseteq Closure(graph, graph[key])
    BY <2>1, ClosureClosed DEF TypeOK
  <2>3. /\ graph' = graph /\ key' = key /\ path' = path
        /\ visited' = visited \cup {n}
        /\ stack' \subseteq stack \cup graph[n]
        /\ stack \ {n} \subseteq stack'
    BY <1>1 DEF Pop
  <2>4. graph[n] \subseteq visited' \cup stack'
    <3>1. CASE n \in visited
      BY <3>1, <2>3, <1>1 DEF DepsInv
    <3>2. CASE n \notin visited
      BY <3>2, <1>1 DEF Pop
    <3> QED
      BY <3>1, <3>2
  <2>5. visited \cup stack \subseteq visited' \cup stack'
    BY <2>3
  <2> QED
    BY <2>1, <2>2, <2>3, <2>4, <2>5 DEF DepsInv
<1>2. CASE UNCHANGED vars
  BY <1>2 DEF vars, DepsInv
<1>3. ~(\E n \in Nodes : Root(n) \/ BackEdge(n) \/ Seen(n) \/ Descend(n)) /\ ~Leave
  BY DEF DepsInv, Root, BackEdge, Seen, Descend, Leave
<1> QED
  BY <1>1, <1>2, <1>3 DEF Next

(* Of the other nodes, getTransitiveDeps returns exactly those that can be   *)
(* reached from the node.                                                    *)
THEOREM DepsCompleteTheorem == Spec => []DepsComplete
<1>1. TypeOK /\ DepsInv => DepsComplete
  <2> SUFFICES ASSUME TypeOK, DepsInv, DepsDone
               PROVE  visited = Closure(graph, graph[key])
    BY DEF DepsComplete
  <2>1. visited \in SUBSET DOMAIN graph
    BY DEF TypeOK
  <2>2. graph[key] \subseteq visited /\ \A v \in visited : graph[v] \subseteq visited
    BY DEF DepsInv, DepsDone
  <2>3. Closure(graph, graph[key]) \subseteq visited
    BY <2>1, <2>2, ClosureLeast
  <2> QED
    BY <2>3 DEF DepsInv, DepsDone
<1> QED
  BY <1>1, TypeInit, TypeNext, DepsInvInit, DepsInvNext, PTL DEF Spec

-----------------------------------------------------------------------------
(* findGraphCycles. A node is finished when its call of dfs has returned.    *)
Finished == visited \ OnPath

(* The path is a path of the graph, of visited nodes, none of them twice.    *)
PathInv ==
  /\ OnPath \subseteq visited
  /\ \A i \in DOMAIN path : path[i].left \subseteq graph[path[i].node]
  /\ \A i, j \in DOMAIN path : path[i].node = path[j].node => i = j
  /\ \A i, j \in DOMAIN path :
       i < j => path[j].node \in Closure(graph, graph[path[i].node])

(* Where an edge leads that a call of dfs is done with: to a finished node,  *)
(* to the next call, or back up the path, and then the cycle is marked.      *)
Back(i, n) ==
  \E j \in 1..i : /\ n = path[j].node
                 /\ \A m \in j..i : path[m].node \in marked

EdgeInv ==
  \A i \in DOMAIN path : \A n \in graph[path[i].node] \ path[i].left :
    \/ n \in Finished
    \/ i < Len(path) /\ n = path[i + 1].node
    \/ Back(i, n)

(* An unmarked finished node leads to finished nodes only, and the unmarked  *)
(* finished nodes are free of cycles.                                        *)
FinishedInv ==
  /\ \A n \in Finished \ marked : graph[n] \subseteq Finished
  /\ Acyclic(graph, Finished \ marked)

MarkedInv ==
  /\ marked \subseteq visited
  /\ \A n \in marked : OnCycle(graph, n)

SearchInv ==
  call = "findGraphCycles" =>
    stack = {} /\ PathInv /\ EdgeInv /\ FinishedInv /\ MarkedInv

LEMMA SearchInvInit == Init => SearchInv
BY DEF Init, SearchInv, PathInv, EdgeInv, FinishedInv, MarkedInv, OnPath,
       Finished, Acyclic

(* Taking a neighbor changes only what is left to the top of the path.       *)
LEMMA TakenType ==
  ASSUME TypeOK, path # <<>>, NEW n
  PROVE  Taken(n) \in Seq(Frames)
<1>1. path \in Seq(Frames)
  BY DEF TypeOK, Frames
<1>2. Len(path) \in 1..Len(path) /\ Top \in Frames
  BY <1>1, TopFrame DEF Top
<1>3. [Top EXCEPT !.left = @ \ {n}] \in Frames
  BY <1>2 DEF Frames
<1>4. Taken(n) = [path EXCEPT ![Len(path)] = [Top EXCEPT !.left = @ \ {n}]]
  BY <1>2 DEF Taken, Top
<1> QED
  BY <1>1, <1>2, <1>3, <1>4

LEMMA TakenFrames ==
  ASSUME TypeOK, path # <<>>, NEW n
  PROVE  /\ Len(path) \in Nat \ {0}
         /\ DOMAIN path = 1..Len(path)
         /\ Len(Taken(n)) = Len(path)
         /\ DOMAIN Taken(n) = DOMAIN path
         /\ \A i \in DOMAIN path :
              /\ Taken(n)[i].node = path[i].node
              /\ Taken(n)[i].left =
                   IF i = Len(path) THEN path[i].left \ {n} ELSE path[i].left
<1>1. path \in Seq(Frames)
  BY DEF TypeOK, Frames
<1>2. Len(path) \in 1..Len(path) /\ path[Len(path)] \in Frames
  BY <1>1, TopFrame
<1>3. DOMAIN path = 1..Len(path) /\ Len(path) \in Nat \ {0}
  BY <1>1, <1>2
<1>4. Taken(n) = [path EXCEPT ![Len(path)] =
                   [path[Len(path)] EXCEPT !.left = @ \ {n}]]
  BY <1>2 DEF Taken
<1>5. /\ [path[Len(path)] EXCEPT !.left = @ \ {n}].node = path[Len(path)].node
      /\ [path[Len(path)] EXCEPT !.left = @ \ {n}].left = path[Len(path)].left \ {n}
      /\ [path[Len(path)] EXCEPT !.left = @ \ {n}] \in Frames
  BY <1>2 DEF Frames
<1>6. Taken(n) \in Seq(Frames) /\ Len(Taken(n)) = Len(path)
  BY <1>1, <1>2, <1>4, <1>5
<1> QED
  BY <1>2, <1>3, <1>4, <1>5, <1>6

LEMMA PathNodes ==
  ASSUME TypeOK
  PROVE  /\ Len(path) \in Nat
         /\ DOMAIN path = 1..Len(path)
         /\ \A i \in DOMAIN path : path[i].node \in Nodes
<1>1. path \in Seq(Frames)
  BY DEF TypeOK, Frames
<1> QED
  BY <1>1, NodeOnPath

(* The first node of a search *)
LEMMA RootKeeps ==
  ASSUME TypeOK, SearchInv, NEW n \in Nodes, Root(n)
  PROVE  SearchInv'
<1> SUFFICES /\ PathInv /\ EdgeInv /\ FinishedInv /\ MarkedInv
             => PathInv' /\ EdgeInv' /\ FinishedInv' /\ MarkedInv'
  BY DEF SearchInv, Root, unchangedByDfs
<1>1. /\ DOMAIN path = {} /\ path' = <<Frame(n)>> /\ DOMAIN path' = {1}
      /\ path'[1].node = n /\ path'[1].left = graph[n] /\ Len(path') = 1
  BY DEF Root, Frame
<1>2. /\ graph' = graph /\ marked' = marked /\ visited' = visited \cup {n}
      /\ n \notin visited
  BY DEF Root, unchangedByDfs
<1>3. OnPath = {} /\ OnPath' = {n}
  BY <1>1 DEF OnPath
<1>4. Finished' = Finished
  BY <1>2, <1>3 DEF Finished
<1>5. PathInv'
  BY <1>1, <1>2, <1>3 DEF PathInv
<1>6. EdgeInv'
  BY <1>1, <1>2 DEF EdgeInv
<1>7. FinishedInv /\ MarkedInv => FinishedInv' /\ MarkedInv'
  BY <1>2, <1>4 DEF FinishedInv, MarkedInv
<1> QED
  BY <1>5, <1>6, <1>7

(* A neighbor that is finished *)
LEMMA SeenKeeps ==
  ASSUME TypeOK, SearchInv, NEW n \in Nodes, Seen(n)
  PROVE  SearchInv'
<1> SUFFICES ASSUME call = "findGraphCycles", PathInv, EdgeInv, FinishedInv, MarkedInv
             PROVE  PathInv' /\ EdgeInv' /\ FinishedInv' /\ MarkedInv'
  BY DEF SearchInv, Seen, unchangedByDfs
<1>1. /\ path # <<>> /\ path' = Taken(n) /\ n \in Finished
      /\ graph' = graph /\ marked' = marked /\ visited' = visited
  BY DEF Seen, unchangedByDfs, Finished
<1>2. /\ Len(path') = Len(path) /\ DOMAIN path' = DOMAIN path
      /\ DOMAIN path = 1..Len(path) /\ Len(path) \in Nat
      /\ \A i \in DOMAIN path :
           /\ path'[i].node = path[i].node
           /\ path[i].left \ {n} \subseteq path'[i].left
           /\ path'[i].left \subseteq path[i].left
  BY <1>1, TakenFrames
<1>3. OnPath' = OnPath
  BY <1>2 DEF OnPath
<1>4. Finished' = Finished
  BY <1>1, <1>3 DEF Finished
<1>5. PathInv'
  BY <1>1, <1>2, <1>3 DEF PathInv
<1>6. EdgeInv'
  <2> SUFFICES ASSUME NEW i \in DOMAIN path,
                      NEW e \in graph[path[i].node] \ path'[i].left
               PROVE  \/ e \in Finished
                      \/ i < Len(path) /\ e = path[i + 1].node
                      \/ Back(i, e)'
    BY <1>1, <1>2, <1>4 DEF EdgeInv
  <2>1. Back(i, e) => Back(i, e)'
    BY <1>1, <1>2 DEF Back
  <2>2. CASE e = n
    BY <2>2, <1>1
  <2>3. CASE e # n
    BY <2>1, <2>3, <1>2 DEF EdgeInv
  <2> QED
    BY <2>2, <2>3
<1>7. FinishedInv' /\ MarkedInv'
  BY <1>1, <1>4 DEF FinishedInv, MarkedInv
<1> QED
  BY <1>5, <1>6, <1>7

(* A neighbor on the path: the nodes from it to the top are on a cycle.      *)
LEMMA BackEdgeKeeps ==
  ASSUME TypeOK, SearchInv, NEW n \in Nodes, BackEdge(n)
  PROVE  SearchInv'
<1> SUFFICES ASSUME call = "findGraphCycles", PathInv, EdgeInv, FinishedInv, MarkedInv
             PROVE  PathInv' /\ EdgeInv' /\ FinishedInv' /\ MarkedInv'
  BY DEF SearchInv, BackEdge, unchangedByDfs
<1>1. /\ path # <<>> /\ path' = Taken(n) /\ n \in OnPath
      /\ graph' = graph /\ marked' = marked \cup Cycle(n) /\ visited' = visited
  BY DEF BackEdge, unchangedByDfs
<1>2. /\ Len(path') = Len(path) /\ DOMAIN path' = DOMAIN path
      /\ DOMAIN path = 1..Len(path) /\ Len(path) \in Nat \ {0}
      /\ \A i \in DOMAIN path :
           /\ path'[i].node = path[i].node
           /\ path[i].left \ {n} \subseteq path'[i].left
           /\ path'[i].left \subseteq path[i].left
           /\ i # Len(path) => path'[i].left = path[i].left
  BY <1>1, TakenFrames
<1>3. OnPath' = OnPath
  BY <1>2 DEF OnPath
<1>4. Finished' = Finished
  BY <1>1, <1>3 DEF Finished
<1>5. PathInv'
  BY <1>1, <1>2, <1>3 DEF PathInv
<1>6. EdgeInv'
  <2> SUFFICES ASSUME NEW i \in DOMAIN path,
                      NEW e \in graph[path[i].node] \ path'[i].left
               PROVE  \/ e \in Finished
                      \/ i < Len(path) /\ e = path[i + 1].node
                      \/ Back(i, e)'
    BY <1>1, <1>2, <1>4 DEF EdgeInv
  <2>1. Back(i, e) => Back(i, e)'
    BY <1>1, <1>2 DEF Back
  <2>2. CASE e \in path[i].left
    <3>1. e = n /\ i = Len(path)
      BY <2>2, <1>2
    <3>2. PICK j \in 1..i : path[j].node = n
      BY <3>1, <1>1, <1>2 DEF OnPath
    <3>3. \A m \in j..i : path[m].node \in Cycle(n)
      BY <3>1, <3>2, <1>2 DEF Cycle
    <3> QED
      BY <3>1, <3>2, <3>3, <1>1, <1>2 DEF Back
  <2>3. CASE e \notin path[i].left
    BY <2>1, <2>3, <1>2 DEF EdgeInv
  <2> QED
    BY <2>2, <2>3
<1>7. FinishedInv'
  <2>1. Finished \ marked' \subseteq Finished \ marked
    BY <1>1
  <2> QED
    BY <2>1, <1>1, <1>4 DEF FinishedInv, Acyclic
<1>8. ASSUME NEW k \in Cycle(n) PROVE k \in visited /\ OnCycle(graph, k)
  <2>1. PICK i \in DOMAIN path : k = path[i].node /\ \E j \in 1..i : path[j].node = n
    BY <1>8 DEF Cycle
  <2>2. PICK j \in 1..i : path[j].node = n
    BY <2>1
  <2> DEFINE t == path[Len(path)].node
  <2>3. /\ Len(path) \in DOMAIN path /\ j \in DOMAIN path
        /\ k \in Nodes /\ t \in Nodes /\ n \in graph[t]
    BY <1>2, <2>1, PathNodes DEF BackEdge, Top, PathInv
  <2>4. graph[k] \in SUBSET DOMAIN graph /\ graph \in [Nodes -> SUBSET Nodes]
    BY <2>3 DEF TypeOK
  <2>5. n \in Closure(graph, graph[k])
    <3>1. CASE i = Len(path)
      BY <3>1, <2>1, <2>3, <2>4, ClosureContains
    <3>2. CASE i # Len(path)
      <4>1. t \in Closure(graph, graph[k])
        BY <3>2, <1>2, <2>1, <2>3 DEF PathInv
      <4> QED
        BY <4>1, <2>3, <2>4, ClosureClosed
    <3> QED
      BY <3>1, <3>2
  <2>6. k \in Closure(graph, graph[k])
    <3>1. CASE i = j
      BY <3>1, <2>1, <2>2, <2>5
    <3>2. CASE i # j
      <4>1. k \in Closure(graph, graph[n])
        BY <3>2, <1>2, <2>1, <2>2, <2>3 DEF PathInv
      <4> QED
        BY <4>1, <2>4, <2>5, ClosureTransitive
    <3> QED
      BY <3>1, <3>2
  <2> QED
    BY <2>1, <2>6 DEF OnCycle, PathInv, OnPath
<1>9. MarkedInv'
  BY <1>1, <1>8 DEF MarkedInv
<1> QED
  BY <1>5, <1>6, <1>7, <1>9

(* A new neighbor *)
LEMMA DescendKeeps ==
  ASSUME TypeOK, SearchInv, NEW n \in Nodes, Descend(n)
  PROVE  SearchInv'
<1> SUFFICES ASSUME call = "findGraphCycles", PathInv, EdgeInv, FinishedInv, MarkedInv
             PROVE  PathInv' /\ EdgeInv' /\ FinishedInv' /\ MarkedInv'
  BY DEF SearchInv, Descend, unchangedByDfs
<1> DEFINE L == Len(path)
<1> HIDE DEF L
<1>1. /\ path # <<>> /\ path' = Append(Taken(n), Frame(n)) /\ n \notin visited
      /\ n \in path[L].left
      /\ graph' = graph /\ marked' = marked /\ visited' = visited \cup {n}
  BY DEF Descend, unchangedByDfs, Top, L
<1>2. /\ DOMAIN path = 1..L /\ L \in Nat \ {0}
      /\ Taken(n) \in Seq(Frames) /\ Frame(n) \in Frames
      /\ Len(Taken(n)) = L
      /\ \A i \in DOMAIN path :
           /\ Taken(n)[i].node = path[i].node
           /\ path[i].left \ {n} \subseteq Taken(n)[i].left
           /\ Taken(n)[i].left \subseteq path[i].left
           /\ i # L => Taken(n)[i].left = path[i].left
  <2>1. Taken(n) \in Seq(Frames)
    BY <1>1, TakenType
  <2>2. Frame(n) \in Frames
    BY DEF Frame, Frames, TypeOK
  <2> QED
    BY <1>1, <2>1, <2>2, TakenFrames DEF L
<1>3. /\ Len(path') = L + 1 /\ DOMAIN path' = DOMAIN path \cup {L + 1}
      /\ L + 1 \notin DOMAIN path
      /\ path'[L + 1].node = n /\ path'[L + 1].left = graph[n]
      /\ \A i \in DOMAIN path :
           /\ i \in 1..L
           /\ path'[i].node = path[i].node
           /\ path[i].left \ {n} \subseteq path'[i].left
           /\ path'[i].left \subseteq path[i].left
           /\ i # L => path'[i].left = path[i].left
  <2>1. path' \in Seq(Frames) /\ Len(path') = L + 1
    BY <1>1, <1>2
  <2>2. path'[L + 1] = Frame(n) /\ \A i \in 1..L : path'[i] = Taken(n)[i]
    BY <1>1, <1>2
  <2>3. DOMAIN path' = 1..(L + 1)
    BY <2>1
  <2>4. 1..(L + 1) = (1..L) \cup {L + 1} /\ L + 1 \notin 1..L
    BY <1>2
  <2>5. path'[L + 1].node = n /\ path'[L + 1].left = graph[n]
    BY <2>2 DEF Frame
  <2> QED
    BY <1>2, <2>1, <2>2, <2>3, <2>4, <2>5
<1>4. OnPath' = OnPath \cup {n}
  BY <1>3 DEF OnPath
<1>5. Finished' = Finished
  BY <1>1, <1>4 DEF Finished
<1>6. PathInv'
  <2>1. OnPath' \subseteq visited'
    BY <1>1, <1>4 DEF PathInv
  <2>2. \A i \in DOMAIN path' : path'[i].left \subseteq graph[path'[i].node]
    BY <1>2, <1>3 DEF PathInv
  <2>3. \A i \in DOMAIN path : path[i].node # n
    BY <1>1 DEF PathInv, OnPath
  <2>4. \A i, j \in DOMAIN path' : path'[i].node = path'[j].node => i = j
    BY <1>2, <1>3, <2>3 DEF PathInv
  <2>5. ASSUME NEW i \in DOMAIN path, NEW j \in DOMAIN path', i < j
        PROVE  path'[j].node \in Closure(graph, graph[path[i].node])
    <3>1. CASE j # L + 1
      <4>1. j \in DOMAIN path
        BY <3>1, <1>3
      <4> QED
        BY <4>1, <2>5, <1>3 DEF PathInv
    <3>2. CASE j = L + 1
      <4>1. L \in DOMAIN path /\ n \in graph[path[L].node]
        BY <1>1, <1>2 DEF PathInv
      <4>2. path[i].node \in Nodes
        BY PathNodes
      <4>3. graph \in [Nodes -> SUBSET Nodes] /\ graph[path[i].node] \in SUBSET DOMAIN graph
        BY <4>2 DEF TypeOK
      <4>4. CASE i = L
        BY <4>1, <4>3, <4>4, <3>2, <1>3, ClosureContains
      <4>5. CASE i # L
        <5>1. path[L].node \in Closure(graph, graph[path[i].node])
          BY <4>1, <4>5, <1>2 DEF PathInv
        <5> QED
          BY <5>1, <4>1, <4>3, <3>2, <1>3, ClosureClosed
      <4> QED
        BY <4>4, <4>5
    <3> QED
      BY <3>1, <3>2
  <2>6. \A i, j \in DOMAIN path' : i < j => i \in DOMAIN path
    <3>1. \A j \in DOMAIN path : ~(L + 1 < j) /\ ~(L + 1 < L + 1)
      BY <1>2, <1>3
    <3> QED
      BY <1>3, <3>1
  <2> QED
    BY <2>1, <2>2, <2>4, <2>5, <2>6, <1>1, <1>2, <1>3 DEF PathInv
<1>7. EdgeInv'
  <2> SUFFICES ASSUME NEW i \in DOMAIN path',
                      NEW e \in graph[path'[i].node] \ path'[i].left
               PROVE  \/ e \in Finished
                      \/ i < L + 1 /\ e = path'[i + 1].node
                      \/ Back(i, e)'
    BY <1>1, <1>3, <1>5 DEF EdgeInv
  <2>1. i \in 1..L
    <3>1. i # L + 1
      BY <1>3
    <3> QED
      BY <3>1, <1>3
  <2>2. Back(i, e) => Back(i, e)'
    BY <1>1, <1>2, <1>3, <2>1 DEF Back
  <2>3. CASE e = n /\ i = L
    BY <2>3, <1>2, <1>3
  <2>4. CASE ~(e = n /\ i = L)
    <3>1. e \in graph[path[i].node] \ path[i].left
      BY <2>1, <2>4, <1>2, <1>3
    <3>2. \/ e \in Finished
          \/ i < L /\ e = path[i + 1].node
          \/ Back(i, e)
      BY <3>1, <2>1, <1>2 DEF EdgeInv
    <3>3. i < L => path'[i + 1].node = path[i + 1].node
      <4>1. i < L => i + 1 \in DOMAIN path
        BY <2>1, <1>2
      <4> QED
        BY <4>1, <1>3
    <3> QED
      BY <3>2, <3>3, <2>1, <2>2, <1>2
  <2> QED
    BY <2>3, <2>4
<1>8. FinishedInv' /\ MarkedInv'
  BY <1>1, <1>5 DEF FinishedInv, MarkedInv
<1> QED
  BY <1>6, <1>7, <1>8

(* The node at the top is finished. If it is unmarked, all its edges lead to *)
(* nodes that were finished before it, so it closes no cycle.                *)
LEMMA LeaveKeeps ==
  ASSUME TypeOK, SearchInv, Leave
  PROVE  SearchInv'
<1> SUFFICES ASSUME call = "findGraphCycles", PathInv, EdgeInv, FinishedInv, MarkedInv
             PROVE  PathInv' /\ EdgeInv' /\ FinishedInv' /\ MarkedInv'
  BY DEF SearchInv, Leave, unchangedByDfs
<1> DEFINE L == Len(path)
           t == path[L].node
<1>1. /\ path # <<>> /\ path' = SubSeq(path, 1, L - 1) /\ path[L].left = {}
      /\ graph' = graph /\ marked' = marked /\ visited' = visited
  BY DEF Leave, unchangedByDfs, Top
<1>2. path \in Seq(Frames) /\ L \in Nat \ {0} /\ L \in DOMAIN path /\ DOMAIN path = 1..L
  <2>1. path \in Seq(Frames)
    BY DEF TypeOK, Frames
  <2>2. L \in 1..L
    BY <1>1, <2>1, TopFrame
  <2> QED
    BY <2>1, <2>2
<1>3. /\ DOMAIN path = DOMAIN path' \cup {L} /\ L \notin DOMAIN path'
      /\ Len(path') = L - 1 /\ DOMAIN path' = 1..(L - 1)
      /\ \A i \in DOMAIN path' : path'[i] = path[i]
  BY <1>1, <1>2
<1> HIDE DEF L
<1>4. OnPath' = OnPath \ {t} /\ t \in OnPath
  <2>1. \A i \in DOMAIN path' : path[i].node # t
    BY <1>2, <1>3 DEF PathInv
  <2> QED
    BY <1>2, <1>3, <2>1 DEF OnPath
<1>5. Finished' = Finished \cup {t} /\ t \in visited /\ t \notin Finished
  BY <1>1, <1>4 DEF Finished, PathInv
<1>6. PathInv'
  <2>1. (OnPath \subseteq visited)'
    BY <1>1, <1>4 DEF PathInv
  <2>2. \A i \in DOMAIN path' : path'[i].left \subseteq graph[path'[i].node]
    BY <1>3 DEF PathInv
  <2>3. \A i, j \in DOMAIN path' : path'[i].node = path'[j].node => i = j
    BY <1>3 DEF PathInv
  <2>4. \A i, j \in DOMAIN path' :
          i < j => path'[j].node \in Closure(graph, graph[path'[i].node])
    BY <1>3 DEF PathInv
  <2> HIDE DEF t
  <2> QED
    BY <1>1, <2>1, <2>2, <2>3, <2>4 DEF PathInv
<1>7. EdgeInv'
  <2> SUFFICES ASSUME NEW i \in DOMAIN path',
                      NEW e \in graph[path[i].node] \ path[i].left
               PROVE  \/ e \in Finished'
                      \/ i < L - 1 /\ e = path'[i + 1].node
                      \/ Back(i, e)'
    BY <1>1, <1>3 DEF EdgeInv
  <2>1. \/ e \in Finished
        \/ i < Len(path) /\ e = path[i + 1].node
        \/ Back(i, e)
    BY <1>3 DEF EdgeInv
  <2>2. Back(i, e) => Back(i, e)'
    <3>1. 1..i \subseteq DOMAIN path' /\ \A j \in 1..i : j..i \subseteq DOMAIN path'
      BY <1>2, <1>3
    <3> QED
      BY <3>1, <1>1, <1>3 DEF Back
  <2>3. ASSUME e = path[i + 1].node
        PROVE  \/ e \in Finished'
               \/ i < L - 1 /\ e = path'[i + 1].node
    <3>1. CASE i + 1 = L
      BY <2>3, <3>1, <1>5
    <3>2. CASE i + 1 # L
      <4>1. i < L - 1 /\ i + 1 \in DOMAIN path'
        BY <3>2, <1>2, <1>3
      <4> QED
        BY <2>3, <4>1, <1>3
    <3> QED
      BY <3>1, <3>2
  <2> QED
    BY <2>1, <2>2, <2>3, <1>5
<1>8. ASSUME t \notin marked PROVE graph[t] \subseteq Finished
  <2> SUFFICES ASSUME NEW e \in graph[t] PROVE e \in Finished
    OBVIOUS
  <2>1. \/ e \in Finished
        \/ L < Len(path)
        \/ Back(L, e)
    BY <1>1, <1>2 DEF EdgeInv
  <2>2. ~(L < Len(path))
    BY <1>2 DEF L
  <2>3. ~Back(L, e)
    <3>1. \A j \in 1..L : L \in j..L
      BY <1>2
    <3> QED
      BY <1>8, <3>1 DEF Back
  <2> QED
    BY <2>1, <2>2, <2>3
<1>9. FinishedInv'
  <2>1. \A n \in Finished' \ marked' : graph'[n] \subseteq Finished'
    BY <1>1, <1>5, <1>8 DEF FinishedInv
  <2>2. ASSUME NEW T \in SUBSET (Finished' \ marked), T # {}
        PROVE  \E k \in T : graph[k] \cap T = {}
    <3>1. CASE T \subseteq Finished
      BY <2>2, <3>1 DEF FinishedInv, Acyclic
    <3>2. CASE T = {t}
      BY <3>2, <2>2, <1>5, <1>8
    <3>3. CASE ~(T \subseteq Finished) /\ T # {t}
      <4>1. t \in T /\ T \ {t} # {} /\ T \ {t} \in SUBSET (Finished \ marked)
        BY <3>3, <2>2, <1>5
      <4>2. PICK k \in T \ {t} : graph[k] \cap (T \ {t}) = {}
        BY <4>1 DEF FinishedInv, Acyclic
      <4>3. t \notin graph[k]
        BY <4>1, <1>5 DEF FinishedInv
      <4> QED
        BY <4>2, <4>3
    <3> QED
      BY <3>1, <3>2, <3>3
  <2> QED
    BY <2>1, <2>2, <1>1 DEF FinishedInv, Acyclic
<1>10. MarkedInv'
  BY <1>1 DEF MarkedInv
<1> QED
  BY <1>6, <1>7, <1>9, <1>10

LEMMA SearchInvNext == TypeOK /\ SearchInv /\ [Next]_vars => SearchInv'
<1> SUFFICES ASSUME TypeOK, SearchInv, [Next]_vars PROVE SearchInv'
  OBVIOUS
<1>1. ASSUME NEW n \in Nodes, Pop(n) PROVE SearchInv'
  <2>1. CASE call = "getTransitiveDeps"
    BY <1>1, <2>1 DEF Pop, SearchInv
  <2>2. CASE call = "findGraphCycles"
    BY <1>1, <2>2 DEF Pop, SearchInv
  <2> QED
    BY <2>1, <2>2 DEF TypeOK, Functions
<1>2. CASE UNCHANGED vars
  BY <1>2 DEF vars, SearchInv, PathInv, EdgeInv, FinishedInv, MarkedInv, OnPath,
              Finished, Back
<1> QED
  BY <1>1, <1>2, RootKeeps, SeenKeeps, BackEdgeKeeps, DescendKeeps, LeaveKeeps DEF Next

(* findGraphCycles marks only nodes on cycles, and a node of every cycle.    *)
THEOREM CyclesBrokenTheorem == Spec => []CyclesBroken
<1>1. TypeOK /\ SearchInv => CyclesBroken
  <2> SUFFICES ASSUME TypeOK, SearchInv, SearchDone PROVE BreaksCycles(graph, marked)
    BY DEF CyclesBroken
  <2>1. Finished = DOMAIN graph
    BY DEF Finished, OnPath, SearchDone, TypeOK
  <2> QED
    BY <2>1 DEF SearchInv, SearchDone, FinishedInv, MarkedInv, BreaksCycles
<1> QED
  BY <1>1, TypeInit, TypeNext, SearchInvInit, SearchInvNext, PTL DEF Spec

=============================================================================
