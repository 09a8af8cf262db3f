-------------------------- MODULE EnvResolveProofs ---------------------------
(* Proofs about EnvResolve, for every set of items and dependency graph.     *)
EXTENDS EnvResolve, TLAPS

-----------------------------------------------------------------------------
(* No call is in progress while the sources load, in the caller's hands or   *)
(* at the end; a call has what its items depend on among its items, and no   *)
(* item both waits and is in progress.                                       *)
CallInv ==
  /\ stage \in {"load", "caller", "done", "failed"} => keys = {}
  /\ early # <<>> => stage = "load"
  /\ waiting \cap inProgress = {}
  /\ \A k \in keys : deps[k] \subseteq keys

(* What an item in progress refers to is completed and valid; a completed    *)
(* item has a value or an error, and if it is valid so is all it refers to.  *)
ValueInv ==
  /\ \A k \in inProgress : \A d \in deps[k] :
       d \in Completed /\ d \in resolved /\ ~Bad(d)
  /\ \A k \in Completed :
       /\ k \in resolved \/ Bad(k)
       /\ ~Bad(k) => \A d \in deps[k] : d \in Completed /\ ~Bad(d)

(* An item that waits without a pending call of startResolveItem refers to   *)
(* an item whose completion will call it.                                    *)
WaitInv ==
  \A k \in waiting \ started : ~Bad(k) /\ \E d \in deps[k] : Pending(d)

(* After the cycle check the valid items are free of cycles.                 *)
AcyclicInv == checked => Acyclic(deps, {k \in Items : ~Bad(k)})

(* A resolver that was started is in progress, gave a value or failed.       *)
RunsInv ==
  \A k \in Items :
    /\ runs[k] > 1 => err[k] = "value"
    /\ runs[k] > 0 /\ stage # "failed" =>
         k \in resolved \/ k \in inProgress \/ err[k] = "value"

IInv == TypeOK /\ CallInv /\ ValueInv /\ WaitInv /\ AcyclicInv /\ RunsInv

-----------------------------------------------------------------------------
(* Type correctness.                                                         *)
LEMMA TypeInit == Init => TypeOK
<1> SUFFICES ASSUME Init PROVE TypeOK
  OBVIOUS
<1>1. earlyCalls \in 0..MaxEarly
  BY ConstantsAssumption DEF Init
<1>2. runs \in [Items -> Nat]
  BY DEF Init
<1>3. early \in Seq([item : Items, left : SUBSET Items])
  BY DEF Init
<1>4. err \in [Items -> Errors]
  BY DEF Init, Errors
<1> QED
  BY <1>1, <1>2, <1>3, <1>4 DEF Init, TypeOK, Stages

LEMMA ExpandKeysType ==
  ASSUME deps \in [Items -> SUBSET Items], NEW S
  PROVE  ExpandKeys(S) \subseteq Items
BY DEF ExpandKeys, Closure

(* The items of a call include what they depend on.                          *)
LEMMA ExpandKeysClosed ==
  ASSUME deps \in [Items -> SUBSET Items], NEW S, NEW k \in ExpandKeys(S)
  PROVE  deps[k] \subseteq ExpandKeys(S)
<1>1. SUFFICES ASSUME NEW d \in deps[k], NEW C \in SUBSET Items,
                      S \subseteq C, \A c \in C : deps[c] \subseteq C
               PROVE  d \in C
  BY DEF ExpandKeys, Closure
<1>2. k \in C
  BY <1>1 DEF ExpandKeys, Closure
<1> QED
  BY <1>1, <1>2

LEMMA SettleType ==
  ASSUME TypeOK, NEW k \in Items, Settle(k)
  PROVE  err' \in [Items -> Errors] /\ resolved' \subseteq Items
BY DEF TypeOK, Settle, Errors

(* What a call of resolveEnvValues leaves                                    *)
LEMMA NewCallType ==
  ASSUME TypeOK, NEW S, ResolveEnvValues(ExpandKeys(S))
  PROVE  /\ keys' \subseteq Items /\ waiting' \subseteq keys'
         /\ inProgress' \subseteq keys' /\ started' \subseteq Items
<1>1. ExpandKeys(S) \subseteq Items
  BY ExpandKeysType DEF TypeOK
<1> QED
  BY <1>1 DEF ResolveEnvValues

LEMMA MarkType ==
  ASSUME TypeOK, NEW k \in Items, MarkItemCompleted(k)
  PROVE  /\ waiting' \subseteq keys /\ inProgress' \subseteq keys
         /\ started' \subseteq Items
BY DEF TypeOK, MarkItemCompleted, Dependents

(* The calls of earlyResolve                                                 *)
EarlyFrames == [item : Items, left : SUBSET Items]

LEMMA EarlyDepType ==
  ASSUME early \in Seq(EarlyFrames), deps \in [Items -> SUBSET Items], EarlyDep
  PROVE  early' \in Seq(EarlyFrames)
<1>1. PICK d \in Innermost.left :
        early' = Append([early EXCEPT ![Len(early)].left = @ \ {d}],
                        [item |-> d, left |-> deps[d]])
  BY DEF EarlyDep
<1>2. Len(early) \in DOMAIN early /\ Innermost \in EarlyFrames
  BY DEF EarlyDep, Innermost
<1>3. [item |-> d, left |-> deps[d]] \in EarlyFrames
  BY <1>2 DEF EarlyFrames
<1>4. [Innermost EXCEPT !.left = @ \ {d}] \in EarlyFrames
  BY <1>2 DEF EarlyFrames
<1>5. [early EXCEPT ![Len(early)].left = @ \ {d}] =
        [early EXCEPT ![Len(early)] = [Innermost EXCEPT !.left = @ \ {d}]]
  BY DEF Innermost
<1>6. [early EXCEPT ![Len(early)].left = @ \ {d}] \in Seq(EarlyFrames)
  <2>1. ASSUME NEW f \in EarlyFrames
        PROVE  [early EXCEPT ![Len(early)] = f] \in Seq(EarlyFrames)
    BY <1>2
  <2> QED
    BY <1>4, <1>5, <2>1
<1> QED
  BY <1>1, <1>3, <1>6

LEMMA TypeNext == TypeOK /\ [Next]_vars => TypeOK'
<1> SUFFICES ASSUME TypeOK, [Next]_vars PROVE TypeOK'
  OBVIOUS
<1> USE DEF calls, filter, unchangedByCall
<1>e. early \in Seq(EarlyFrames)
  BY DEF TypeOK, EarlyFrames
<1>1. ASSUME NEW k \in Items, EarlyCall(k) PROVE TypeOK'
  <2>1. [item |-> k, left |-> deps[k]] \in EarlyFrames
    BY DEF TypeOK, EarlyFrames
  <2>2. early' \in Seq(EarlyFrames)
    BY <1>1, <2>1 DEF EarlyCall
  <2>3. earlyCalls' \in 0..MaxEarly
    BY <1>1, ConstantsAssumption DEF EarlyCall, TypeOK
  <2> QED
    BY <1>1, <2>2, <2>3 DEF EarlyCall, TypeOK, EarlyFrames
<1>2. CASE EarlyDep
  <2>1. early' \in Seq(EarlyFrames)
    BY <1>2, <1>e, EarlyDepType DEF TypeOK
  <2> QED
    BY <1>2, <2>1 DEF EarlyDep, TypeOK, EarlyFrames
<1>3. CASE EarlyReturn
  <2>1. early' \in Seq(EarlyFrames)
    BY <1>3, <1>e DEF EarlyReturn
  <2>2. Innermost.item \in Items
    <3>1. Innermost \in EarlyFrames
      BY <1>3, <1>e DEF EarlyReturn, Innermost
    <3> QED
      BY <3>1 DEF EarlyFrames
  <2>3. err' \in [Items -> Errors] /\ resolved' \subseteq Items /\ runs' \in [Items -> Nat]
    <3>1. CASE err[Innermost.item] = "schema" \/ Innermost.item \in resolved
      BY <1>3, <3>1 DEF EarlyReturn, TypeOK
    <3>2. CASE ~(err[Innermost.item] = "schema" \/ Innermost.item \in resolved)
      <4>1. Settle(Innermost.item) /\ Ran(Innermost.item)
        BY <1>3, <3>2 DEF EarlyReturn
      <4> QED
        BY <4>1, <2>2, SettleType DEF Ran, TypeOK
    <3> QED
      BY <3>1, <3>2
  <2> QED
    BY <1>3, <2>1, <2>3 DEF EarlyReturn, TypeOK, EarlyFrames
<1>4. CASE LoadFails
  BY <1>4 DEF LoadFails, TypeOK, Stages
<1>5. CASE ItemErrorsFound
  BY <1>5 DEF ItemErrorsFound, TypeOK, Stages
<1>6. CASE CheckCycles
  BY <1>6 DEF CheckCycles, TypeOK, Stages, Errors
<1>7. CASE ExecuteDecorator
  <2>1. PICK S \in SUBSET Items : ResolveEnvValues(ExpandKeys(S))
    BY <1>7 DEF ExecuteDecorator
  <2>2. decs' \in 0..MaxDecs
    BY <1>7, ConstantsAssumption DEF ExecuteDecorator, TypeOK
  <2> QED
    BY <1>7, <2>1, <2>2, NewCallType DEF ExecuteDecorator, TypeOK
<1>8. CASE DecoratorsDone
  BY <1>8 DEF DecoratorsDone, TypeOK, Stages
<1>9. CASE ResolveSelected
  <2>1. PICK S \in SUBSET Items : ResolveEnvValues(ExpandKeys(S))
    BY <1>9 DEF ResolveSelected
  <2> QED
    BY <1>9, <2>1, NewCallType DEF ResolveSelected, TypeOK, Stages
<1>10. CASE PreEvaluate
  <2>1. PICK S \in SUBSET UNION {deps[k] : k \in undecided'} :
          ResolveEnvValues(ExpandKeys(S))
    BY <1>10 DEF PreEvaluate
  <2> QED
    BY <1>10, <2>1, NewCallType DEF PreEvaluate, TypeOK, Stages
<1>11. CASE ResolveMatched
  <2>1. PICK S \in SUBSET undecided : ResolveEnvValues(ExpandKeys(sure \cup S))
    BY <1>11 DEF ResolveMatched
  <2>2. err' \in [Items -> Errors]
    BY <1>11 DEF ResolveMatched, TypeOK, Errors
  <2> QED
    BY <1>11, <2>1, <2>2, NewCallType DEF ResolveMatched, TypeOK, Stages
<1>12. CASE Finish
  BY <1>12 DEF Finish, TypeOK, Stages
<1>13. ASSUME NEW k \in Items, StartIgnored(k) PROVE TypeOK'
  BY <1>13 DEF StartIgnored, TypeOK
<1>14. ASSUME NEW k \in Items, StartBad(k) PROVE TypeOK'
  BY <1>14, MarkType DEF StartBad, TypeOK
<1>15. ASSUME NEW k \in Items, StartInvalid(k) PROVE TypeOK'
  BY <1>15, MarkType DEF StartInvalid, TypeOK, Errors
<1>16. ASSUME NEW k \in Items, StartTooEarly(k) PROVE TypeOK'
  BY <1>16 DEF StartTooEarly, TypeOK
<1>17. ASSUME NEW k \in Items, Start(k) PROVE TypeOK'
  <2>1. runs' \in [Items -> Nat]
    BY <1>17 DEF Start, Ran, TypeOK
  <2> QED
    BY <1>17, <2>1 DEF Start, TypeOK
<1>18. ASSUME NEW k \in Items, Resolve(k) PROVE TypeOK'
  BY <1>18, MarkType, SettleType DEF Resolve, TypeOK
<1>19. ASSUME NEW k \in Items, ResolveThrows(k) PROVE TypeOK'
  BY <1>19 DEF ResolveThrows, TypeOK, Stages
<1>20. CASE Return
  BY <1>20 DEF Return, TypeOK
<1>21. CASE UNCHANGED vars
  BY <1>21 DEF vars, TypeOK
<1> QED
  BY <1>1, <1>2, <1>3, <1>4, <1>5, <1>6, <1>7, <1>8, <1>9, <1>10, <1>11, <1>12,
     <1>13, <1>14, <1>15, <1>16, <1>17, <1>18, <1>19, <1>20, <1>21 DEF Next, Advance

(* The state has the types of TypeOK.                                        *)
THEOREM TypeCorrect == Spec => []TypeOK
BY TypeInit, TypeNext, PTL DEF Spec

-----------------------------------------------------------------------------
(* The three invariants of a call. It starts with nothing but waiting items. *)
CallsInv == CallInv /\ ValueInv /\ WaitInv

Fresh ==
  /\ waiting = keys
  /\ inProgress = {}
  /\ keys # {} => started = Items
  /\ \A k \in keys : deps[k] \subseteq keys

LEMMA FreshInv ==
  ASSUME Fresh', keys' \subseteq Items
  PROVE  /\ ValueInv' /\ WaitInv' /\ (waiting \cap inProgress = {})'
         /\ (\A k \in keys : deps[k] \subseteq keys)'
BY DEF Fresh, ValueInv, WaitInv, Completed

LEMMA NewCallFresh ==
  ASSUME TypeOK, NEW S \in SUBSET Items, ResolveEnvValues(ExpandKeys(S)), deps' = deps
  PROVE  Fresh' /\ keys' \subseteq Items
<1>1. ASSUME NEW k \in ExpandKeys(S) PROVE deps[k] \subseteq ExpandKeys(S)
  BY <1>1, ExpandKeysClosed DEF TypeOK
<1>2. ExpandKeys(S) \subseteq Items
  BY ExpandKeysType DEF TypeOK
<1> QED
  BY <1>1, <1>2 DEF ResolveEnvValues, Fresh

LEMMA IdleFresh ==
  ASSUME TypeOK, keys = {}, keys' = {}, waiting' = waiting, inProgress' = inProgress
  PROVE  Fresh' /\ keys' \subseteq Items
BY DEF TypeOK, Fresh

LEMMA CallsInvInit == Init => CallsInv
BY DEF Init, CallsInv, CallInv, ValueInv, WaitInv, Completed

(* The steps of the load and of its callers                                  *)
LEMMA LoadKeepsCalls ==
  ASSUME TypeOK, CallsInv,
         \/ \E k \in Items : EarlyCall(k)
         \/ EarlyDep \/ EarlyReturn
         \/ LoadFails \/ ItemErrorsFound \/ CheckCycles
         \/ ExecuteDecorator \/ DecoratorsDone
         \/ ResolveSelected \/ PreEvaluate \/ ResolveMatched \/ Finish
  PROVE  CallsInv'
<1> USE DEF calls, filter
<1>1. Fresh' /\ keys' \subseteq Items
  <2>1. ASSUME NEW k \in Items, EarlyCall(k) PROVE Fresh' /\ keys' \subseteq Items
    BY <2>1, IdleFresh DEF EarlyCall, CallsInv, CallInv
  <2>2. CASE EarlyDep \/ EarlyReturn
    BY <2>2, IdleFresh DEF EarlyDep, EarlyReturn, CallsInv, CallInv
  <2>3. CASE LoadFails \/ ItemErrorsFound \/ CheckCycles
    BY <2>3, IdleFresh DEF LoadFails, ItemErrorsFound, CheckCycles, CallsInv, CallInv
  <2>4. CASE DecoratorsDone \/ Finish
    BY <2>4, IdleFresh DEF DecoratorsDone, Finish, Idle
  <2>5. CASE ExecuteDecorator
    BY <2>5, NewCallFresh DEF ExecuteDecorator
  <2>6. CASE ResolveSelected
    BY <2>6, NewCallFresh DEF ResolveSelected
  <2>7. CASE PreEvaluate
    <3>1. PICK S \in SUBSET UNION {deps[k] : k \in undecided'} :
            ResolveEnvValues(ExpandKeys(S))
      BY <2>7 DEF PreEvaluate
    <3>2. S \in SUBSET Items
      BY <2>7, <3>1 DEF PreEvaluate, TypeOK
    <3> QED
      BY <2>7, <3>1, <3>2, NewCallFresh DEF PreEvaluate
  <2>8. CASE ResolveMatched
    <3>1. PICK S \in SUBSET undecided : ResolveEnvValues(ExpandKeys(sure \cup S))
      BY <2>8 DEF ResolveMatched
    <3>2. sure \cup S \in SUBSET Items
      BY <3>1 DEF TypeOK
    <3> QED
      BY <2>8, <3>1, <3>2, NewCallFresh DEF ResolveMatched
  <2> QED
    BY <2>1, <2>2, <2>3, <2>4, <2>5, <2>6, <2>7, <2>8
<1>2. (stage \in {"load", "caller", "done", "failed"} => keys = {})'
  BY DEF CallsInv, CallInv, EarlyCall, EarlyDep, EarlyReturn, LoadFails,
         ItemErrorsFound, CheckCycles, ExecuteDecorator, DecoratorsDone,
         ResolveSelected, PreEvaluate, ResolveMatched, Finish, Idle
<1>3. (early # <<>> => stage = "load")'
  BY DEF CallsInv, CallInv, EarlyCall, EarlyDep, EarlyReturn, LoadFails,
         ItemErrorsFound, CheckCycles, ExecuteDecorator, DecoratorsDone,
         ResolveSelected, PreEvaluate, ResolveMatched, Finish
<1> QED
  BY <1>1, <1>2, <1>3, FreshInv DEF CallsInv, CallInv

(* startResolveItem for an item that is done, or waits on                    *)
LEMMA StartIgnoredKeepsCalls ==
  ASSUME TypeOK, CallsInv, NEW k \in Items, StartIgnored(k) \/ StartTooEarly(k)
  PROVE  CallsInv'
<1> USE DEF unchangedByCall
<1>1. /\ deps' = deps /\ err' = err /\ resolved' = resolved /\ keys' = keys
      /\ waiting' = waiting /\ inProgress' = inProgress
      /\ stage' = stage /\ early' = early
  BY DEF StartIgnored, StartTooEarly
<1>2. CallInv' /\ ValueInv'
  BY <1>1 DEF CallsInv, CallInv, ValueInv, Completed, Bad
<1>3. WaitInv'
  <2>1. \A j \in waiting \ started' :
          j \in waiting \ started \/ (j = k /\ StartTooEarly(k))
    BY DEF StartIgnored, StartTooEarly
  <2> QED
    BY <1>1, <2>1 DEF CallsInv, WaitInv, StartTooEarly, Bad, Pending
<1> QED
  BY <1>2, <1>3 DEF CallsInv

(* ... for an item that is invalid or becomes so                             *)
LEMMA StartBadKeepsCalls ==
  ASSUME TypeOK, CallsInv, NEW k \in Items, StartBad(k) \/ StartInvalid(k)
  PROVE  CallsInv'
<1> USE DEF unchangedByCall
<1>1. /\ deps' = deps /\ resolved' = resolved /\ keys' = keys
      /\ stage' = stage /\ early' = early
      /\ k \in waiting /\ MarkItemCompleted(k)
  BY DEF StartBad, StartInvalid
<1>2. Bad(k)' /\ \A j \in Items : j # k => err'[j] = err[j]
  BY DEF StartBad, StartInvalid, Bad, TypeOK
<1>3. /\ k \in keys /\ k \notin inProgress
      /\ waiting' = waiting \ {k} /\ inProgress' = inProgress
      /\ Completed' = Completed \cup {k} /\ k \notin Completed
  BY <1>1 DEF MarkItemCompleted, Completed, TypeOK, CallsInv, CallInv
<1>4. CallInv'
  BY <1>1, <1>3 DEF CallsInv, CallInv
<1>5. ValueInv'
  <2>1. ASSUME NEW j \in inProgress, NEW d \in deps[j]
        PROVE  d \in Completed' /\ d \in resolved /\ ~Bad(d)'
    <3>1. d \in Completed /\ d \in resolved /\ ~Bad(d)
      BY <2>1 DEF CallsInv, ValueInv
    <3>2. d # k /\ d \in Items
      BY <3>1, <1>3 DEF Completed, TypeOK
    <3> QED
      BY <3>1, <3>2, <1>2, <1>3 DEF Bad
  <2>2. ASSUME NEW j \in Completed
        PROVE  /\ j \in resolved \/ Bad(j)'
               /\ ~Bad(j)' => \A d \in deps[j] : d \in Completed' /\ ~Bad(d)'
    <3>1. j # k /\ j \in Items
      BY <1>3 DEF Completed, TypeOK
    <3>2. Bad(j)' <=> Bad(j)
      BY <3>1, <1>2 DEF Bad
    <3>3. ASSUME ~Bad(j), NEW d \in deps[j] PROVE d \in Completed' /\ ~Bad(d)'
      <4>1. d \in Completed /\ ~Bad(d)
        BY <3>3 DEF CallsInv, ValueInv
      <4>2. d # k /\ d \in Items
        BY <4>1, <1>3 DEF Completed, TypeOK
      <4> QED
        BY <4>1, <4>2, <1>2, <1>3 DEF Bad
    <3> QED
      BY <3>2, <3>3 DEF CallsInv, ValueInv
  <2> QED
    BY <2>1, <2>2, <1>1, <1>2, <1>3 DEF ValueInv
<1>6. WaitInv'
  <2> SUFFICES ASSUME NEW j \in waiting' \ started'
               PROVE  ~Bad(j)' /\ \E d \in deps[j] : Pending(d)'
    BY <1>1 DEF WaitInv
  <2>1. j \in waiting \ started /\ j # k /\ j \in Items /\ k \notin deps[j]
    BY <1>1, <1>3 DEF MarkItemCompleted, Dependents, TypeOK
  <2>2. ~Bad(j) /\ \E d \in deps[j] : Pending(d)
    BY <2>1 DEF CallsInv, WaitInv
  <2> QED
    BY <2>1, <2>2, <1>2, <1>3 DEF Bad, Pending
<1> QED
  BY <1>4, <1>5, <1>6 DEF CallsInv

(* ... for an item whose dependencies are done: they are all among the items *)
(* of the call, so they are completed, and being valid they have values.     *)
LEMMA StartKeepsCalls ==
  ASSUME TypeOK, CallsInv, NEW k \in Items, Start(k)
  PROVE  CallsInv'
<1> USE DEF unchangedByCall
<1>1. /\ deps' = deps /\ err' = err /\ resolved' = resolved /\ keys' = keys
      /\ stage' = stage /\ early' = early
      /\ waiting' = waiting \ {k} /\ inProgress' = inProgress \cup {k}
      /\ started' = started \ {k} /\ k \in waiting /\ k \in keys
      /\ \A d \in deps[k] : ~Bad(d) /\ ~Pending(d)
  BY DEF Start, TypeOK
<1>2. Completed' = Completed /\ \A j \in Items : Pending(j)' <=> Pending(j)
  BY <1>1 DEF Completed, Pending
<1>3. CallInv'
  BY <1>1 DEF CallsInv, CallInv
<1>4. \A d \in deps[k] : d \in Completed /\ d \in resolved /\ ~Bad(d)
  <2> SUFFICES ASSUME NEW d \in deps[k] PROVE d \in Completed /\ d \in resolved /\ ~Bad(d)
    OBVIOUS
  <2>1. d \in keys
    BY <1>1 DEF CallsInv, CallInv
  <2>2. d \in Completed /\ ~Bad(d)
    BY <1>1, <2>1 DEF Completed, Pending
  <2> QED
    BY <2>2 DEF CallsInv, ValueInv
<1>5. ValueInv'
  BY <1>1, <1>2, <1>4 DEF CallsInv, ValueInv, Bad
<1>6. WaitInv'
  <2>1. \A j \in waiting \ started : deps[j] \subseteq Items
    BY DEF TypeOK
  <2> QED
    BY <1>1, <1>2, <2>1 DEF CallsInv, WaitInv, Bad
<1> QED
  BY <1>3, <1>5, <1>6 DEF CallsInv

(* item.resolve() settles: the item is completed, with a value or an error.  *)
LEMMA ResolveKeepsCalls ==
  ASSUME TypeOK, CallsInv, NEW k \in Items, Resolve(k)
  PROVE  CallsInv'
<1> USE DEF unchangedByCall
<1>1. /\ deps' = deps /\ keys' = keys /\ stage' = stage /\ early' = early
      /\ k \in inProgress /\ MarkItemCompleted(k)
      /\ resolved \subseteq resolved'
  BY DEF Resolve, Settle
<1>2. /\ \A j \in Items : j # k => err'[j] = err[j]
      /\ k \in resolved' \/ Bad(k)'
  <2>1. CASE k \in resolved
    BY <2>1 DEF Resolve
  <2>2. CASE k \notin resolved
    <3>1. Settle(k)
      BY <2>2 DEF Resolve
    <3> QED
      BY <3>1 DEF Settle, Bad, TypeOK
  <2> QED
    BY <2>1, <2>2
<1>3. /\ k \in keys /\ k \notin waiting
      /\ waiting' = waiting /\ inProgress' = inProgress \ {k}
      /\ Completed' = Completed \cup {k} /\ k \notin Completed
  BY <1>1 DEF MarkItemCompleted, Completed, TypeOK, CallsInv, CallInv
<1>4. CallInv'
  BY <1>1, <1>3 DEF CallsInv, CallInv
<1>5. ASSUME NEW d \in Completed PROVE d # k /\ d \in Items /\ (Bad(d)' <=> Bad(d))
  <2>1. d # k /\ d \in Items
    BY <1>3, <1>5 DEF Completed, TypeOK
  <2> QED
    BY <2>1, <1>2 DEF Bad
<1>6. ValueInv'
  <2>1. ASSUME NEW j \in inProgress, NEW d \in deps[j]
        PROVE  d \in Completed' /\ d \in resolved' /\ ~Bad(d)'
    <3>1. d \in Completed /\ d \in resolved /\ ~Bad(d)
      BY <2>1 DEF CallsInv, ValueInv
    <3> QED
      BY <3>1, <1>1, <1>3, <1>5
  <2>2. ASSUME NEW j \in Completed
        PROVE  /\ j \in resolved' \/ Bad(j)'
               /\ ~Bad(j)' => \A d \in deps[j] : d \in Completed' /\ ~Bad(d)'
    <3>1. ASSUME ~Bad(j), NEW d \in deps[j] PROVE d \in Completed' /\ ~Bad(d)'
      <4>1. d \in Completed /\ ~Bad(d)
        BY <3>1 DEF CallsInv, ValueInv
      <4> QED
        BY <4>1, <1>3, <1>5
    <3> QED
      BY <3>1, <1>1, <1>5 DEF CallsInv, ValueInv
  <2> QED
    BY <2>1, <2>2, <1>1, <1>2, <1>3 DEF ValueInv
<1>7. WaitInv'
  <2> SUFFICES ASSUME NEW j \in waiting' \ started'
               PROVE  ~Bad(j)' /\ \E d \in deps[j] : Pending(d)'
    BY <1>1 DEF WaitInv
  <2>1. j \in waiting \ started /\ j # k /\ j \in Items /\ k \notin deps[j]
    BY <1>1, <1>3 DEF MarkItemCompleted, Dependents, TypeOK
  <2>2. ~Bad(j) /\ \E d \in deps[j] : Pending(d)
    BY <2>1 DEF CallsInv, WaitInv
  <2> QED
    BY <2>1, <2>2, <1>2, <1>3 DEF Bad, Pending
<1> QED
  BY <1>4, <1>6, <1>7 DEF CallsInv

(* The end of a call                                                         *)
LEMMA ReturnKeepsCalls ==
  ASSUME TypeOK, CallsInv, Return \/ \E k \in Items : ResolveThrows(k)
  PROVE  CallsInv'
<1> USE DEF filter
<1>1. keys' = {} /\ waiting' = {} /\ inProgress' = {}
  BY DEF Return, ResolveThrows
<1>2. ValueInv' /\ WaitInv'
  BY <1>1 DEF ValueInv, WaitInv, Completed
<1>3. (early # <<>> => stage = "load")'
  <2>1. CASE Return
    BY <2>1 DEF Return, CallsInv, CallInv
  <2>2. ASSUME NEW k \in Items, ResolveThrows(k) PROVE early' = <<>>
    BY <2>2 DEF ResolveThrows, CallsInv, CallInv, TypeOK
  <2> QED
    BY <2>1, <2>2
<1> QED
  BY <1>1, <1>2, <1>3 DEF CallsInv, CallInv

LEMMA CallsInvNext == TypeOK /\ CallsInv /\ [Next]_vars => CallsInv'
<1> SUFFICES ASSUME TypeOK, CallsInv, [Next]_vars PROVE CallsInv'
  OBVIOUS
<1>1. CASE UNCHANGED vars
  BY <1>1 DEF vars, calls, filter, CallsInv, CallInv, ValueInv, WaitInv,
              Completed, Bad, Pending
<1> QED
  BY <1>1, LoadKeepsCalls, StartIgnoredKeepsCalls, StartBadKeepsCalls,
     StartKeepsCalls, ResolveKeepsCalls, ReturnKeepsCalls DEF Next, Advance

-----------------------------------------------------------------------------
(* What is free of cycles stays so when it shrinks.                          *)
LEMMA AcyclicPart ==
  ASSUME NEW g, NEW S, NEW T \in SUBSET S, Acyclic(g, S)
  PROVE  Acyclic(g, T)
BY DEF Acyclic

(* An item with errors keeps errors.                                         *)
LEMMA SettleKeepsBad ==
  ASSUME TypeOK, NEW k \in Items, Settle(k), NEW j \in Items, Bad(j)
  PROVE  Bad(j)'
BY DEF TypeOK, Settle, Bad

LEMMA BadStays ==
  ASSUME TypeOK, [Next]_vars, NEW j \in Items, Bad(j)
  PROVE  Bad(j)'
<1> USE DEF unchangedByCall
<1>1. CASE EarlyReturn
  <2>1. Innermost.item \in Items
    <3>1. early \in Seq(EarlyFrames)
      BY DEF TypeOK, EarlyFrames
    <3>2. Innermost \in EarlyFrames
      BY <1>1, <3>1 DEF EarlyReturn, Innermost
    <3> QED
      BY <3>2 DEF EarlyFrames
  <2>2. err' = err \/ Settle(Innermost.item)
    BY <1>1 DEF EarlyReturn
  <2> QED
    BY <2>1, <2>2, SettleKeepsBad DEF Bad
<1>2. ASSUME NEW k \in Items, Resolve(k) PROVE Bad(j)'
  <2>1. err' = err \/ Settle(k)
    BY <1>2 DEF Resolve
  <2> QED
    BY <2>1, SettleKeepsBad DEF Bad
<1>3. CASE CheckCycles \/ ResolveMatched
  BY <1>3 DEF CheckCycles, ResolveMatched, Bad, TypeOK
<1>4. ASSUME NEW k \in Items, StartInvalid(k) PROVE Bad(j)'
  BY <1>4 DEF StartInvalid, Bad, TypeOK
<1>5. err' = err => Bad(j)'
  BY DEF Bad
<1> QED
  BY <1>1, <1>2, <1>3, <1>4, <1>5
  DEF Next, Advance, vars, EarlyCall, EarlyDep, LoadFails, ItemErrorsFound,
      ExecuteDecorator, DecoratorsDone, ResolveSelected, PreEvaluate, Finish,
      StartIgnored, StartBad, StartTooEarly, Start, ResolveThrows, Return

LEMMA AcyclicInvNext == TypeOK /\ AcyclicInv /\ [Next]_vars => AcyclicInv'
<1> SUFFICES ASSUME TypeOK, AcyclicInv, [Next]_vars, checked'
             PROVE  Acyclic(deps', {k \in Items : ~Bad(k)'})
  BY DEF AcyclicInv
<1>1. CASE CheckCycles
  <2>1. PICK marked \in SUBSET Items :
          /\ BreaksCycles(deps, marked)
          /\ err' = [k \in Items |-> IF k \in marked THEN "schema" ELSE err[k]]
    BY <1>1 DEF CheckCycles
  <2>2. {k \in Items : ~Bad(k)'} \in SUBSET (DOMAIN deps \ marked)
    BY <2>1 DEF Bad, TypeOK
  <2>3. Acyclic(deps, DOMAIN deps \ marked)
    BY <2>1 DEF BreaksCycles
  <2>4. deps' = deps
    BY <1>1 DEF CheckCycles
  <2> QED
    BY <2>2, <2>3, <2>4, AcyclicPart
<1>2. CASE ~CheckCycles
  <2>1. checked /\ deps' = deps
    BY <1>2 DEF Next, Advance, vars, EarlyCall, EarlyDep, EarlyReturn, LoadFails,
      ItemErrorsFound, ExecuteDecorator, DecoratorsDone, ResolveSelected,
      PreEvaluate, ResolveMatched, Finish, StartIgnored, StartBad, StartInvalid,
      StartTooEarly, Start, Resolve, ResolveThrows, Return, unchangedByCall
  <2>2. {k \in Items : ~Bad(k)'} \in SUBSET {k \in Items : ~Bad(k)}
    BY BadStays
  <2> QED
    BY <2>1, <2>2, AcyclicPart DEF AcyclicInv
<1> QED
  BY <1>1, <1>2

-----------------------------------------------------------------------------
(* A resolver runs for the first time, or again after it failed.             *)
LEMMA RunsInvInit == Init => RunsInv
BY DEF Init, RunsInv

LEMMA SettleRuns ==
  ASSUME TypeOK, NEW k \in Items, Settle(k)
  PROVE  /\ err[k] = "value" => err'[k] = "value"
         /\ k \in resolved' \/ err'[k] = "value"
         /\ resolved \subseteq resolved'
         /\ \A j \in Items : j # k => err'[j] = err[j]
BY DEF TypeOK, Settle

LEMMA RunsInvNext == TypeOK /\ CallsInv /\ RunsInv /\ [Next]_vars => RunsInv'
<1> SUFFICES ASSUME TypeOK, CallsInv, RunsInv, [Next]_vars, NEW j \in Items
             PROVE  /\ runs'[j] > 1 => err'[j] = "value"
                    /\ runs'[j] > 0 /\ stage' # "failed" =>
                         j \in resolved' \/ j \in inProgress' \/ err'[j] = "value"
  BY DEF RunsInv
<1> USE DEF calls, filter, unchangedByCall
<1> DEFINE Goal == /\ runs'[j] > 1 => err'[j] = "value"
                   /\ runs'[j] > 0 /\ stage' # "failed" =>
                        j \in resolved' \/ j \in inProgress' \/ err'[j] = "value"
<1>1. CASE EarlyReturn
  <2>1. stage = "load" /\ inProgress = {}
    BY <1>1 DEF EarlyReturn, CallsInv, CallInv, TypeOK
  <2>2. Innermost.item \in Items
    <3>1. early \in Seq(EarlyFrames)
      BY DEF TypeOK, EarlyFrames
    <3>2. Innermost \in EarlyFrames
      BY <1>1, <3>1 DEF EarlyReturn, Innermost
    <3> QED
      BY <3>2 DEF EarlyFrames
  <2>3. CASE err[Innermost.item] = "schema" \/ Innermost.item \in resolved
    BY <1>1, <2>3 DEF EarlyReturn, RunsInv
  <2>4. CASE ~(err[Innermost.item] = "schema" \/ Innermost.item \in resolved)
    <3>1. Settle(Innermost.item) /\ Ran(Innermost.item) /\ stage' = stage
      BY <1>1, <2>4 DEF EarlyReturn
    <3>2. CASE j # Innermost.item
      BY <3>1, <3>2, <2>1, <2>2, SettleRuns DEF Ran, RunsInv, TypeOK
    <3>3. CASE j = Innermost.item
      <4>1. runs'[j] = runs[j] + 1 /\ runs[j] \in Nat
        BY <3>1, <3>3 DEF Ran, TypeOK
      <4>2. runs[j] > 0 => err[j] = "value"
        BY <2>1, <2>4, <3>3 DEF RunsInv
      <4> QED
        BY <3>1, <3>3, <4>1, <4>2, SettleRuns
    <3> QED
      BY <3>2, <3>3
  <2> QED
    BY <2>3, <2>4
<1>2. CASE CheckCycles
  <2>1. /\ ~Bad(j) /\ stage = "load" /\ inProgress = {}
        /\ runs' = runs /\ resolved' = resolved /\ inProgress' = inProgress
    BY <1>2 DEF CheckCycles, CallsInv, CallInv, TypeOK
  <2> QED
    BY <2>1 DEF RunsInv, Bad
<1>3. CASE ResolveMatched
  <2>1. /\ runs' = runs /\ resolved' = resolved /\ keys = {} /\ inProgress = {}
        /\ err[j] = "value" => err'[j] = "value"
        /\ stage = "metadata"
    BY <1>3 DEF ResolveMatched, Idle, Bad, TypeOK
  <2> QED
    BY <2>1 DEF RunsInv
<1>4. CASE ExecuteDecorator \/ ResolveSelected \/ PreEvaluate
  <2>1. /\ runs' = runs /\ resolved' = resolved /\ err' = err
        /\ keys = {} /\ inProgress = {} /\ stage # "failed"
    BY <1>4 DEF ExecuteDecorator, ResolveSelected, PreEvaluate, Idle, CallsInv,
                CallInv, TypeOK
  <2> QED
    BY <2>1 DEF RunsInv
<1>5. ASSUME NEW k \in Items, StartInvalid(k) \/ StartBad(k) PROVE Goal
  <2>1. /\ runs' = runs /\ resolved' = resolved /\ stage' = stage
        /\ k \in waiting /\ MarkItemCompleted(k)
        /\ err[j] = "value" => err'[j] = "value"
    BY <1>5 DEF StartInvalid, StartBad, TypeOK
  <2>2. inProgress' = inProgress
    BY <2>1 DEF MarkItemCompleted, CallsInv, CallInv
  <2> QED
    BY <2>1, <2>2 DEF RunsInv
<1>6. ASSUME NEW k \in Items, Start(k) PROVE Goal
  <2>1. /\ err' = err /\ resolved' = resolved /\ stage' = stage
        /\ inProgress' = inProgress \cup {k} /\ k \notin inProgress /\ ~Bad(k)
    BY <1>6 DEF Start, CallsInv, CallInv
  <2>2. CASE j # k \/ k \in resolved
    <3>1. runs'[j] = runs[j]
      BY <1>6, <2>2 DEF Start, Ran, TypeOK
    <3> QED
      BY <2>1, <3>1 DEF RunsInv
  <2>3. CASE j = k /\ k \notin resolved
    <3>1. stage # "failed"
      BY <1>6 DEF Start, CallsInv, CallInv, TypeOK
    <3>2. runs[k] \in Nat /\ ~(runs[k] > 0)
      BY <2>1, <2>3, <3>1 DEF RunsInv, Bad, TypeOK
    <3>3. runs'[k] = runs[k] + 1
      BY <1>6, <2>3 DEF Start, Ran, TypeOK
    <3> QED
      BY <2>1, <2>3, <3>2, <3>3
  <2> QED
    BY <2>2, <2>3
<1>7. ASSUME NEW k \in Items, Resolve(k) PROVE Goal
  <2>1. /\ runs' = runs /\ stage' = stage /\ inProgress' = inProgress \ {k}
    BY <1>7 DEF Resolve, MarkItemCompleted
  <2>2. CASE k \in resolved
    BY <1>7, <2>1, <2>2 DEF Resolve, RunsInv
  <2>3. CASE k \notin resolved
    <3>1. Settle(k)
      BY <1>7, <2>3 DEF Resolve
    <3> QED
      BY <2>1, <3>1, SettleRuns DEF RunsInv
  <2> QED
    BY <2>2, <2>3
<1>8. ASSUME NEW k \in Items, ResolveThrows(k) PROVE Goal
  BY <1>8 DEF ResolveThrows, RunsInv
<1>9. CASE Return
  BY <1>9 DEF Return, RunsInv
<1>10. ASSUME runs' = runs, resolved' = resolved, inProgress' = inProgress,
              err' = err, stage' # "failed" => stage # "failed"
       PROVE  Goal
  BY <1>10 DEF RunsInv
<1>11. CASE LoadFails \/ ItemErrorsFound \/ DecoratorsDone \/ Finish
  BY <1>11, <1>10 DEF LoadFails, ItemErrorsFound, DecoratorsDone, Finish
<1>12. ASSUME NEW k \in Items, EarlyCall(k) \/ StartIgnored(k) \/ StartTooEarly(k)
       PROVE  Goal
  BY <1>12, <1>10 DEF EarlyCall, StartIgnored, StartTooEarly
<1>13. CASE EarlyDep \/ UNCHANGED vars
  BY <1>13, <1>10 DEF EarlyDep, vars
<1> HIDE DEF Goal
<1>14. Goal
  BY <1>1, <1>2, <1>3, <1>4, <1>5, <1>6, <1>7, <1>8, <1>9, <1>11, <1>12, <1>13
  DEF Next, Advance, Goal
<1> QED
  BY <1>14 DEF Goal

-----------------------------------------------------------------------------
LEMMA IInvInit == Init => IInv
<1>1. Init => AcyclicInv
  BY DEF Init, AcyclicInv
<1> QED
  BY <1>1, TypeInit, CallsInvInit, RunsInvInit DEF IInv, CallsInv

LEMMA IInvNext == IInv /\ [Next]_vars => IInv'
BY TypeNext, CallsInvNext, AcyclicInvNext, RunsInvNext DEF IInv, CallsInv

LEMMA Invariance == Spec => []IInv
BY IInvInit, IInvNext, PTL DEF Spec

(* Whatever the order in which items settle, a value resolver that           *)
(* resolveEnvValues starts has a valid value of every item it refers to.     *)
THEOREM ReadsOnlyValidTheorem == Spec => []ReadsOnlyValid
<1>1. IInv => ReadsOnlyValid
  BY DEF IInv, ValueInv, ReadsOnlyValid
<1> QED
  BY <1>1, Invariance, PTL

(* A call leaves no item without a value and an error, and no valid item     *)
(* that refers to an invalid one.                                            *)
THEOREM ErrorsPropagateTheorem == Spec => []ErrorsPropagate
<1>1. IInv => ErrorsPropagate
  BY DEF IInv, ValueInv, ErrorsPropagate
<1> QED
  BY <1>1, Invariance, PTL

(* A resolver that did not fail is never run again.                          *)
THEOREM RunsOnceTheorem == Spec => []RunsOnce
<1>1. IInv => RunsOnce
  BY DEF IInv, RunsInv, RunsOnce
<1> QED
  BY <1>1, Invariance, PTL

(* After the cycle check no call comes to a stop with items left: the items  *)
(* that wait would all wait for each other, and one of them waits for none.  *)
THEOREM NeverStuckTheorem == Spec => []NeverStuck
<1>1. IInv => NeverStuck
  <2> SUFFICES ASSUME IInv, checked, started = {}, inProgress = {}, waiting # {}
               PROVE  FALSE
    BY DEF NeverStuck
  <2>1. \A k \in waiting : ~Bad(k) /\ \E d \in deps[k] : d \in waiting
    BY DEF IInv, WaitInv, Pending
  <2>2. waiting \in SUBSET {k \in Items : ~Bad(k)}
    BY <2>1 DEF IInv, TypeOK
  <2>3. PICK k \in waiting : deps[k] \cap waiting = {}
    BY <2>2 DEF IInv, AcyclicInv, Acyclic
  <2> QED
    BY <2>1, <2>3
<1> QED
  BY <1>1, Invariance, PTL

=============================================================================
