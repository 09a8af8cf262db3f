----------------------------- MODULE EnvResolve ------------------------------
(***************************************************************************)
(* One load of an EnvGraph (packages/varlock/src/env-graph/lib): items     *)
(* resolved early while the sources are read, finishLoad with its cycle    *)
(* check and root decorators, and resolveEnvValues, which resolves items   *)
(* in parallel, each when its dependencies are done.                       *)
(*                                                                         *)
(* A step ends where the code awaits or calls startResolveItem; the code   *)
(* between two awaits runs to its end, so no resolver settles while a call *)
(* of startResolveItem is pending.                                         *)
(*                                                                         *)
(* Items whose value uses forEnv() are not modelled: resolving one also    *)
(* resolves the environment flag, which is not among its dependencyKeys.   *)
(***************************************************************************)
EXTENDS DepGraph, Naturals, FiniteSets, Sequences

CONSTANTS
  Items,       \* keys of configSchema
  LoadErrors,  \* whether items may have schema errors of their own
  EarlyCycles, \* whether early resolution may lead into a dependency cycle
  MaxEarly,    \* bound on the calls of earlyResolve by the data sources
  MaxDecs      \* bound on the root decorators

ASSUME ConstantsAssumption ==
  /\ {LoadErrors, EarlyCycles} \subseteq BOOLEAN
  /\ MaxEarly \in Nat
  /\ MaxDecs \in Nat

VARIABLES
  deps,       \* dependencyKeys of every item
  err,        \* errors of an item: schema errors, or errors of its value
  resolved,   \* items with isResolved
  runs,       \* ghost: how often the value resolver of an item was started
  stage,      \* how far the load has come
  early,      \* calls of earlyResolve in progress, innermost last
  earlyCalls, \* outermost calls of earlyResolve so far
  decs,       \* root decorators still to execute
  checked,    \* ghost: whether the cycle check ran
  keys,       \* the call of resolveEnvValues in progress: keysToResolve,
  waiting,    \*   itemsToResolveStatus = false,
  inProgress, \*   itemsToResolveStatus = true,
  started,    \*   calls of startResolveItem that have yet to run
  undecided,  \* items a filter cannot decide before their metadata is resolved
  sure        \* items it selects whatever their metadata

calls == <<keys, waiting, inProgress, started>>
filter == <<undecided, sure>>
vars == <<deps, err, resolved, runs, stage, early, earlyCalls, decs, checked,
          calls, filter>>

Errors == {"none", "schema", "value"}
Stages == {"load", "decorators", "caller", "metadata", "values", "done", "failed"}

(* item.errors.some((e) => !e.isWarning), as in validationState *)
Bad(k) == err[k] # "none"

Init ==
  /\ deps \in [Items -> SUBSET Items]
  /\ err \in [Items -> {"none", "schema"}]
  /\ ~LoadErrors => \A k \in Items : err[k] = "none"
  /\ resolved = {}
  /\ runs = [k \in Items |-> 0]
  /\ stage = "load"
  /\ early = <<>>
  /\ earlyCalls = 0
  /\ decs \in 0..MaxDecs
  /\ checked = FALSE
  /\ keys = {} /\ waiting = {} /\ inProgress = {} /\ started = {}
  /\ undecided = {} /\ sure = {}

-----------------------------------------------------------------------------
(* ConfigItem.resolve from the start of the value resolver to its end: the   *)
(* item has a value, has none because of an error, or has an invalid one.    *)
(* An error of an earlier run is never cleared and keeps the value out.      *)
Settle(k) ==
  \/ /\ err[k] = "none"
     /\ resolved' = resolved \cup {k}
     /\ \E e \in {"none", "value"} : err' = [err EXCEPT ![k] = e]
  \/ err' = [err EXCEPT ![k] = "value"] /\ UNCHANGED resolved

Ran(k) == runs' = [runs EXCEPT ![k] = @ + 1]

(* While the sources load: @currentEnv, @disable and @import conditions      *)
(* resolve the items they need, before any cycle check.                      *)
EarlyCall(k) ==
  /\ stage = "load" /\ early = <<>>
  /\ earlyCalls < MaxEarly
  /\ EarlyCycles \/ \A d \in Closure(deps, {k}) : ~OnCycle(deps, d)
  /\ earlyCalls' = earlyCalls + 1
  /\ early' = <<[item |-> k, left |-> deps[k]]>>
  /\ UNCHANGED <<deps, err, resolved, runs, stage, decs, checked, calls, filter>>

Innermost == early[Len(early)]

(* The next dependency is resolved early first, whatever becomes of it. *)
EarlyDep ==
  /\ early # <<>>
  /\ \E d \in Innermost.left :
       early' = Append([early EXCEPT ![Len(early)].left = @ \ {d}],
                       [item |-> d, left |-> deps[d]])
  /\ UNCHANGED <<deps, err, resolved, runs, stage, earlyCalls, decs, checked,
                 calls, filter>>

EarlyReturn ==
  /\ early # <<>>
  /\ Innermost.left = {}
  /\ LET k == Innermost.item IN
       IF err[k] = "schema" \/ k \in resolved
         THEN UNCHANGED <<err, resolved, runs>>
         ELSE Settle(k) /\ Ran(k)
  /\ early' = SubSeq(early, 1, Len(early) - 1)
  /\ UNCHANGED <<deps, stage, earlyCalls, decs, checked, calls, filter>>

-----------------------------------------------------------------------------
(* finishLoad: a source, plugin or root decorator with errors ends the load  *)
(* (its callers report them and stop); an item with errors ends finishLoad   *)
(* before its cycle check, and the callers go on.                            *)
LoadFails ==
  /\ stage = "load" /\ early = <<>>
  /\ stage' = "failed"
  /\ UNCHANGED <<deps, err, resolved, runs, early, earlyCalls, decs, checked,
                 calls, filter>>

ItemErrorsFound ==
  /\ stage = "load" /\ early = <<>>
  /\ \E k \in Items : Bad(k)
  /\ stage' = "caller"
  /\ UNCHANGED <<deps, err, resolved, runs, early, earlyCalls, decs, checked,
                 calls, filter>>

(* findGraphCycles (module GraphUtils): the items of the cycles it finds get *)
(* a schema error.                                                           *)
CheckCycles ==
  /\ stage = "load" /\ early = <<>>
  /\ \A k \in Items : ~Bad(k)
  /\ \E marked \in SUBSET Items :
       /\ BreaksCycles(deps, marked)
       /\ err' = [k \in Items |-> IF k \in marked THEN "schema" ELSE err[k]]
  /\ checked' = TRUE
  /\ stage' = "decorators"
  /\ UNCHANGED <<deps, resolved, runs, early, earlyCalls, decs, calls, filter>>

-----------------------------------------------------------------------------
Idle == keys = {}

(* Mutant: the given keys without what their dependencies depend on. *)
ExpandKeysOneLevel(S) == S \cup UNION {deps[k] : k \in S}

(* expandKeysWithTransitiveDeps *)
ExpandKeys(S) == Closure(deps, S)

(* Mutant: every item of the schema is resolved. *)
ResolveWholeSchema(S) ==
  /\ keys' = S
  /\ waiting' = Items
  /\ inProgress' = {}
  /\ started' = IF S = {} THEN {} ELSE Items

(* resolveEnvValues(S): returns at once when S is empty, and otherwise calls *)
(* startResolveItem for every item of the schema.                            *)
ResolveEnvValues(S) ==
  /\ keys' = S
  /\ waiting' = S
  /\ inProgress' = {}
  /\ started' = IF S = {} THEN {} ELSE Items

(* A root decorator: the items it refers to are resolved; its execution may  *)
(* fail, which ends the load once all decorators have run.                   *)
ExecuteDecorator ==
  /\ stage = "decorators" /\ Idle
  /\ decs > 0
  /\ decs' = decs - 1
  /\ \E S \in SUBSET Items : ResolveEnvValues(ExpandKeys(S))
  /\ UNCHANGED <<deps, err, resolved, runs, stage, early, earlyCalls, checked, filter>>

DecoratorsDone ==
  /\ stage = "decorators" /\ Idle
  /\ decs = 0
  /\ stage' \in {"caller", "failed"}
  /\ UNCHANGED <<deps, err, resolved, runs, early, earlyCalls, decs, checked,
                 calls, filter>>

(* The caller resolves everything, or one item (resolveItemWithDeps), or     *)
(* what a filter without decorator selectors matches.                        *)
ResolveSelected ==
  /\ stage = "caller"
  /\ stage' = "values"
  /\ \E S \in SUBSET Items : ResolveEnvValues(ExpandKeys(S))
  /\ UNCHANGED <<deps, err, resolved, runs, early, earlyCalls, decs, checked, filter>>

(* resolveEnvValuesForFilter with decorator selectors: items are in, out or  *)
(* undecided; what the decorators of the undecided ones refer to is resolved *)
(* first ...                                                                 *)
PreEvaluate ==
  /\ stage = "caller"
  /\ stage' = "metadata"
  /\ sure' \in SUBSET Items
  /\ undecided' \in SUBSET (Items \ sure')
  /\ \E S \in SUBSET UNION {deps[k] : k \in undecided'} :
       ResolveEnvValues(ExpandKeys(S))
  /\ UNCHANGED <<deps, err, resolved, runs, early, earlyCalls, decs, checked>>

(* ... then their metadata, which may turn up schema errors, and then the    *)
(* filter is evaluated and the values of what it matches are resolved.       *)
ResolveMatched ==
  /\ stage = "metadata" /\ Idle
  /\ stage' = "values"
  /\ \E bad \in SUBSET {k \in undecided \ resolved : ~Bad(k)} :
       err' = [k \in Items |-> IF k \in bad THEN "schema" ELSE err[k]]
  /\ \E S \in SUBSET undecided : ResolveEnvValues(ExpandKeys(sure \cup S))
  /\ UNCHANGED <<deps, resolved, runs, early, earlyCalls, decs, checked, filter>>

Finish ==
  /\ stage = "values" /\ Idle
  /\ stage' = "done"
  /\ UNCHANGED <<deps, err, resolved, runs, early, earlyCalls, decs, checked,
                 calls, filter>>

-----------------------------------------------------------------------------
unchangedByCall == <<deps, stage, early, earlyCalls, decs, checked, keys, filter>>

Pending(k) == k \in waiting \cup inProgress

Dependents(k) == {j \in keys : k \in deps[j]}

(* Mutant: a completed item does not start its dependents. *)
MarkItemCompletedAlone(k) ==
  /\ waiting' = waiting \ {k}
  /\ inProgress' = inProgress \ {k}
  /\ started' = started \ {k}

(* markItemCompleted *)
MarkItemCompleted(k) ==
  /\ waiting' = waiting \ {k}
  /\ inProgress' = inProgress \ {k}
  /\ started' = (started \ {k}) \cup Dependents(k)

(* resolveItem, called for an item that is done, in progress or not wanted. *)
StartIgnored(k) ==
  /\ k \in started \ waiting
  /\ started' = started \ {k}
  /\ UNCHANGED <<err, resolved, runs, waiting, inProgress, unchangedByCall>>

(* ... for an item with errors *)
StartBad(k) ==
  /\ k \in started \cap waiting
  /\ Bad(k)
  /\ MarkItemCompleted(k)
  /\ UNCHANGED <<err, resolved, runs, unchangedByCall>>

(* Mutant: the item is left without a value and without an error. *)
StartInvalidQuietly(k) ==
  /\ k \in started \cap waiting
  /\ ~Bad(k)
  /\ \E d \in deps[k] : Bad(d)
  /\ MarkItemCompleted(k)
  /\ UNCHANGED <<err, resolved, runs, unchangedByCall>>

(* ... for an item with an invalid dependency, which makes it invalid too    *)
StartInvalid(k) ==
  /\ k \in started \cap waiting
  /\ ~Bad(k)
  /\ \E d \in deps[k] : Bad(d)
  /\ err' = [err EXCEPT ![k] = "value"]
  /\ MarkItemCompleted(k)
  /\ UNCHANGED <<resolved, runs, unchangedByCall>>

(* ... for an item with a pending dependency, if the code comes to it before *)
(* an invalid one; the dependency's completion will start the item again.    *)
StartTooEarly(k) ==
  /\ k \in started \cap waiting
  /\ ~Bad(k)
  /\ \E d \in deps[k] : ~Bad(d) /\ Pending(d)
  /\ started' = started \ {k}
  /\ UNCHANGED <<err, resolved, runs, waiting, inProgress, unchangedByCall>>

(* Mutant: an item that has its value already is resolved again. *)
StartResolvedAgain(k) ==
  /\ k \in started \cap waiting
  /\ ~Bad(k)
  /\ \A d \in deps[k] : ~Bad(d) /\ ~Pending(d)
  /\ waiting' = waiting \ {k}
  /\ inProgress' = inProgress \cup {k}
  /\ started' = started \ {k}
  /\ Ran(k)
  /\ UNCHANGED <<err, resolved, unchangedByCall>>

(* ... for an item whose dependencies are done: item.resolve() is called,    *)
(* which runs the value resolver unless the item is resolved already.        *)
Start(k) ==
  /\ k \in started \cap waiting
  /\ ~Bad(k)
  /\ \A d \in deps[k] : ~Bad(d) /\ ~Pending(d)
  /\ waiting' = waiting \ {k}
  /\ inProgress' = inProgress \cup {k}
  /\ started' = started \ {k}
  /\ IF k \in resolved THEN UNCHANGED runs ELSE Ran(k)
  /\ UNCHANGED <<err, resolved, unchangedByCall>>

(* item.resolve() settles. *)
Resolve(k) ==
  /\ k \in inProgress
  /\ started = {}
  /\ IF k \in resolved THEN UNCHANGED <<err, resolved>> ELSE Settle(k)
  /\ MarkItemCompleted(k)
  /\ UNCHANGED <<runs, unchangedByCall>>

(* item.resolve() throws, which rejects the call and with it the load. *)
ResolveThrows(k) ==
  /\ k \in inProgress \ resolved
  /\ started = {}
  /\ stage' = "failed"
  /\ keys' = {} /\ waiting' = {} /\ inProgress' = {} /\ started' = {}
  /\ UNCHANGED <<deps, err, resolved, runs, early, earlyCalls, decs, checked, filter>>

(* The last item is done and no call of startResolveItem is pending.         *)
Return ==
  /\ keys # {}
  /\ waiting = {} /\ inProgress = {} /\ started = {}
  /\ keys' = {}
  /\ UNCHANGED <<deps, err, resolved, runs, stage, early, earlyCalls, decs,
                 checked, waiting, inProgress, started, filter>>

-----------------------------------------------------------------------------
(* Steps the event loop takes of its own accord. *)
Advance ==
  \/ EarlyDep \/ EarlyReturn
  \/ \E k \in Items :
       \/ StartIgnored(k) \/ StartBad(k) \/ StartInvalid(k) \/ StartTooEarly(k)
       \/ Start(k) \/ Resolve(k) \/ ResolveThrows(k)
  \/ Return

Next ==
  \/ \E k \in Items : EarlyCall(k)
  \/ LoadFails \/ ItemErrorsFound \/ CheckCycles
  \/ ExecuteDecorator \/ DecoratorsDone
  \/ ResolveSelected \/ PreEvaluate \/ ResolveMatched \/ Finish
  \/ Advance

Spec == Init /\ [][Next]_vars

(* Pending calls run, and every resolver settles. *)
FairSpec == Spec /\ WF_vars(Advance)

-----------------------------------------------------------------------------
TypeOK ==
  /\ deps \in [Items -> SUBSET Items]
  /\ err \in [Items -> Errors]
  /\ resolved \subseteq Items
  /\ runs \in [Items -> Nat]
  /\ stage \in Stages
  /\ early \in Seq([item : Items, left : SUBSET Items])
  /\ earlyCalls \in 0..MaxEarly
  /\ decs \in 0..MaxDecs
  /\ checked \in BOOLEAN
  /\ keys \subseteq Items
  /\ waiting \subseteq keys
  /\ inProgress \subseteq keys
  /\ started \subseteq Items
  /\ undecided \subseteq Items
  /\ sure \subseteq Items

(* In a call of resolveEnvValues the value resolver of an item runs only     *)
(* when every item it refers to has a valid value (there "has not been       *)
(* resolved yet" and "is not valid" in getDepValue are never thrown), though *)
(* the items settle in any order.  earlyResolve has no such care: it runs a  *)
(* resolver also when a dependency of it has failed, and what getDepValue    *)
(* throws then becomes the item's own error.                                 *)
ReadsOnlyValid ==
  \A k \in inProgress \ resolved : \A d \in deps[k] : d \in resolved /\ ~Bad(d)

(* No resolver (an exec, a call to a secrets manager) is run again for an    *)
(* item, by this call or a later one, unless it failed while loading.        *)
RunsOnce == \A k \in Items : runs[k] > 1 => err[k] = "value"

(* What a call is done with has a value or an error, and has an error when   *)
(* something it refers to has: no value is built on an invalid one.          *)
Completed == keys \ (waiting \cup inProgress)

ErrorsPropagate ==
  \A k \in Completed :
    /\ k \in resolved \/ Bad(k)
    /\ (\E d \in deps[k] : Bad(d)) => Bad(k)

(* A call never comes to a stop with items left, whatever the dependency     *)
(* graph, once the cycle check has run.                                      *)
NeverStuck ==
  checked /\ started = {} /\ inProgress = {} => waiting = {}

(* "item-level schema errors are fine - they don't prevent resolution": the  *)
(* promise of resolveEnvValues settles.                                      *)
ResolutionSettles == keys # {} ~> keys = {}

=============================================================================
