----------------------------- MODULE ProxyProofs ------------------------------
(* Machine-checked proofs about the proxy: ProxyGate with the operators of    *)
(* ProxyPolicy, and ProxyReload.                                              *)
EXTENDS ProxyGate, ProxyReload, FiniteSetTheorems, TLAPS

-----------------------------------------------------------------------------
(* Types. *)

LEMMA SchemaTypes ==
  ASSUME NEW p \in Schemas
  PROVE  p.rules \subseteq SchemaRules /\ p.rules \subseteq Rules
BY GateAssumption DEF SchemaRules, Policies

LEMMA SchemaRuleTypes == SchemaRules \subseteq Rules
BY SchemaTypes DEF SchemaRules

LEMMA ApproverTypes ==
  ASSUME NEW p \in Schemas, NEW q
  PROVE  Approvers(p, q) \subseteq SchemaRules
BY SchemaTypes DEF Approvers, TopTier, Grants, Matching

LEMMA RuleCeiling ==
  ASSUME NEW s \in SchemaRules
  PROVE  s.ceiling \in Nat \cup {Forever}
BY SchemaRuleTypes DEF Rules

LEMMA ChosenTypes ==
  ASSUME NEW s \in SchemaRules, NEW key, Chosen(s, key) # {}
  PROVE  (CHOOSE l \in Chosen(s, key) : TRUE) \in Nat \cup {Forever}
<1>1. DefaultGrant \in Nat
  BY GateAssumption
<1>2. Chosen(s, key) \subseteq Nat \cup {Forever}
  BY <1>1, RuleCeiling DEF Chosen
<1> QED
  BY <1>2

LEMMA ClampTypes ==
  ASSUME NEW life \in Nat \cup {Forever}, NEW ceiling \in Nat \cup {Forever}
  PROVE  /\ Clamp(life, ceiling) \in Nat \cup {Forever}
         /\ ceiling # Forever => Clamp(life, ceiling) \in Nat /\ Clamp(life, ceiling) <= ceiling
<1>1. Forever \notin Nat
  BY PolicyAssumption
<1>2. CASE life = 0 \/ ceiling = 0
  BY <1>1, <1>2 DEF Clamp
<1>3. CASE life # 0 /\ ceiling # 0
  BY <1>1, <1>3 DEF Clamp
<1> QED
  BY <1>2, <1>3

(* What a person's answer adds to the file keeps within the ceiling of the   *)
(* rule that asked.                                                          *)
Bounded(g) == g.cap # Forever => g.until # Forever /\ g.until <= g.at + g.cap

LEMMA LineTypes ==
  ASSUME NEW r \in Requests, rule[r] \in SchemaRules, shape[r] \in Traffic, now \in Nat,
         NEW life \in Nat \cup {Forever}
  PROVE  /\ Line(r, Clamp(life, rule[r].ceiling)) \in GrantLines
         /\ Bounded(Line(r, Clamp(life, rule[r].ceiling)))
<1> DEFINE c == rule[r].ceiling
           l == Clamp(life, c)
           k == GrantKey(rule[r], shape[r])
           u == IF l = Forever THEN Forever ELSE now + l
<1>1. c \in Nat \cup {Forever} /\ Forever \notin Nat
  BY RuleCeiling, PolicyAssumption
<1>2. l \in Nat \cup {Forever} /\ (c # Forever => l \in Nat /\ l <= c)
  BY <1>1, ClampTypes
<1>3. k \in {GrantKey(s, q) : s \in SchemaRules, q \in Traffic}
  OBVIOUS
<1>4. Line(r, l) = [key |-> k, at |-> now, until |-> u, cap |-> c]
  BY DEF Line
<1> HIDE DEF c, l, k
<1>5. u \in Nat \cup {Forever} /\ (c # Forever => u # Forever /\ u <= now + c)
  BY <1>1, <1>2
<1> HIDE DEF u
<1>6. Line(r, l) \in GrantLines
  BY <1>1, <1>3, <1>4, <1>5 DEF GrantLines
<1>7. Bounded(Line(r, l))
  BY <1>4, <1>5 DEF Bounded
<1> QED
  BY <1>6, <1>7 DEF l, c

LEMMA DecidedTypes == ASSUME NEW r PROVE Decided(r) \in {"verify", "refused"}
BY DEF Decided

-----------------------------------------------------------------------------
(* What is known of a request at each stage.  Its policy is the one of its   *)
(* arrival; its guards have passed before it waits for approval; it goes on  *)
(* with a leave if one is needed, and its secrets leave in one step.         *)
Cleared(r) == ~RefusedForBody(under[r], shape[r])

Gate(r) ==
  /\ stage[r] \in {"lookup", "prompt", "storing"} =>
       rule[r] \in Approvers(under[r], shape[r]) /\ Cleared(r)
  /\ stage[r] \in {"lookup", "storing"} => Remembers(rule[r])
  /\ stage[r] = "storing" => leave[r] = "yes"
  /\ stage[r] \in {"verify", "sent"} =>
       Cleared(r) /\ (Asks(under[r], shape[r]) => leave[r] # "none")
  /\ stage[r] # "sent" => sent[r] = {}
  /\ stage[r] = "sent" => sent[r] = Swapped(under[r], shape[r])

(* The grant a request was let through by was in force at its lookup. *)
Found(r) ==
  /\ found[r] # {} => stage[r] \in {"verify", "refused", "sent"}
  /\ \A g \in found[r] : /\ g \in GrantLines /\ Bounded(g)
                         /\ Remembers(rule[r])
                         /\ g.key = GrantKey(rule[r], shape[r])
                         /\ Live(g, since[r])

GateInv  == \A r \in Requests : Gate(r)
FoundInv == \A r \in Requests : Found(r)
LineInv  == \A g \in grants \cup UNION {given[r] : r \in Requests} : Bounded(g)

IInv == TypeOK /\ GateInv /\ FoundInv /\ LineInv

LEMMA InitInv == Init => IInv
<1> SUFFICES ASSUME Init PROVE IInv
  OBVIOUS
<1>1. TypeOK
  BY GateAssumption DEF Init, TypeOK, Stages, Waiting
<1>2. GateInv /\ FoundInv
  BY DEF Init, GateInv, FoundInv, Gate, Found
<1>3. LineInv
  BY DEF Init, LineInv
<1> QED
  BY <1>1, <1>2, <1>3 DEF IInv

-----------------------------------------------------------------------------
LEMMA TypeNext == TypeOK /\ GateInv /\ [Next]_vars => TypeOK'
<1> SUFFICES ASSUME TypeOK, GateInv, [Next]_vars PROVE TypeOK'
  OBVIOUS
<1>1. CASE UNCHANGED vars
  BY <1>1 DEF vars, request, TypeOK
<1>2. ASSUME NEW r \in Requests, Arrive(r) PROVE TypeOK'
  BY <1>2 DEF Arrive, TypeOK, Stages, Waiting
<1>3. ASSUME NEW r \in Requests,
             PassBody(r) \/ LookupFails(r) \/ PromptTimesOut(r) \/ PromptCloses(r) \/ VerifyFails(r)
      PROVE  TypeOK'
  BY <1>3 DEF PassBody, LookupFails, PromptTimesOut, PromptCloses, VerifyFails,
     TypeOK, Stages, Waiting
<1>4. ASSUME NEW r \in Requests, AskLeave(r) PROVE TypeOK'
  <2>1. \E s \in SchemaRules : rule' = [rule EXCEPT ![r] = s]
    BY <1>4, ApproverTypes DEF AskLeave, TypeOK
  <2>2. Deadline(now) \in Nat
    BY GateAssumption DEF TypeOK, Deadline
  <2> QED
    BY <1>4, <2>1, <2>2 DEF AskLeave, TypeOK, Stages, Waiting
<1>5. ASSUME NEW r \in Requests, FindGrant(r) \/ OpenPrompt(r) PROVE TypeOK'
  BY <1>5, DecidedTypes DEF FindGrant, OpenPrompt, TypeOK, Stages, Waiting
<1>6. ASSUME NEW r \in Requests, StoreGrant(r) PROVE TypeOK'
  BY <1>6, DecidedTypes DEF StoreGrant, TypeOK, Stages, Waiting
<1>7. ASSUME NEW r \in Requests, Forward(r) PROVE TypeOK'
  <2>1. Swapped(under[r], shape[r]) \in SUBSET Marks
    BY GateAssumption DEF TypeOK, Swapped, Shapes
  <2> QED
    BY <1>7, <2>1 DEF Forward, TypeOK, Stages, Waiting
<1>8. ASSUME NEW key, Answer(key) PROVE TypeOK'
  <2> DEFINE Yes == {r \in Prompting : Chosen(rule[r], key) # {}}
             Life(r) == Clamp(CHOOSE l \in Chosen(rule[r], key) : TRUE, rule[r].ceiling)
             Keeps == {r \in Yes : Remembers(rule[r]) /\ Life(r) # 0}
  <2>1. /\ leave' = [r \in Requests |-> IF r \in Yes THEN "yes" ELSE leave[r]]
        /\ given' = [r \in Requests |-> IF r \in Keeps THEN {Line(r, Life(r))} ELSE given[r]]
        /\ since' = [r \in Requests |-> IF r \in Yes THEN now ELSE since[r]]
        /\ stage' = [r \in Requests |->
                       IF r \in Keeps          THEN "storing"
                       ELSE IF r \in Yes       THEN Decided(r)
                       ELSE IF r \in Prompting THEN "refused"
                       ELSE stage[r]]
        /\ UNCHANGED <<active, now, reloads, grants, shape, under, rule, expires, found, sent>>
    BY <1>8 DEF Answer
  <2>2. ASSUME NEW r \in Keeps PROVE Line(r, Life(r)) \in GrantLines
    <3>1. r \in Requests /\ rule[r] \in SchemaRules
      BY ApproverTypes DEF Prompting, GateInv, Gate, TypeOK
    <3>2. (CHOOSE l \in Chosen(rule[r], key) : TRUE) \in Nat \cup {Forever}
      BY <3>1, ChosenTypes
    <3> QED
      BY <3>1, <3>2, LineTypes DEF TypeOK
  <2> HIDE DEF Yes, Life, Keeps
  <2>3. given' \in [Requests -> SUBSET GrantLines]
    BY <2>1, <2>2 DEF TypeOK
  <2>4. stage' \in [Requests -> Stages]
    BY <2>1, DecidedTypes DEF TypeOK, Stages, Waiting
  <2>5. leave' \in [Requests -> {"none", "grant", "yes"}] /\ since' \in [Requests -> Nat]
    BY <2>1 DEF TypeOK
  <2> QED
    BY <2>1, <2>3, <2>4, <2>5 DEF TypeOK
<1>9. ASSUME NEW p \in Schemas, Reconfigure(p) PROVE TypeOK'
  BY <1>9, GateAssumption DEF Reconfigure, request, TypeOK
<1>10. CASE Tick
  BY <1>10, GateAssumption DEF Tick, request, TypeOK
<1> QED
  BY <1>1, <1>2, <1>3, <1>4, <1>5, <1>6, <1>7, <1>8, <1>9, <1>10 DEF Next, Handle

-----------------------------------------------------------------------------
LEMMA RequestsNext == IInv /\ [Next]_vars => GateInv' /\ FoundInv'
<1> SUFFICES ASSUME IInv, [Next]_vars, NEW x \in Requests PROVE Gate(x)' /\ Found(x)'
  BY DEF GateInv, FoundInv
<1>0. TypeOK /\ Gate(x) /\ Found(x)
  BY DEF IInv, GateInv, FoundInv
<1> DEFINE Same == /\ stage'[x] = stage[x] /\ rule'[x] = rule[x] /\ under'[x] = under[x]
                   /\ shape'[x] = shape[x] /\ leave'[x] = leave[x] /\ sent'[x] = sent[x]
                   /\ found'[x] = found[x] /\ since'[x] = since[x]
<1>s. ASSUME Same PROVE Gate(x)' /\ Found(x)'
  BY <1>0, <1>s DEF Gate, Found, Cleared
<1>1. CASE UNCHANGED vars
  BY <1>1, <1>s DEF vars, request
<1>2. ASSUME NEW r \in Requests, Handle(r), r # x PROVE Gate(x)' /\ Found(x)'
  <2>1. Same
    BY <1>0, <1>2 DEF Handle, Arrive, PassBody, AskLeave, FindGrant, OpenPrompt, LookupFails,
       PromptTimesOut, PromptCloses, StoreGrant, Forward, VerifyFails, TypeOK
  <2> QED
    BY <2>1, <1>s
<1>3. CASE Arrive(x)
  BY <1>0, <1>3 DEF Arrive, TypeOK, Gate, Found
<1>4. CASE PassBody(x)
  BY <1>0, <1>4 DEF PassBody, TypeOK, Gate, Found, Cleared
<1>5. CASE AskLeave(x)
  BY <1>0, <1>5 DEF AskLeave, TypeOK, Gate, Found, Cleared
<1>6. CASE FindGrant(x)
  <2>1. PICK g \in grants : /\ g.key = GrantKey(rule[x], shape[x])
                            /\ Live(g, since[x])
                            /\ found' = [found EXCEPT ![x] = {g}]
    BY <1>6 DEF FindGrant
  <2>2. g \in GrantLines /\ Bounded(g)
    BY DEF IInv, LineInv, TypeOK
  <2>3. /\ stage[x] = "lookup" /\ stage' = [stage EXCEPT ![x] = Decided(x)]
        /\ leave' = [leave EXCEPT ![x] = "grant"]
        /\ UNCHANGED <<shape, under, rule, since, sent>>
    BY <1>6 DEF FindGrant
  <2>4. stage'[x] \in {"verify", "refused"} /\ leave'[x] = "grant" /\ found'[x] = {g}
    BY <1>0, <2>1, <2>3, DecidedTypes DEF TypeOK
  <2>5. Gate(x)'
    BY <1>0, <2>3, <2>4 DEF Gate, Cleared
  <2>6. Found(x)'
    BY <1>0, <2>1, <2>2, <2>3, <2>4 DEF Gate, Found
  <2> QED
    BY <2>5, <2>6
<1>7. CASE OpenPrompt(x)
  BY <1>0, <1>7 DEF OpenPrompt, TypeOK, Gate, Found, Cleared
<1>8. CASE LookupFails(x) \/ PromptTimesOut(x) \/ PromptCloses(x) \/ VerifyFails(x)
  BY <1>0, <1>8 DEF LookupFails, PromptTimesOut, PromptCloses, VerifyFails, TypeOK, Gate, Found
<1>9. CASE StoreGrant(x)
  BY <1>0, <1>9, DecidedTypes DEF StoreGrant, TypeOK, Gate, Found, Cleared
<1>10. CASE Forward(x)
  BY <1>0, <1>10 DEF Forward, TypeOK, Gate, Found, Cleared
<1>11. ASSUME NEW key, Answer(key) PROVE Gate(x)' /\ Found(x)'
  <2>1. CASE x \notin Prompting
    <3>1. Same
      BY <1>0, <1>11, <2>1 DEF Answer, TypeOK
    <3> QED
      BY <3>1, <1>s
  <2>2. CASE x \in Prompting
    <3>1. /\ stage[x] = "prompt"
          /\ UNCHANGED <<shape, under, rule, found, sent>>
      BY <1>11, <2>2 DEF Answer, Prompting
    <3>2. \/ stage'[x] = "storing" /\ leave'[x] = "yes" /\ Remembers(rule[x])
          \/ stage'[x] \in {"verify", "refused"} /\ leave'[x] = "yes"
          \/ stage'[x] = "refused"
      BY <1>11, <2>2, DecidedTypes DEF Answer
    <3> QED
      BY <1>0, <3>1, <3>2 DEF Gate, Found, Cleared
  <2> QED
    BY <2>1, <2>2
<1>12. ASSUME NEW p \in Schemas, Reconfigure(p) PROVE Gate(x)' /\ Found(x)'
  BY <1>12, <1>s DEF Reconfigure, request
<1>13. CASE Tick
  BY <1>13, <1>s DEF Tick, request
<1> QED
  BY <1>1, <1>2, <1>3, <1>4, <1>5, <1>6, <1>7, <1>8, <1>9, <1>10, <1>11, <1>12, <1>13
  DEF Next, Handle

LEMMA LineNext == IInv /\ [Next]_vars => LineInv'
<1> SUFFICES ASSUME IInv, [Next]_vars, NEW g \in grants' \cup UNION {given'[r] : r \in Requests}
             PROVE  Bounded(g)
  BY DEF LineInv
<1>0. \A h \in grants \cup UNION {given[r] : r \in Requests} : Bounded(h)
  BY DEF IInv, LineInv
<1>1. CASE UNCHANGED <<grants, given>>
  BY <1>0, <1>1
<1>2. ASSUME NEW r \in Requests, StoreGrant(r) PROVE Bounded(g)
  BY <1>0, <1>2 DEF StoreGrant
<1>3. ASSUME NEW key, Answer(key) PROVE Bounded(g)
  <2>1. \/ g \in grants \cup UNION {given[r] : r \in Requests}
        \/ \E r \in Prompting :
             /\ Chosen(rule[r], key) # {}
             /\ g = Line(r, Clamp(CHOOSE l \in Chosen(rule[r], key) : TRUE, rule[r].ceiling))
    BY <1>3 DEF Answer
  <2>2. ASSUME NEW r \in Prompting, Chosen(rule[r], key) # {},
               g = Line(r, Clamp(CHOOSE l \in Chosen(rule[r], key) : TRUE, rule[r].ceiling))
        PROVE  Bounded(g)
    <3>1. r \in Requests /\ rule[r] \in SchemaRules
      BY ApproverTypes DEF Prompting, IInv, GateInv, Gate, TypeOK
    <3>2. (CHOOSE l \in Chosen(rule[r], key) : TRUE) \in Nat \cup {Forever}
      BY <2>2, <3>1, ChosenTypes
    <3> QED
      BY <2>2, <3>1, <3>2, LineTypes DEF IInv, TypeOK
  <2> QED
    BY <1>0, <2>1, <2>2
<1>4. \/ UNCHANGED <<grants, given>>
      \/ \E r \in Requests : StoreGrant(r)
      \/ \E key \in {"y", "s", "m", "n"} : Answer(key)
  BY DEF Next, vars, request, Handle, Arrive, PassBody, AskLeave, FindGrant, OpenPrompt,
     LookupFails, PromptTimesOut, PromptCloses, Forward, VerifyFails, Reconfigure, Tick
<1> QED
  BY <1>1, <1>2, <1>3, <1>4

LEMMA Invariance == Spec => []IInv
<1>1. IInv /\ [Next]_vars => IInv'
  BY TypeNext, RequestsNext, LineNext DEF IInv
<1> QED
  BY <1>1, InitInv, PTL DEF Spec

(* The variables have their types. *)
THEOREM TypeTheorem == Spec => []TypeOK
<1>1. IInv => TypeOK
  BY DEF IInv
<1> QED
  BY <1>1, Invariance, PTL

-----------------------------------------------------------------------------
(* What leaves. *)

LEMMA SentFacts ==
  ASSUME IInv, NEW r \in Requests, NEW m \in sent[r]
  PROVE  /\ m \in Swapped(under[r], shape[r])
         /\ ~RefusedForBody(under[r], shape[r])
         /\ Asks(under[r], shape[r]) => leave[r] # "none"
BY DEF IInv, GateInv, Gate, Cleared

(* No secret leaves that only a rule behind an unanswered approval names,    *)
(* for every policy, every traffic and any number of requests and reloads.   *)
THEOREM LeaveTheorem == Spec => []LeaveBeforeSecrets
<1>1. IInv => LeaveBeforeSecrets
  <2> SUFFICES ASSUME IInv, NEW r \in Requests, NEW m \in sent[r]
               PROVE  \E s \in under[r].rules :
                        /\ shape[r].host \in s.hosts /\ shape[r].end \in s.ends
                        /\ m.key \in s.keys
                        /\ s.gate # "block"
                        /\ s.gate = "approval" => leave[r] # "none"
    BY DEF LeaveBeforeSecrets
  <2>1. PICK s \in Active(under[r], shape[r]) : m.key \in s.keys
    BY SentFacts DEF Swapped, ScopedKeys
  <2> QED
    BY <2>1, SentFacts DEF Active, Grants, Matching
<1> QED
  BY <1>1, Invariance, PTL

-----------------------------------------------------------------------------
(* The surfaces that substitution rewrites and the marks the guards count.   *)

LEMMA ActiveMatches ==
  ASSUME NEW p, NEW q
  PROVE  Active(p, q) \subseteq Grants(p, q) /\ Grants(p, q) \subseteq Matching(p, q)
BY DEF Active, Grants

LEMMA TargetForCovers ==
  ASSUME NEW T, NEW place, NEW t \in TargetFor(T, place)
  PROVE  t \in T /\ Covers(t, place) /\ TargetFor(T, place) = {t}
BY DEF TargetFor, Covers

(* When the guards pass, a mark that is swapped has its target.              *)
LEMMA SwappedHasTarget ==
  ASSUME NEW p \in Policies, NEW q \in Shapes, ~RefusedForBody(p, q), NEW m \in Swapped(p, q)
  PROVE  /\ TargetFor(ScopedTargets(p, q, m.key), m.place) # {}
         /\ m \in MarksOf(q, m.key) /\ m.key \in ScopedKeys(p, q)
<1> DEFINE T == ScopedTargets(p, q, m.key)
<1>1. /\ m \in q.marks /\ m \in Marks /\ m.place \in Places
      /\ m.key \in ScopedKeys(p, q) /\ Rewritten(T, m.place)
  BY DEF Swapped, Shapes, Marks
<1>2. m \in MarksOf(q, m.key) /\ ~Misplaced(p, q, m.key)
  BY <1>1 DEF MarksOf, RefusedForBody, GuardsPass
<1>3. T \subseteq Targets
  BY DEF ScopedTargets, Active, Grants, Matching, Policies, Rules
<1>4. m.place[1] \in {"header", "query", "body", "path"}
  BY <1>1 DEF Places, Named
<1>5. CASE m.place[1] = "header"
  BY <1>1, <1>2, <1>5 DEF Rewritten
<1>6. CASE m.place[1] \in {"query", "body"}
  BY <1>1, <1>2, <1>6 DEF Rewritten, Misplaced
<1>7. CASE m.place[1] = "path"
  <2>1. m.place = <<"path", Bare>>
    BY <1>1, <1>7 DEF Places, Named
  <2>2. PICK t \in T : t[1] = "path"
    BY <1>1, <1>7 DEF Rewritten, Touched
  <2>3. t = <<"path", Bare>>
    BY <1>3, <2>2 DEF Targets, Named
  <2> QED
    BY <1>1, <1>2, <2>1, <2>2, <2>3 DEF TargetFor
<1> QED
  BY <1>1, <1>2, <1>4, <1>5, <1>6, <1>7

LEMMA TargetsFinite == IsFiniteSet(Targets)
<1>1. IsFiniteSet({"header", "query", "body"})
  <2>1. IsFiniteSet({"header"} \cup {"query"})
    BY FS_Singleton, FS_AddElement
  <2>2. IsFiniteSet(({"header"} \cup {"query"}) \cup {"body"})
    BY <2>1, FS_AddElement
  <2>3. ({"header"} \cup {"query"}) \cup {"body"} = {"header", "query", "body"}
    OBVIOUS
  <2> QED
    BY <2>2, <2>3
<1>2. IsFiniteSet(Names \cup {Bare})
  BY PolicyAssumption, FS_AddElement
<1>3. IsFiniteSet(Named \X (Names \cup {Bare}))
  BY <1>1, <1>2, FS_Product DEF Named
<1> QED
  BY <1>3, FS_AddElement DEF Targets

(* No more copies than targets: two marks of a key with one target would be  *)
(* a repetition.                                                             *)
LEMMA CopiesBounded ==
  ASSUME NEW p \in Policies, NEW q \in Shapes, ~RefusedForBody(p, q), NEW k \in Keys,
         NEW S \in SUBSET Swapped(p, q)
  PROVE  Cardinality({m \in S : m.key = k})
           <= Cardinality(UNION {s.targets : s \in {t \in Grants(p, q) : k \in t.keys}})
<1> DEFINE M == {m \in S : m.key = k}
           T == ScopedTargets(p, q, k)
           U == UNION {s.targets : s \in {t \in Grants(p, q) : k \in t.keys}}
           f == [m \in M |-> CHOOSE t \in TargetFor(T, m.place) : TRUE]
<1>1. T \subseteq U /\ U \subseteq Targets
  BY ActiveMatches DEF ScopedTargets, Grants, Matching, Policies, Rules
<1>2. IsFiniteSet(U)
  BY <1>1, TargetsFinite, FS_Subset
<1>3. ASSUME NEW m \in M
      PROVE  /\ f[m] \in TargetFor(T, m.place) /\ f[m] \in T
             /\ TargetFor(T, m.place) = {f[m]}
             /\ m \in MarksOf(q, k) /\ k \in ScopedKeys(p, q)
  <2>1. /\ TargetFor(T, m.place) # {}
        /\ m \in MarksOf(q, k) /\ k \in ScopedKeys(p, q)
    BY SwappedHasTarget
  <2>2. f[m] \in TargetFor(T, m.place)
    BY <2>1
  <2> QED
    BY <2>1, <2>2, TargetForCovers
<1> HIDE DEF f
<1>4. \A m, n \in M : f[m] = f[n] => m = n
  <2> SUFFICES ASSUME NEW m \in M, NEW n \in M, f[m] = f[n], m # n PROVE FALSE
    OBVIOUS
  <2>1. TargetFor(T, m.place) = {f[m]} /\ TargetFor(T, n.place) = {f[n]}
    BY <1>3
  <2>2. TargetFor(T, m.place) # {} /\ TargetFor(T, m.place) = TargetFor(T, n.place)
    BY <2>1
  <2>3. m \in MarksOf(q, k) /\ n \in MarksOf(q, k)
    BY <1>3
  <2>4. Repeated(p, q, k)
    BY <2>2, <2>3 DEF Repeated
  <2> QED
    BY <1>3, <2>4 DEF RefusedForBody, GuardsPass
<1>5. f \in [M -> U]
  BY <1>1, <1>3 DEF f
<1>6. f \in Injection(M, U)
  BY <1>4, <1>5 DEF Injection, IsInjective
<1> QED
  BY <1>2, <1>6, FS_Injection

(* Secrets are put where a target of a matching rule of theirs says, and     *)
(* never in more copies than there are targets.                              *)
THEOREM TargetTheorem == Spec => []SecretsOnTarget
<1>1. IInv => SecretsOnTarget
  <2> SUFFICES ASSUME IInv, NEW r \in Requests
               PROVE  /\ \A m \in sent[r] : \E s \in Matching(under[r], shape[r]) :
                           m.key \in s.keys /\ \E t \in s.targets : Covers(t, m.place)
                      /\ \A k \in Keys :
                           Cardinality({m \in sent[r] : m.key = k})
                             <= Cardinality(UNION {s.targets : s \in
                                  {t \in Grants(under[r], shape[r]) : k \in t.keys}})
    BY DEF SecretsOnTarget
  <2> DEFINE p == under[r]
             q == shape[r]
  <2>1. p \in Policies /\ q \in Shapes
    BY GateAssumption DEF IInv, TypeOK
  <2>2. sent[r] \subseteq Swapped(p, q)
    BY SentFacts
  <2>3. ASSUME NEW m \in sent[r]
        PROVE  \E s \in Matching(p, q) :
                 m.key \in s.keys /\ \E t \in s.targets : Covers(t, m.place)
    <3>1. TargetFor(ScopedTargets(p, q, m.key), m.place) # {}
      BY <2>1, <2>2, SentFacts, SwappedHasTarget
    <3>2. PICK t \in ScopedTargets(p, q, m.key) : Covers(t, m.place)
      BY <3>1, TargetForCovers
    <3>3. PICK s \in Active(p, q) : m.key \in s.keys /\ t \in s.targets
      BY <3>2 DEF ScopedTargets
    <3> QED
      BY <3>2, <3>3, ActiveMatches
  <2>4. ASSUME NEW k \in Keys
        PROVE  Cardinality({m \in sent[r] : m.key = k})
                 <= Cardinality(UNION {s.targets : s \in {t \in Grants(p, q) : k \in t.keys}})
    <3>1. CASE sent[r] = {}
      <4>1. {m \in sent[r] : m.key = k} = {}
        BY <3>1
      <4>2. IsFiniteSet(UNION {s.targets : s \in {t \in Grants(p, q) : k \in t.keys}})
        <5>1. UNION {s.targets : s \in {t \in Grants(p, q) : k \in t.keys}} \subseteq Targets
          BY <2>1 DEF Grants, Matching, Policies, Rules
        <5> QED
          BY <5>1, TargetsFinite, FS_Subset
      <4>3. Cardinality({}) = 0
        BY FS_EmptySet
      <4>4. Cardinality(UNION {s.targets : s \in {t \in Grants(p, q) : k \in t.keys}}) \in Nat
        BY <4>2, FS_CardinalityType
      <4> HIDE DEF p, q
      <4> QED
        BY <4>1, <4>3, <4>4
    <3>2. CASE sent[r] # {}
      <4>1. ~RefusedForBody(p, q)
        BY <3>2, SentFacts
      <4> QED
        BY <2>1, <2>2, <4>1, CopiesBounded
    <3> QED
      BY <3>1, <3>2
  <2> QED
    BY <2>3, <2>4
<1> QED
  BY <1>1, Invariance, PTL

-----------------------------------------------------------------------------
(* A standing grant stands in for a person only under a rule that may be     *)
(* remembered, and no longer than that rule's ceiling.                       *)
THEOREM CeilingTheorem == Spec => []CeilingHolds
<1>1. IInv => CeilingHolds
  <2> SUFFICES ASSUME IInv, NEW r \in Requests, NEW g \in found[r]
               PROVE  /\ rule[r].ceiling # 0
                      /\ g.cap = rule[r].ceiling /\ g.cap # Forever => since[r] < g.at + g.cap
    BY DEF CeilingHolds
  <2>1. g \in GrantLines /\ Bounded(g) /\ Remembers(rule[r]) /\ Live(g, since[r])
    BY DEF IInv, FoundInv, Found
  <2>2. g.at \in Nat /\ g.until \in Nat \cup {Forever} /\ g.cap \in Nat \cup {Forever}
        /\ since[r] \in Nat
    BY <2>1 DEF GrantLines, IInv, TypeOK
  <2>3. g.cap # Forever => since[r] < g.at + g.cap
    BY <2>1, <2>2 DEF Bounded, Live
  <2> QED
    BY <2>1, <2>3 DEF Remembers
<1> QED
  BY <1>1, Invariance, PTL

-----------------------------------------------------------------------------
(* ProxyReload. *)

(* A request that has not been made is nowhere. *)
NotYetAsked ==
  \A q \in Commands : asking[q] = "idle" =>
    /\ reqFile # q /\ resFile.request # q
    /\ \A j \in Jobs : job[j].request # q

(* What was on disk at a request, and what has been installed, is no newer   *)
(* than what is on disk now.                                                 *)
OnDisk ==
  /\ \A q \in Commands : asked[q] <= disk
  /\ best <= disk
  /\ \A j \in Jobs : job[j].at = "loaded" => job[j].schema <= disk

(* A reload carries a schema that is new enough for its request, and a reply *)
(* of "done" follows the installation of one.                                *)
Carried ==
  \A j \in Jobs :
    /\ job[j].at = "record" => job[j].schema <= best
    /\ job[j].request \in Commands =>
         /\ job[j].at \in {"loaded", "record"} => asked[job[j].request] <= job[j].schema
         /\ job[j].at = "reply" /\ job[j].status = "done" => asked[job[j].request] <= best

Answered ==
  \A q \in Commands :
    asking[q] = "done" \/ (resFile.request = q /\ resFile.status = "done") => asked[q] <= best

(* As long as no two reloads have overlapped there is one at a time: what it *)
(* has loaded is the newest schema, and what it has installed it records, if  *)
(* it can.                                                                   *)
Alone ==
  "doubled" \notin upsets =>
    /\ applied = best /\ fp <= applied
    /\ \A i, j \in Jobs : i \in Reloading /\ j \in Reloading => i = j
    /\ \A j \in Jobs : /\ job[j].at = "loaded" => best <= job[j].schema
                       /\ job[j].at = "record" => job[j].schema = applied
    /\ OwnerRuns => \/ fp = applied \/ "unrecorded" \in upsets
                    \/ \E j \in Jobs : job[j].at = "record"

ReloadInv == ReloadTypeOK /\ NotYetAsked /\ OnDisk /\ Carried /\ Answered /\ Alone

LEMMA ReloadInvInit == ReloadInit => ReloadInv
<1> SUFFICES ASSUME ReloadInit PROVE ReloadInv
  OBVIOUS
<1>1. /\ 0 \in Versions /\ 0 \in 0..MaxKeys
      /\ \A j \in Jobs : job[j] = NoJob
  BY ReloadAssumption DEF ReloadInit, Versions
<1>2. ReloadTypeOK
  BY <1>1 DEF ReloadInit, ReloadTypeOK, Statuses, NoJob
<1>3. NotYetAsked
  BY <1>1, ReloadAssumption DEF ReloadInit, NotYetAsked, NoJob
<1>4. OnDisk /\ Carried /\ Answered /\ Alone
  BY <1>1 DEF ReloadInit, OnDisk, Carried, Answered, Alone, Reloading, NoJob
<1> QED
  BY <1>2, <1>3, <1>4 DEF ReloadInv

(* What the types say of one reload and of the numbers. *)
JobTypes == [at : {"idle", "polled", "load", "loaded", "record", "reply"},
             request : Commands \cup {NoRequest}, schema : Versions, status : Statuses]

LEMMA ReloadTypes ==
  ASSUME ReloadTypeOK
  PROVE  /\ job \in [Jobs -> JobTypes] /\ NoJob \in JobTypes
         /\ 0 \in Versions /\ Versions \subseteq Nat
         /\ Ticks \subseteq Jobs /\ "key" \in Jobs /\ "key" \notin Ticks
<1>1. 0 \in Versions /\ Versions \subseteq Nat
  BY ReloadAssumption DEF Versions
<1>2. NoJob \in JobTypes
  BY <1>1 DEF NoJob, JobTypes, Statuses
<1> QED
  BY <1>1, <1>2, ReloadAssumption DEF ReloadTypeOK, JobTypes, Jobs

-----------------------------------------------------------------------------
(* A step that leaves every reload alone: of the owner, or of a command.     *)
LEMMA CommandsKeep ==
  ASSUME ReloadInv,
         \/ Seed \/ Close \/ Edit
         \/ \E q \in Commands : Ask(q) \/ Hear(q) \/ SeeGone(q) \/ StopWaiting(q)
  PROVE  ReloadInv'
<1> USE DEF ReloadInv
<1>0. /\ UNCHANGED <<job, applied, fp, best, busy, keys>>
      /\ upsets' = upsets \/ upsets' = upsets \ {"unanswered"}
  BY DEF Seed, Close, Edit, Ask, Hear, SeeGone, StopWaiting, Unasked, policy, servicer
<1>1. CASE Seed \/ Close
  <2>1. UNCHANGED <<reqFile, resFile, asking, asked, disk>>
    BY <1>1 DEF Seed, Close, asks, policy, channel
  <2>2. ReloadTypeOK'
    BY <1>0, <1>1, <2>1 DEF Seed, Close, ReloadTypeOK, servicer, Reloading
  <2>3. NotYetAsked' /\ OnDisk' /\ Carried' /\ Answered'
    BY <1>0, <2>1 DEF NotYetAsked, OnDisk, Carried, Answered
  <2>4. Alone'
    BY <1>0, <1>1, <2>1 DEF Seed, Close, Alone, OwnerRuns, Reloading
  <2> QED
    BY <2>2, <2>3, <2>4
<1>2. CASE Edit
  <2>1. /\ UNCHANGED <<reqFile, resFile, owner, initialized, lastRequestId, asking, asked>>
        /\ disk' = disk + 1 /\ disk' \in Versions
    BY <1>2, ReloadAssumption DEF Edit, asks, servicer, channel, Versions, ReloadTypeOK
  <2>2. ReloadTypeOK'
    BY <1>0, <2>1 DEF ReloadTypeOK, Reloading
  <2>3. NotYetAsked' /\ Carried' /\ Answered'
    BY <1>0, <2>1 DEF NotYetAsked, Carried, Answered
  <2>4. OnDisk'
    <3>1. /\ disk \in Nat /\ best \in Nat
          /\ \A q \in Commands : asked[q] \in Nat
          /\ \A j \in Jobs : job[j].schema \in Nat
      BY ReloadTypes DEF ReloadTypeOK, JobTypes
    <3> HIDE DEF ReloadInv
    <3> QED
      BY <1>0, <2>1, <3>1 DEF OnDisk, ReloadInv
  <2>5. Alone'
    BY <1>0, <2>1 DEF Alone, OwnerRuns, Reloading
  <2> QED
    BY <2>2, <2>3, <2>4, <2>5
<1>3. ASSUME NEW q \in Commands, Ask(q) PROVE ReloadInv'
  <2>1. /\ UNCHANGED <<resFile, owner, initialized, lastRequestId, disk>>
        /\ asking[q] = "idle" /\ reqFile' = q
        /\ asking' = [asking EXCEPT ![q] = "waiting"]
        /\ asked' = [asked EXCEPT ![q] = disk]
    BY <1>3 DEF Ask, Unasked, servicer
  <2>2. /\ resFile.request # q
        /\ \A j \in Jobs : job[j].request # q
    BY <2>1 DEF NotYetAsked
  <2>3. ReloadTypeOK'
    BY <1>0, <2>1 DEF ReloadTypeOK, Reloading
  <2>4. NotYetAsked'
    BY <1>0, <2>1 DEF NotYetAsked, ReloadTypeOK
  <2>5. OnDisk'
    BY <1>0, <2>1, ReloadTypes DEF OnDisk, ReloadTypeOK
  <2>6. Carried'
    BY <1>0, <2>1, <2>2 DEF Carried, ReloadTypeOK
  <2>7. Answered'
    BY <1>0, <2>1, <2>2 DEF Answered, ReloadTypeOK
  <2>8. Alone'
    BY <1>0, <2>1 DEF Alone, OwnerRuns, Reloading
  <2> QED
    BY <2>3, <2>4, <2>5, <2>6, <2>7, <2>8
<1>4. ASSUME NEW q \in Commands, Hear(q) \/ SeeGone(q) \/ StopWaiting(q) PROVE ReloadInv'
  <2>1. UNCHANGED <<reqFile, resFile, owner, initialized, lastRequestId, disk>>
    BY <1>4 DEF Hear, SeeGone, StopWaiting, Unasked, servicer
  <2>2. \E s \in {"done", "failed"} :
          /\ asking' = [asking EXCEPT ![q] = s]
          /\ s = "done" => resFile.request = q /\ resFile.status = "done"
    BY <1>4 DEF Hear, SeeGone, StopWaiting, Told
  <2>3. PICK s \in {"done", "failed"} :
          /\ asking' = [asking EXCEPT ![q] = s]
          /\ s = "done" => resFile.request = q /\ resFile.status = "done"
    BY <2>2
  <2>9. /\ asked' \in [Commands -> Versions]
        /\ \A c \in Commands : asked'[c] \in {asked[c], 0}
    BY <1>4, ReloadTypes DEF Hear, SeeGone, StopWaiting, Told, ReloadTypeOK
  <2>10. /\ 0 <= best /\ 0 <= disk
         /\ \A i \in Jobs : 0 <= job[i].schema
    BY ReloadTypes DEF ReloadTypeOK, JobTypes
  <2>4. ReloadTypeOK'
    BY <1>0, <2>1, <2>3, <2>9 DEF ReloadTypeOK, Reloading
  <2>5. NotYetAsked'
    BY <1>0, <2>1, <2>3 DEF NotYetAsked, ReloadTypeOK
  <2>6. OnDisk' /\ Carried'
    <3> HIDE DEF ReloadInv
    <3> QED
      BY <1>0, <2>1, <2>9, <2>10 DEF OnDisk, Carried, ReloadInv
  <2>7. Answered'
    <3> HIDE DEF ReloadInv
    <3> QED
      BY <1>0, <2>1, <2>3, <2>9, <2>10 DEF Answered, ReloadInv, ReloadTypeOK
  <2>8. Alone'
    BY <1>0, <2>1 DEF Alone, OwnerRuns, Reloading
  <2> QED
    BY <2>4, <2>5, <2>6, <2>7, <2>8
<1> QED
  BY <1>1, <1>2, <1>3, <1>4

(* What a tick reads from the request file. *)
LEMMA PollKeeps ==
  ASSUME ReloadInv, NEW j \in Ticks, ServicerTick(j)
  PROVE  ReloadInv'
<1> USE DEF ReloadInv
<1> DEFINE r == [NoJob EXCEPT !.at = "polled", !.request = reqFile]
<1>0. r \in JobTypes /\ r.at = "polled" /\ r.request = reqFile
  BY ReloadTypes DEF NoJob, JobTypes, ReloadTypeOK
<1>1. /\ job' = [job EXCEPT ![j] = r] /\ job[j].at = "idle" /\ ~busy
      /\ UNCHANGED <<reqFile, resFile, owner, initialized, lastRequestId, busy, applied, fp,
                     best, asking, asked, disk, keys, upsets>>
  BY DEF ServicerTick, Poll, servicer, policy, asks, channel
<1> HIDE DEF r
<1>2. \A i \in Jobs : job'[i] = IF i = j THEN r ELSE job[i]
  BY <1>1, ReloadTypes
<1>3. ReloadTypeOK'
  <2>1. job' \in [Jobs -> JobTypes]
    BY <1>0, <1>1, ReloadTypes
  <2>2. Reloading' = Reloading
    BY <1>0, <1>1, <1>2 DEF Reloading
  <2> QED
    BY <1>1, <2>1, <2>2 DEF ReloadTypeOK, JobTypes
<1>4. NotYetAsked' /\ OnDisk' /\ Carried' /\ Answered'
  BY <1>0, <1>1, <1>2 DEF NotYetAsked, OnDisk, Carried, Answered
<1>5. Alone'
  <2>1. Reloading' = Reloading
    BY <1>0, <1>1, <1>2 DEF Reloading
  <2> QED
    BY <1>0, <1>1, <1>2, <2>1 DEF Alone, OwnerRuns
<1> QED
  BY <1>3, <1>4, <1>5

(* A reload begins, of the servicer or at the keypress; two may overlap.     *)
LEMMA BeginReloadKeeps ==
  ASSUME ReloadInv, NEW j \in Jobs, NEW at, NEW status, Begin(j, at, status),
         job[j].at \in {"idle", "polled"},
         \/ at = "load" /\ status = "done"
         \/ at = "reply" /\ status = "denied",
         lastRequestId' \in Commands \cup {NoRequest}, keys' \in 0..MaxKeys,
         busy' \in BOOLEAN, busy' => j \in Ticks \/ busy,
         UNCHANGED <<reqFile, resFile, owner, initialized, applied, fp,
                     best, asking, asked, disk>>
  PROVE  ReloadInv'
<1> USE DEF ReloadInv
<1> DEFINE r == [job[j] EXCEPT !.at = at, !.status = status]
<1>0. job[j] \in JobTypes
  BY ReloadTypes
<1>1. /\ job' = [job EXCEPT ![j] = r]
      /\ upsets' = IF Reloading # {} THEN {"doubled"} ELSE upsets
  BY DEF Begin
<1>2. r \in JobTypes /\ r.at = at /\ r.status = status /\ r.request = job[j].request
  BY <1>0 DEF JobTypes, Statuses
<1> HIDE DEF r
<1>3. \A i \in Jobs : job'[i] = IF i = j THEN r ELSE job[i]
  BY <1>1, ReloadTypes
<1>4. Reloading' = Reloading \cup {j}
  BY <1>2, <1>3 DEF Reloading
<1>5. ReloadTypeOK'
  <2>1. job' \in [Jobs -> JobTypes]
    BY <1>1, <1>2, ReloadTypes
  <2>2. busy' => Reloading' \cap Ticks # {}
    BY <1>4 DEF ReloadTypeOK
  <2>3. upsets' \subseteq Upsets
    BY <1>1 DEF ReloadTypeOK, Upsets
  <2> QED
    BY <2>1, <2>2, <2>3 DEF ReloadTypeOK, JobTypes
<1>6. NotYetAsked' /\ OnDisk' /\ Answered'
  BY <1>2, <1>3 DEF NotYetAsked, OnDisk, Answered
<1>7. Carried'
  BY <1>2, <1>3 DEF Carried
<1>8. Alone'
  <2> SUFFICES ASSUME "doubled" \notin upsets' PROVE Alone'
    BY DEF Alone
  <2>1. "doubled" \notin upsets /\ Reloading = {} /\ Reloading' = {j}
    BY <1>1, <1>4
  <2>2. \A i \in Jobs : job[i].at \in {"idle", "polled"}
    BY <2>1 DEF Reloading
  <2> QED
    <3>1. UNCHANGED <<owner, applied, fp, best>> /\ upsets' = upsets
      BY <1>1, <2>1
    <3> QED
      BY <1>2, <1>3, <2>1, <2>2, <3>1 DEF Alone, OwnerRuns
<1> QED
  BY <1>5, <1>6, <1>7, <1>8

LEMMA PolledKeeps ==
  ASSUME ReloadInv, NEW j \in Ticks, Polled(j)
  PROVE  ReloadInv'
<1> USE DEF ReloadInv
<1>1. job[j].at = "polled" /\ job[j] \in JobTypes /\ j \in Jobs
  BY ReloadTypes DEF Polled
<1>2. UNCHANGED <<reqFile, resFile, owner, applied, fp, best, asking, asked, disk, keys>>
  BY DEF Polled, policy, asks, channel
<1>3. CASE job[j].request = lastRequestId
  <2>1. job' = [job EXCEPT ![j] = NoJob] /\ UNCHANGED <<initialized, lastRequestId, busy, upsets>>
    BY <1>3 DEF Polled, servicer
  <2>2. \A i \in Jobs : job'[i] = IF i = j THEN NoJob ELSE job[i]
    BY <2>1, ReloadTypes
  <2>3. Reloading' = Reloading
    BY <1>1, <2>2 DEF Reloading, NoJob
  <2>4. ReloadTypeOK'
    <3>1. job' \in [Jobs -> JobTypes]
      BY <2>1, ReloadTypes
    <3> QED
      BY <1>2, <2>1, <2>3, <3>1 DEF ReloadTypeOK, JobTypes
  <2>5. NotYetAsked' /\ OnDisk' /\ Carried' /\ Answered'
    BY <1>2, <2>2, ReloadAssumption DEF NotYetAsked, OnDisk, Carried, Answered, NoJob
  <2>6. Alone'
    BY <1>1, <1>2, <2>1, <2>2, <2>3 DEF Alone, OwnerRuns, NoJob
  <2> QED
    BY <2>4, <2>5, <2>6
<1>4. CASE job[j].request # lastRequestId
  <2>1. /\ lastRequestId' = job[j].request /\ busy' = TRUE /\ UNCHANGED initialized
        /\ Begin(j, "reply", "denied") \/ Begin(j, "load", "done")
    BY <1>4 DEF Polled
  <2>2. lastRequestId' \in Commands \cup {NoRequest} /\ keys' \in 0..MaxKeys
    BY <1>1, <1>2, <2>1 DEF JobTypes, ReloadTypeOK
  <2> QED
    BY <1>1, <1>2, <2>1, <2>2, BeginReloadKeeps
<1> QED
  BY <1>3, <1>4

LEMMA KeyReloadKeeps == ASSUME ReloadInv, KeyReload PROVE ReloadInv'
<1>1. /\ Begin("key", "load", "done") /\ job["key"].at = "idle"
      /\ UNCHANGED <<reqFile, resFile, owner, initialized, lastRequestId, busy,
                     applied, fp, best, asking, asked, disk>>
  BY DEF KeyReload, servicer, policy, asks, channel
<1>2. /\ keys' \in 0..MaxKeys /\ lastRequestId' \in Commands \cup {NoRequest}
      /\ busy' \in BOOLEAN /\ "key" \in Jobs
  BY <1>1, ReloadAssumption, ReloadTypes DEF KeyReload, ReloadInv, ReloadTypeOK
<1> QED
  BY <1>1, <1>2, BeginReloadKeeps

(* The schema is loaded from the disk, or loading it fails. *)
LEMMA LoadKeeps ==
  ASSUME ReloadInv, NEW j \in Jobs, Load(j)
  PROVE  ReloadInv'
<1> USE DEF ReloadInv
<1>0. /\ job[j] \in JobTypes /\ job[j].at = "load" /\ j \in Reloading
      /\ UNCHANGED <<reqFile, resFile, owner, initialized, lastRequestId, busy, applied, fp,
                     best, asking, asked, disk, keys, upsets>>
  BY ReloadTypes DEF Load, Reloading, servicer, policy, asks, channel
<1>1. \E r \in JobTypes :
        /\ job' = [job EXCEPT ![j] = r]
        /\ \/ r.at = "loaded" /\ r.schema = disk /\ r.request = job[j].request
           \/ r = NoJob /\ j = "key"
           \/ r.at = "reply" /\ r.status = "error" /\ r.request = job[j].request
  <2>1. CASE job' = [job EXCEPT ![j].at = "loaded", ![j].schema = disk]
    <3> DEFINE r == [job[j] EXCEPT !.at = "loaded", !.schema = disk]
    <3>1. r \in JobTypes /\ r.at = "loaded" /\ r.schema = disk /\ r.request = job[j].request
      BY <1>0 DEF JobTypes, ReloadTypeOK
    <3>2. job' = [job EXCEPT ![j] = r]
      BY <2>1, ReloadTypes
    <3> HIDE DEF r
    <3> QED
      BY <3>1, <3>2
  <2>2. CASE Return(j, "error") /\ j = "key"
    BY <2>2, ReloadTypes DEF Return
  <2>3. CASE Return(j, "error") /\ j # "key"
    <3> DEFINE r == [job[j] EXCEPT !.at = "reply", !.status = "error", !.schema = 0]
    <3>1. r \in JobTypes /\ r.at = "reply" /\ r.status = "error" /\ r.request = job[j].request
      BY <1>0, ReloadTypes DEF JobTypes, Statuses
    <3>2. job' = [job EXCEPT ![j] = r]
      BY <2>3 DEF Return
    <3> HIDE DEF r
    <3> QED
      BY <3>1, <3>2
  <2> QED
    BY <2>1, <2>2, <2>3 DEF Load
<1>2. PICK r \in JobTypes :
        /\ job' = [job EXCEPT ![j] = r]
        /\ \/ r.at = "loaded" /\ r.schema = disk /\ r.request = job[j].request
           \/ r = NoJob /\ j = "key"
           \/ r.at = "reply" /\ r.status = "error" /\ r.request = job[j].request
  BY <1>1
<1>3. \A i \in Jobs : job'[i] = IF i = j THEN r ELSE job[i]
  BY <1>2, ReloadTypes
<1>4. Reloading' = IF r = NoJob /\ j = "key" THEN Reloading \ {j} ELSE Reloading
  BY <1>0, <1>2, <1>3 DEF Reloading, NoJob
<1>5. ReloadTypeOK'
  <2>1. job' \in [Jobs -> JobTypes]
    BY <1>2, ReloadTypes
  <2>2. busy' => Reloading' \cap Ticks # {}
    BY <1>0, <1>4, ReloadTypes DEF ReloadTypeOK
  <2> QED
    BY <1>0, <2>1, <2>2 DEF ReloadTypeOK, JobTypes
<1>6. NotYetAsked'
  BY <1>0, <1>2, <1>3, ReloadAssumption DEF NotYetAsked, NoJob
<1>7. OnDisk' /\ Answered'
  BY <1>0, <1>2, <1>3, ReloadTypes DEF OnDisk, Answered, NoJob, ReloadTypeOK
<1>8. Carried'
  BY <1>0, <1>2, <1>3, ReloadAssumption DEF Carried, OnDisk, NoJob
<1>9. Alone'
  BY <1>0, <1>2, <1>3, <1>4 DEF Alone, OnDisk, OwnerRuns, NoJob
<1> QED
  BY <1>5, <1>6, <1>7, <1>8, <1>9

(* reconfigure: the loaded schema's policy takes the place of the old one.   *)
LEMMA InstallKeeps ==
  ASSUME ReloadInv, NEW j \in Jobs, Install(j)
  PROVE  ReloadInv'
<1> USE DEF ReloadInv
<1> DEFINE v == job[j].schema
           r == [job[j] EXCEPT !.at = "record"]
<1>0. /\ job[j] \in JobTypes /\ job[j].at = "loaded" /\ j \in Reloading
      /\ v \in Versions /\ v \in Nat /\ best \in Nat
      /\ applied' = v /\ best' = IF v > best THEN v ELSE best
      /\ UNCHANGED <<reqFile, resFile, owner, initialized, lastRequestId, busy, fp,
                     asking, asked, disk, keys, upsets>>
  BY ReloadTypes DEF Install, Reloading, servicer, asks, channel, JobTypes, ReloadTypeOK
<1>1. /\ job' = [job EXCEPT ![j] = r]
      /\ r \in JobTypes /\ r.at = "record" /\ r.schema = v /\ r.request = job[j].request
  BY <1>0, ReloadTypes DEF Install, JobTypes
<1> HIDE DEF r
<1>2. \A i \in Jobs : job'[i] = IF i = j THEN r ELSE job[i]
  BY <1>1, ReloadTypes
<1>3. Reloading' = Reloading
  BY <1>0, <1>1, <1>2 DEF Reloading
<1>4. best' \in Versions /\ best <= best' /\ v <= best' /\ best' \in Nat
  BY <1>0, ReloadTypes DEF ReloadTypeOK
<1>5. ReloadTypeOK'
  <2>1. job' \in [Jobs -> JobTypes]
    BY <1>1, ReloadTypes
  <2> QED
    BY <1>0, <1>3, <1>4, <2>1 DEF ReloadTypeOK, JobTypes
<1>6. NotYetAsked'
  BY <1>0, <1>1, <1>2 DEF NotYetAsked
<1>7. OnDisk'
  BY <1>0, <1>1, <1>2 DEF OnDisk
<1>8. Carried' /\ Answered'
  <2>1. /\ \A q \in Commands : asked[q] \in Nat
        /\ \A i \in Jobs : job[i].schema \in Nat
    BY ReloadTypes DEF ReloadTypeOK, JobTypes
  <2>2. Answered'
    BY <1>0, <1>4, <2>1 DEF Answered
  <2>3. Carried'
    BY <1>0, <1>1, <1>2, <1>4, <2>1 DEF Carried
  <2> QED
    BY <2>2, <2>3
<1>9. Alone'
  <2> SUFFICES ASSUME "doubled" \notin upsets PROVE Alone'
    BY <1>0 DEF Alone
  <2>1. /\ \A i \in Reloading : i = j
        /\ best <= v
    BY <1>0 DEF Alone, Reloading
  <2>2. \A i \in Jobs \ {j} : job[i].at \in {"idle", "polled"}
    BY <2>1 DEF Reloading
  <2>3. best' = v
    BY <1>0, <2>1
  <2>4. fp \in Nat /\ applied \in Nat /\ fp <= applied /\ applied = best
    BY ReloadTypes DEF Alone, ReloadTypeOK
  <2>5. fp' <= applied'
    BY <1>0, <2>1, <2>4
  <2> QED
    BY <1>0, <1>1, <1>2, <1>3, <2>1, <2>2, <2>3, <2>5 DEF Alone
<1> QED
  BY <1>5, <1>6, <1>7, <1>8, <1>9

(* The session record gets the fingerprint of what was installed, or keeps   *)
(* the one it has.                                                           *)
LEMMA RecordKeeps ==
  ASSUME ReloadInv, NEW j \in Jobs, Record(j) \/ RecordFails(j)
  PROVE  ReloadInv'
<1> USE DEF ReloadInv
<1> DEFINE v == job[j].schema
<1>0. /\ job[j] \in JobTypes /\ job[j].at = "record" /\ j \in Reloading
      /\ v \in Versions
      /\ UNCHANGED <<reqFile, resFile, owner, initialized, lastRequestId, busy, applied, best,
                     asking, asked, disk, keys>>
  BY ReloadTypes DEF Record, RecordFails, Reloading, servicer, policy, asks, channel, JobTypes
<1>9. /\ upsets' \subseteq Upsets
      /\ "doubled" \in upsets' <=> "doubled" \in upsets
      /\ fp' = v \/ fp' = fp
      /\ "doubled" \notin upsets => fp' = v \/ "unrecorded" \in upsets'
  <2>1. CASE Record(j)
    <3>1. fp' = v /\ upsets' = upsets \ {"unrecorded"}
      BY <2>1 DEF Record
    <3> QED
      BY <3>1 DEF ReloadTypeOK
  <2>2. CASE RecordFails(j)
    <3>1. /\ fp' = fp
          /\ \/ fp = v /\ upsets' = upsets
             \/ upsets' = IF "doubled" \in upsets THEN upsets ELSE upsets \cup {"unrecorded"}
      BY <2>2 DEF RecordFails, Upset, policy
    <3> QED
      BY <3>1 DEF ReloadTypeOK, Upsets
  <2> QED
    BY <2>1, <2>2
<1>10. PICK status \in {"done", "error"} : Return(j, status)
  BY DEF Record, RecordFails
<1> DEFINE r == IF j = "key" THEN NoJob
                ELSE [job[j] EXCEPT !.at = "reply", !.status = status, !.schema = 0]
<1>1. /\ job' = [job EXCEPT ![j] = r]
      /\ r \in JobTypes
      /\ IF j = "key" THEN r = NoJob
         ELSE r.at = "reply" /\ r.request = job[j].request
  BY <1>0, <1>10, ReloadTypes DEF Return, JobTypes, Statuses
<1> HIDE DEF r
<1>2. \A i \in Jobs : job'[i] = IF i = j THEN r ELSE job[i]
  BY <1>1, ReloadTypes
<1>3. Reloading' = IF j = "key" THEN Reloading \ {j} ELSE Reloading
  BY <1>0, <1>1, <1>2 DEF Reloading, NoJob
<1>4. ReloadTypeOK'
  <2>1. job' \in [Jobs -> JobTypes]
    BY <1>1, ReloadTypes
  <2>2. busy' => Reloading' \cap Ticks # {}
    BY <1>0, <1>3, ReloadTypes DEF ReloadTypeOK
  <2> QED
    BY <1>0, <1>9, <2>1, <2>2 DEF ReloadTypeOK, JobTypes
<1>5. NotYetAsked'
  BY <1>0, <1>1, <1>2, ReloadAssumption DEF NotYetAsked, NoJob
<1>6. OnDisk' /\ Answered'
  BY <1>0, <1>1, <1>2 DEF OnDisk, Answered, NoJob
<1>7. Carried'
  <2>1. v <= best /\ (job[j].request \in Commands => asked[job[j].request] <= v)
    BY <1>0 DEF Carried
  <2>2. /\ \A q \in Commands : asked[q] \in Nat
        /\ v \in Nat /\ best \in Nat
    BY <1>0, ReloadTypes DEF ReloadTypeOK
  <2> QED
    BY <1>0, <1>1, <1>2, <2>1, <2>2, ReloadAssumption DEF Carried, NoJob
<1>8. Alone'
  <2> SUFFICES ASSUME "doubled" \notin upsets PROVE Alone'
    BY <1>9 DEF Alone
  <2>1. v = applied /\ applied = best /\ \A i \in Reloading : i = j
    BY <1>0 DEF Alone, Reloading
  <2>2. \A i \in Jobs : job'[i].at \in {"idle", "polled", "reply"}
    BY <1>1, <1>2, <2>1 DEF Reloading, NoJob
  <2>3. fp' <= applied' /\ (fp' = applied' \/ "unrecorded" \in upsets')
    BY <1>0, <1>9, <2>1, ReloadTypes DEF Alone, ReloadTypeOK
  <2> QED
    BY <1>0, <1>3, <2>1, <2>2, <2>3 DEF Alone, Reloading
<1> QED
  BY <1>4, <1>5, <1>6, <1>7, <1>8

(* The answer is written, or not, and the servicer is free for the next      *)
(* request.                                                                  *)
LEMMA ReplyKeeps ==
  ASSUME ReloadInv, NEW j \in Ticks, Reply(j) \/ ReplyFails(j)
  PROVE  ReloadInv'
<1> USE DEF ReloadInv
<1>0. /\ j \in Jobs /\ job[j] \in JobTypes /\ job[j].at = "reply"
      /\ job' = [job EXCEPT ![j] = NoJob] /\ ~busy'
      /\ \/ resFile'.request = job[j].request /\ resFile'.status = job[j].status
         \/ resFile' = resFile
      /\ resFile' \in [request : Commands \cup {NoRequest}, status : Statuses]
      /\ UNCHANGED <<reqFile, owner, initialized, lastRequestId, applied, fp, best,
                     asking, asked, disk, keys>>
  <2>1. /\ j \in Jobs /\ job[j] \in JobTypes
        /\ resFile \in [request : Commands \cup {NoRequest}, status : Statuses]
    BY ReloadTypes DEF ReloadTypeOK
  <2>2. CASE Reply(j)
    BY <2>1, <2>2 DEF Reply, policy, asks, JobTypes
  <2>3. CASE ReplyFails(j)
    BY <2>1, <2>3 DEF ReplyFails, policy, asks, channel
  <2> QED
    BY <2>2, <2>3
<1>8. /\ upsets' \subseteq Upsets
      /\ \A u \in {"doubled", "unrecorded"} : u \in upsets' <=> u \in upsets
  <2>1. upsets' \in {upsets, upsets \cup {"unanswered"}}
    BY DEF Reply, ReplyFails, Upset
  <2> QED
    BY <2>1 DEF Upsets, ReloadTypeOK
<1>1. \A i \in Jobs : job'[i] = IF i = j THEN NoJob ELSE job[i]
  BY <1>0, ReloadTypes
<1>2. Reloading' = Reloading \ {j}
  BY <1>1 DEF Reloading, NoJob
<1>3. ReloadTypeOK'
  <2>1. job' \in [Jobs -> JobTypes]
    BY <1>0, ReloadTypes
  <2>2. busy' = FALSE
    BY DEF Reply, ReplyFails
  <2> QED
    BY <1>0, <1>8, <2>1, <2>2 DEF ReloadTypeOK, JobTypes
<1>4. NotYetAsked'
  BY <1>0, <1>1, ReloadAssumption DEF NotYetAsked, NoJob
<1>5. OnDisk'
  BY <1>0, <1>1 DEF OnDisk, NoJob
<1>6. Carried' /\ Answered'
  BY <1>0, <1>1, ReloadAssumption DEF Carried, Answered, NoJob
<1>7. Alone'
  BY <1>0, <1>1, <1>2, <1>8 DEF Alone, OwnerRuns, NoJob
<1> QED
  BY <1>3, <1>4, <1>5, <1>6, <1>7

(* The owner is gone, and every reload with it. *)
LEMMA ExitKeeps == ASSUME ReloadInv, Exit PROVE ReloadInv'
<1> USE DEF ReloadInv
<1>0. /\ owner' = "gone" /\ busy' = FALSE
      /\ job' = [j \in Jobs |-> NoJob]
      /\ initialized' = FALSE /\ lastRequestId' = NoRequest
      /\ UNCHANGED <<reqFile, resFile, applied, fp, best, asking, asked, disk, keys, upsets>>
  BY DEF Exit, policy, asks, channel
<1>1. \A j \in Jobs : job'[j] = NoJob
  BY <1>0
<1>2. ReloadTypeOK'
  BY <1>0, ReloadTypes DEF ReloadTypeOK, JobTypes
<1>3. NotYetAsked' /\ OnDisk' /\ Carried' /\ Answered'
  BY <1>0, <1>1, ReloadAssumption DEF NotYetAsked, OnDisk, Carried, Answered, NoJob
<1>4. Alone'
  BY <1>0, <1>1 DEF Alone, OwnerRuns, Reloading, NoJob
<1> QED
  BY <1>2, <1>3, <1>4

LEMMA ReloadInvNext == ReloadInv /\ [ReloadNext]_reloadVars => ReloadInv'
<1> SUFFICES ASSUME ReloadInv, [ReloadNext]_reloadVars PROVE ReloadInv'
  OBVIOUS
<1>1. ASSUME NEW j \in Jobs, Apply(j) PROVE ReloadInv'
  BY <1>1, LoadKeeps, InstallKeeps, RecordKeeps DEF Apply
<1>2. CASE UNCHANGED reloadVars
  BY <1>2 DEF reloadVars, servicer, policy, asks, channel, ReloadInv, ReloadTypeOK, NotYetAsked, OnDisk,
     Carried, Answered, Alone, Reloading, OwnerRuns
<1> QED
  BY <1>1, <1>2, CommandsKeep, PollKeeps, PolledKeeps, KeyReloadKeeps, ReplyKeeps, ExitKeeps,
     ReloadTypes DEF ReloadNext, Serve, ReloadInv

LEMMA ReloadInvariance == ReloadSpec => []ReloadInv
  BY ReloadInvInit, ReloadInvNext, PTL DEF ReloadSpec

(* The variables have their types whatever the owner, its timer, its         *)
(* terminal and any number of commands do; `busy' always belongs to a reload *)
(* of the servicer that will reset it.                                       *)
THEOREM ReloadTypeTheorem == ReloadSpec => []ReloadTypeOK
<1>1. ReloadInv => ReloadTypeOK
  BY DEF ReloadInv
<1> QED
  BY <1>1, ReloadInvariance, PTL

(* A command that is told "done" had the schema of its request installed, or *)
(* a newer one, and it stays unless reloads overlap; the fingerprint in the  *)
(* record is never newer than the policy in force, and is that policy's when *)
(* no reload is under way, unless the last one could not write it.           *)
THEOREM ReloadTheorem == ReloadSpec => []ReloadTakesHold
<1>1. ReloadInv => ReloadTakesHold
  <2> SUFFICES ASSUME ReloadInv PROVE ReloadTakesHold
    OBVIOUS
  <2>1. \A q \in Commands : asking[q] = "done" => asked[q] <= best
    BY DEF ReloadInv, Answered
  <2>2. "doubled" \notin upsets => applied = best /\ fp <= applied
    BY DEF ReloadInv, Alone
  <2>3. upsets \subseteq {"unanswered"} /\ Reloading = {} /\ OwnerRuns => fp = applied
    BY DEF ReloadInv, Alone, Reloading
  <2> QED
    BY <2>1, <2>2, <2>3 DEF ReloadTakesHold
<1> QED
  BY <1>1, ReloadInvariance, PTL

(* As long as no two reloads overlap, a reload never brings an older schema  *)
(* into force than the one it replaces.                                      *)
NeverOlder == []["doubled" \notin upsets' => applied' >= applied]_applied

LEMMA NeverOlderStep ==
  ReloadInv /\ [ReloadNext]_reloadVars => ["doubled" \notin upsets' => applied' >= applied]_applied
<1> SUFFICES ASSUME ReloadInv, [ReloadNext]_reloadVars, applied' # applied, "doubled" \notin upsets'
             PROVE  applied' >= applied
  OBVIOUS
<1>1. \/ \E j \in Jobs : Install(j)
      \/ UNCHANGED applied
  <2>1. ASSUME NEW j \in Jobs, Apply(j) PROVE Install(j) \/ UNCHANGED applied
    BY <2>1 DEF Apply, Load, Record, RecordFails, policy
  <2>2. ASSUME NEW j \in Ticks, ServicerTick(j) \/ Polled(j) \/ Reply(j) \/ ReplyFails(j)
        PROVE  UNCHANGED applied
    BY <2>2 DEF ServicerTick, Poll, Polled, Reply, ReplyFails, policy
  <2>3. ASSUME NEW q \in Commands, Ask(q) \/ Hear(q) \/ SeeGone(q) \/ StopWaiting(q)
        PROVE  UNCHANGED applied
    BY <2>3 DEF Ask, Hear, SeeGone, StopWaiting, Unasked, policy
  <2>4. CASE Seed \/ KeyReload \/ Close \/ Exit \/ Edit \/ UNCHANGED reloadVars
    BY <2>4 DEF Seed, KeyReload, Close, Exit, Edit, reloadVars, policy
  <2> QED
    BY <2>1, <2>2, <2>3, <2>4, ReloadTypes DEF ReloadNext, Serve, ReloadInv
<1>2. PICK j \in Jobs : Install(j)
  BY <1>1
<1>3. job[j].at = "loaded" /\ applied' = job[j].schema /\ "doubled" \notin upsets
  BY <1>2 DEF Install
<1>4. applied = best /\ best <= job[j].schema
  BY <1>3 DEF ReloadInv, Alone
<1> QED
  BY <1>3, <1>4, ReloadTypes DEF ReloadInv, ReloadTypeOK, JobTypes

(* No reload of its own takes a policy back. *)
THEOREM NeverOlderTheorem == ReloadSpec => NeverOlder
  BY ReloadInvariance, NeverOlderStep, PTL DEF ReloadSpec, NeverOlder

-----------------------------------------------------------------------------
(* The servicer is past its first look at the file before it takes a         *)
(* request, and unless reloads overlap the one it answers is the last one it *)
(* has taken.                                                                *)
LastTaken ==
  /\ ~initialized => \A j \in Ticks : job[j].at = "idle"
  /\ "doubled" \notin upsets => \A j \in Ticks : j \in Reloading => job[j].request = lastRequestId

(* A step of applyTrustedReload leaves its reload with its request. *)
LEMMA ApplyKeepsRequest ==
  ASSUME ReloadTypeOK, NEW j \in Jobs, Apply(j)
  PROVE  \A i \in Ticks : /\ job'[i].request = job[i].request
                          /\ i # j => job'[i] = job[i]
                          /\ i = j => job'[i].at \notin {"idle", "polled"}
<1> SUFFICES ASSUME NEW i \in Ticks
             PROVE  /\ job'[i].request = job[i].request
                    /\ i # j => job'[i] = job[i]
                    /\ i = j => job'[i].at \notin {"idle", "polled"}
  OBVIOUS
<1>0. job \in [Jobs -> JobTypes] /\ i \in Jobs /\ i # "key" /\ job[i] \in JobTypes
  BY ReloadTypes
<1>1. ASSUME NEW status, Return(j, status)
      PROVE  /\ job'[i].request = job[i].request
             /\ i # j => job'[i] = job[i]
             /\ i = j => job'[i].at = "reply"
  <2>1. CASE i = j
    <3>1. job'[i] = [job[i] EXCEPT !.at = "reply", !.status = status, !.schema = 0]
      BY <1>0, <1>1, <2>1 DEF Return
    <3> QED
      BY <1>0, <2>1, <3>1 DEF JobTypes
  <2>2. CASE i # j
    BY <1>0, <1>1, <2>2 DEF Return
  <2> QED
    BY <2>1, <2>2
<1>2. CASE job' = [job EXCEPT ![j].at = "loaded", ![j].schema = disk]
  BY <1>0, <1>2 DEF JobTypes
<1>3. CASE job' = [job EXCEPT ![j].at = "record"]
  BY <1>0, <1>3 DEF JobTypes
<1> QED
  BY <1>1, <1>2, <1>3 DEF Apply, Load, Install, Record, RecordFails

LEMMA LastTakenNext ==
  ReloadInv /\ LastTaken /\ [ReloadNext]_reloadVars => LastTaken'
<1> SUFFICES ASSUME ReloadInv, LastTaken, [ReloadNext]_reloadVars PROVE LastTaken'
  OBVIOUS
<1>0. job \in [Jobs -> JobTypes] /\ Ticks \subseteq Jobs /\ "key" \notin Ticks
  BY ReloadTypes DEF ReloadInv
<1>1. CASE Seed
  <2>1. /\ ~initialized /\ initialized' /\ UNCHANGED <<job, upsets>>
    BY <1>1 DEF Seed
  <2> QED
    BY <2>1 DEF LastTaken, Reloading
<1>2. ASSUME NEW j \in Jobs, Apply(j) PROVE LastTaken'
  <2>1. /\ UNCHANGED <<initialized, lastRequestId>>
        /\ "doubled" \in upsets => "doubled" \in upsets'
    BY <1>2 DEF Apply, Load, Install, Record, RecordFails, Upset, servicer
  <2>2. job[j].at \notin {"idle", "polled"}
    BY <1>2 DEF Apply, Load, Install, Record, RecordFails
  <2> QED
    BY <1>0, <1>2, <2>1, <2>2, ApplyKeepsRequest DEF LastTaken, Reloading, ReloadInv
<1>3. ASSUME NEW j \in Ticks, ServicerTick(j) PROVE LastTaken'
  <2>1. /\ initialized /\ UNCHANGED <<initialized, lastRequestId, upsets>>
        /\ job' = [job EXCEPT ![j] = [NoJob EXCEPT !.at = "polled", !.request = reqFile]]
    BY <1>3 DEF ServicerTick, Poll, servicer
  <2>2. job'[j].at = "polled" /\ \A i \in Ticks : i # j => job'[i] = job[i]
    BY <1>0, <2>1 DEF NoJob
  <2> QED
    BY <1>0, <2>1, <2>2 DEF LastTaken, Reloading
<1>4. ASSUME NEW j \in Ticks, Polled(j) PROVE LastTaken'
  <2>1. initialized /\ UNCHANGED initialized
    BY <1>4 DEF Polled, servicer, LastTaken
  <2>2. CASE job' = [job EXCEPT ![j] = NoJob] /\ UNCHANGED <<servicer, upsets>>
    BY <1>0, <2>1, <2>2 DEF LastTaken, Reloading, servicer, NoJob
  <2>3. CASE /\ lastRequestId' = job[j].request
             /\ \E at \in {"reply", "load"}, st \in {"denied", "done"} : Begin(j, at, st)
    <3>1. /\ upsets' = IF Reloading # {} THEN {"doubled"} ELSE upsets
          /\ job'[j].request = job[j].request
          /\ \A i \in Ticks : i # j => job'[i] = job[i]
      BY <1>0, <2>3 DEF Begin, JobTypes
    <3> QED
      BY <1>0, <2>1, <2>3, <3>1 DEF LastTaken, Reloading
  <2> QED
    BY <1>4, <2>2, <2>3 DEF Polled
<1>5. CASE KeyReload
  <2>1. /\ UNCHANGED <<initialized, lastRequestId>> /\ upsets' = IF Reloading # {} THEN {"doubled"} ELSE upsets
        /\ \A i \in Ticks : job'[i] = job[i]
    BY <1>0, <1>5 DEF KeyReload, Begin, servicer
  <2> QED
    BY <1>0, <2>1 DEF LastTaken, Reloading
<1>6. ASSUME NEW j \in Ticks, Reply(j) \/ ReplyFails(j) PROVE LastTaken'
  <2>1. /\ UNCHANGED <<initialized, lastRequestId>>
        /\ "doubled" \in upsets => "doubled" \in upsets'
        /\ job' = [job EXCEPT ![j] = NoJob]
    BY <1>6 DEF Reply, ReplyFails, Upset
  <2> QED
    BY <1>0, <2>1 DEF LastTaken, Reloading, NoJob
<1>7. CASE Exit
  BY <1>0, <1>7 DEF Exit, LastTaken, Reloading, NoJob
<1>8. CASE \/ Close \/ Edit \/ UNCHANGED reloadVars
           \/ \E q \in Commands : Ask(q) \/ Hear(q) \/ SeeGone(q) \/ StopWaiting(q)
  <2>1. /\ UNCHANGED <<initialized, lastRequestId, job>>
        /\ "doubled" \in upsets => "doubled" \in upsets'
    BY <1>8 DEF Close, Edit, reloadVars, Ask, Hear, SeeGone, StopWaiting, Unasked, servicer
  <2> QED
    BY <2>1 DEF LastTaken, Reloading
<1> QED
  BY <1>0, <1>1, <1>2, <1>3, <1>4, <1>5, <1>6, <1>7, <1>8, ReloadTypes DEF ReloadNext, Serve, ReloadInv

(* A command waits for the answer to the request in the file. *)
StillAsks(q) == asking[q] = "waiting" /\ reqFile = q

(* The servicer will find its request new, works on it, or has answered it. *)
Kept(q) ==
  \/ initialized /\ lastRequestId # q
  \/ resFile.request = q
  \/ \E j \in Ticks : j \in Reloading /\ job[j].request = q

(* Once the servicer has started, no step loses the request in the file: it  *)
(* is taken, and from then on worked on or answered, until its command stops *)
(* waiting, another request replaces it, its result cannot be written, the   *)
(* owner goes or two reloads overlap.  This is the safety half of LatestRequestAnswered.               *)
RequestNotLost ==
  [][\A q \in Commands : StillAsks(q) /\ Kept(q)
       => \/ Kept(q)' \/ ~StillAsks(q)' \/ ~OwnerRuns'
          \/ {"doubled", "unanswered"} \cap upsets' # {}]_reloadVars

LEMMA RequestNotLostStep ==
  ReloadInv /\ LastTaken /\ [ReloadNext]_reloadVars
    => [\A q \in Commands : StillAsks(q) /\ Kept(q)
          => \/ Kept(q)' \/ ~StillAsks(q)' \/ ~OwnerRuns'
             \/ {"doubled", "unanswered"} \cap upsets' # {}]_reloadVars
<1> SUFFICES ASSUME ReloadInv, LastTaken, ReloadNext, NEW q \in Commands,
                    Kept(q), StillAsks(q)', OwnerRuns',
                    "doubled" \notin upsets', "unanswered" \notin upsets'
             PROVE  Kept(q)'
  OBVIOUS
<1>0. job \in [Jobs -> JobTypes] /\ Ticks \subseteq Jobs /\ "key" \notin Ticks
  BY ReloadTypes DEF ReloadInv
<1>1. CASE Seed
  BY <1>1 DEF Seed, channel, Kept, Reloading
<1>2. ASSUME NEW j \in Jobs, Apply(j) PROVE Kept(q)'
  <2>1. UNCHANGED <<initialized, lastRequestId, resFile>>
    BY <1>2 DEF Apply, Load, Install, Record, RecordFails, channel, servicer
  <2>2. \A i \in Ticks : /\ job'[i].request = job[i].request
                         /\ i \in Reloading => i \in Reloading'
    BY <1>0, <1>2, ApplyKeepsRequest DEF Reloading, ReloadInv
  <2> QED
    BY <2>1, <2>2 DEF Kept
<1>3. ASSUME NEW j \in Ticks, ServicerTick(j) PROVE Kept(q)'
  <2>1. /\ UNCHANGED <<initialized, lastRequestId, resFile>> /\ j \notin Reloading
        /\ \A i \in Ticks : i # j => job'[i] = job[i]
    BY <1>0, <1>3 DEF ServicerTick, Poll, channel, servicer, Reloading
  <2> QED
    BY <1>0, <2>1 DEF Kept, Reloading
<1>4. ASSUME NEW j \in Ticks, Polled(j) PROVE Kept(q)'
  <2>1. /\ UNCHANGED <<initialized, resFile>> /\ j \notin Reloading
        /\ \A i \in Ticks : i # j => job'[i] = job[i]
    BY <1>0, <1>4 DEF Polled, Begin, channel, servicer, Reloading
  <2>2. CASE UNCHANGED lastRequestId
    BY <1>0, <2>1, <2>2 DEF Kept, Reloading
  <2>3. CASE /\ lastRequestId' = job[j].request
             /\ \E at \in {"reply", "load"}, st \in {"denied", "done"} : Begin(j, at, st)
    <3>1. initialized
      BY <1>4 DEF Polled, LastTaken
    <3>2. job'[j].at \notin {"idle", "polled"} /\ job'[j].request = job[j].request
      BY <1>0, <2>3 DEF Begin, JobTypes
    <3> QED
      BY <1>0, <2>1, <2>3, <3>1, <3>2 DEF Kept, Reloading
  <2> QED
    BY <1>4, <2>2, <2>3 DEF Polled, servicer
<1>5. CASE KeyReload
  <2>1. UNCHANGED <<initialized, lastRequestId, resFile>> /\ \A i \in Ticks : job'[i] = job[i]
    BY <1>0, <1>5 DEF KeyReload, Begin, channel, servicer
  <2> QED
    BY <1>0, <2>1 DEF Kept, Reloading
<1>6. ASSUME NEW j \in Ticks, Reply(j) \/ ReplyFails(j) PROVE Kept(q)'
  <2>1. /\ job[j].at = "reply" /\ UNCHANGED <<initialized, lastRequestId, reqFile>>
        /\ "doubled" \notin upsets
        /\ \A i \in Ticks : i # j => job'[i] = job[i]
    BY <1>0, <1>6 DEF Reply, ReplyFails, Upset, channel
  <2>2. initialized /\ job[j].request = lastRequestId
    BY <1>0, <2>1 DEF LastTaken, Reloading
  <2>3. CASE Reply(j)
    <3>1. resFile'.request = job[j].request
      BY <2>3 DEF Reply
    <3> QED
      BY <2>1, <2>2, <3>1 DEF Kept
  <2>4. CASE ReplyFails(j)
    <3>1. resFile' = resFile /\ (job[j].request = reqFile => "unanswered" \in upsets')
      BY <2>1, <2>4 DEF ReplyFails, Upset, channel
    <3>2. reqFile = q
      BY <2>1 DEF StillAsks
    <3> QED
      BY <2>1, <2>2, <3>1, <3>2 DEF Kept
  <2> QED
    BY <1>6, <2>3, <2>4
<1>7. CASE \/ Close \/ Edit
           \/ \E c \in Commands : Ask(c) \/ Hear(c) \/ SeeGone(c) \/ StopWaiting(c)
  <2>1. UNCHANGED <<initialized, lastRequestId, job, resFile>>
    BY <1>7 DEF Close, Edit, Ask, Hear, SeeGone, StopWaiting, Unasked, channel, servicer
  <2> QED
    BY <2>1 DEF Kept, Reloading
<1>8. ~Exit
  BY DEF Exit, OwnerRuns
<1> QED
  BY <1>0, <1>1, <1>2, <1>3, <1>4, <1>5, <1>6, <1>7, <1>8, ReloadTypes DEF ReloadNext, Serve, ReloadInv

(* The servicer never forgets a request that its command still waits for. *)
THEOREM RequestNotLostTheorem == ReloadSpec => RequestNotLost
<1>1. ReloadInit => LastTaken
  BY ReloadTypes, ReloadInvInit DEF ReloadInit, LastTaken, Reloading, NoJob, ReloadInv
<1>2. ReloadSpec => []LastTaken
  BY <1>1, ReloadInvariance, LastTakenNext, PTL DEF ReloadSpec
<1> QED
  BY <1>2, ReloadInvariance, RequestNotLostStep, PTL DEF ReloadSpec, RequestNotLost

=============================================================================
