------------------------------ MODULE ProxyPolicy -----------------------------
(***************************************************************************)
(* What the credential proxy decides about one request from the rules      *)
(* alone (packages/varlock/src/proxy/policy.ts, and the gates of           *)
(* processProxiedRequest in proxy/runtime-proxy.ts that need no waiting).  *)
(*                                                                         *)
(* A request is its host, its end point (method and path), its body, and   *)
(* the marks in it: the places where a placeholder of a managed key        *)
(* stands.  A place is <<surface, name>>: a header and its name, the path, *)
(* a query parameter, a field of the body.  "nth" tells two placeholders   *)
(* of one place apart.  How text is searched for placeholders, parsed into *)
(* fields and percent-decoded is left out: a mark is a placeholder found.  *)
(***************************************************************************)
EXTENDS Naturals, FiniteSets

CONSTANTS
  Keys,        \* config items with a placeholder
  Hosts, Ends, \* hosts; end points, method and path together
  Bodies,
  Names,       \* names of headers, query parameters and body fields
  Bare,         \* the name of a target without a name: header, path, query, body:*
  Denied,      \* headers the bare header target leaves out (cookie, referer, ...)
  Transforms, NoTransform,
  Consumes,    \* the keys whose real values a transform applies itself
  Scheme,      \* the scheme of a transform, all that a rule's name tells of it
  Forever      \* an approval that lasts as long as the session

ASSUME PolicyAssumption ==
  /\ Bare \notin Names /\ IsFiniteSet(Names)
  /\ Denied \subseteq Names
  /\ NoTransform \notin Transforms
  /\ Consumes \in [Transforms -> SUBSET Keys]
  /\ DOMAIN Scheme = Transforms
  /\ Forever \notin Nat

Named    == {"header", "query", "body"}
Places   == Named \X Names \cup {<<"path", Bare>>}
Targets  == Named \X (Names \cup {Bare}) \cup {<<"path", Bare>>}
Marks    == [key : Keys, place : Places, nth : {1, 2}]
Shapes   == [host : Hosts, end : Ends, body : Bodies, tls : BOOLEAN, marks : SUBSET Marks]

Gates == {"none", "block", "approval"}
Eachs == {"host", "endpoint", "request"}

(* One @proxy(...) rule.  "level" is ruleSpecificity: 2 for a path, 1 for a *)
(* method; "ceiling" is approval.maxDurationMs.                             *)
Rules == [hosts : SUBSET Hosts, ends : SUBSET Ends, level : 0 .. 3,
          keys : SUBSET Keys, targets : SUBSET Targets, gate : Gates,
          each : Eachs, ceiling : Nat \cup {Forever},
          transform : Transforms \cup {NoTransform}]

(* What a load of the schema hands to the runtime. *)
Policies == [rules : SUBSET Rules, strict : BOOLEAN, managed : SUBSET Keys]

-----------------------------------------------------------------------------
(* policy.ts: which rules apply, and what the most specific of them ask.   *)

HostRuled(p, q) == \E r \in p.rules : q.host \in r.hosts

Matching(p, q) == {r \in p.rules : q.host \in r.hosts /\ q.end \in r.ends}

Blocks(p, q)   == {r \in Matching(p, q) : r.gate = "block"}
Grants(p, q)   == {r \in Matching(p, q) : r.gate # "block"}

TopTier(p, q)  == {r \in Grants(p, q) : \A s \in Grants(p, q) : s.level <= r.level}

(* The rules of which matchedRule is one when the verdict is require-approval. *)
Approvers(p, q) == {r \in TopTier(p, q) : r.gate = "approval"}

(* evaluateProxyPolicy. *)
Verdict(p, q) ==
  IF Blocks(p, q) # {} THEN "deny"
  ELSE IF Grants(p, q) = {} THEN IF p.strict THEN "deny" ELSE "allow"
  ELSE IF Approvers(p, q) # {} THEN "require-approval"
  ELSE "allow"

Asks(p, q) == Verdict(p, q) = "require-approval"

(* Mutant: every matching rule contributes, whatever its gate. *)
ActiveUngated(p, q) == Grants(p, q)

(* The rules whose keys, targets and transforms count for this request:    *)
(* those behind an approval only when the approval is really asked for.    *)
Active(p, q) == {r \in Grants(p, q) : r.gate = "approval" => Asks(p, q)}

(* getRequestScopedManagedItems. *)
ScopedKeys(p, q) == p.managed \cap UNION {r.keys : r \in Active(p, q)}

ScopedTargets(p, q, k) == UNION {r.targets : r \in {s \in Active(p, q) : k \in s.keys}}

(* describeRule: what a rule is called, for the audit log and for grants.  *)
(* Neither its keys nor its ceiling are part of it.                        *)
RuleId(r) ==
  <<r.hosts, r.ends, r.level, r.gate,
    IF r.transform = NoTransform THEN NoTransform ELSE Scheme[r.transform]>>

(* computeGrantKey. *)
GrantKey(r, q) ==
  <<RuleId(r), CASE r.each = "host"    -> <<q.host>>
                 [] r.each = "request" -> <<q.host, q.end, q.body>>
                 [] OTHER              -> <<q.host, q.end>>>>

-----------------------------------------------------------------------------
(* The substitution guards and the substitution.                           *)

MarksOf(q, k) == {m \in q.marks : m.key = k}

(* The target that lets a placeholder stand at a place: the bare one of    *)
(* its surface, else the one with its name; none, or one.                  *)
TargetFor(T, place) ==
  IF <<place[1], Bare>> \in T /\ ~(place[1] = "header" /\ place[2] \in Denied)
    THEN {<<place[1], Bare>>}
    ELSE {place} \cap T

(* The surfaces some target of T is on. *)
Touched(T) == {t[1] : t \in T}

(* Path, query and body are rewritten as a whole, a header by itself.       *)
Rewritten(T, place) ==
  IF place[1] = "header" THEN TargetFor(T, place) # {} ELSE place[1] \in Touched(T)

(* A placeholder off the named places of a surface that will be rewritten. *)
Misplaced(p, q, k) ==
  LET T == ScopedTargets(p, q, k) IN
  \E m \in MarksOf(q, k) : /\ m.place[1] \in {"query", "body"} \cap Touched(T)
                           /\ TargetFor(T, m.place) = {}

(* Two copies for one target. *)
Repeated(p, q, k) ==
  LET T == ScopedTargets(p, q, k) IN
  \E m, n \in MarksOf(q, k) :
    /\ m # n
    /\ TargetFor(T, m.place) # {}
    /\ TargetFor(T, m.place) = TargetFor(T, n.place)

(* checkSubstitutionGuards. *)
GuardsPass(p, q) ==
  \A k \in ScopedKeys(p, q) : ~Misplaced(p, q, k) /\ ~Repeated(p, q, k)

(* The marks whose placeholder is replaced by the real value on the way out. *)
Swapped(p, q) ==
  {m \in q.marks : /\ m.key \in ScopedKeys(p, q)
                   /\ Rewritten(ScopedTargets(p, q, m.key), m.place)}

-----------------------------------------------------------------------------
(* The gates of the pipeline.  Each answers the client and ends the request. *)

TransformsOn(p, q) == {r.transform : r \in Active(p, q)} \ {NoTransform}

(* A transform of a rule behind an approval that is not asked for. *)
TransformWithheld(p, q) ==
  \E r \in Grants(p, q) \ Active(p, q) : r.transform # NoTransform

(* collectConsumedTransformKeys: of all rules, matching or not. *)
ConsumedKeys(p) ==
  UNION {Consumes[t] : t \in {r.transform : r \in p.rules} \ {NoTransform}}

(* Between the snapshot of the policy and the reading of the body: egress,  *)
(* deny, conflicting or withheld transforms, a connection without TLS.      *)
RefusedAtOnce(p, q) ==
  \/ p.strict /\ ~HostRuled(p, q)
  \/ Verdict(p, q) = "deny"
  \/ \E s, t \in TransformsOn(p, q) : s # t
  \/ TransformsOn(p, q) = {} /\ TransformWithheld(p, q)
  \/ ~q.tls /\ (ScopedKeys(p, q) # {} \/ TransformsOn(p, q) # {})

(* A key a transform applies itself must not be in the request, unless      *)
(* another rule puts it there.                                              *)
CredentialSent(p, q) ==
  \E k \in p.managed \cap ConsumedKeys(p) : MarksOf(q, k) # {} /\ k \notin ScopedKeys(p, q)

(* findUninjectedPlaceholder: nothing is injected here, and yet ... *)
Uninjected(p, q) ==
  ScopedKeys(p, q) = {} /\ \E k \in p.managed : MarksOf(q, k) # {}

(* Mutant: the guards run only for requests that need no approval. *)
RefusedForBodyUnguarded(p, q) ==
  CredentialSent(p, q) \/ Uninjected(p, q) \/ (~Asks(p, q) /\ ~GuardsPass(p, q))

(* Between the reading of the body and the approval. *)
RefusedForBody(p, q) ==
  CredentialSent(p, q) \/ Uninjected(p, q) \/ ~GuardsPass(p, q)
=============================================================================
