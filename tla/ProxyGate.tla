------------------------------- MODULE ProxyGate ------------------------------
(***************************************************************************)
(* Requests on their way through the proxy, many at once: the pipeline of  *)
(* processProxiedRequest (packages/varlock/src/proxy/runtime-proxy.ts),    *)
(* the approval gate with its prompt (proxy/approval.ts) and its standing  *)
(* grants (proxy/approval-grants.ts), and the reload that swaps the policy *)
(* under them (reconfigure).  A step is what happens between two awaits:   *)
(* reading the body, reading grants.jsonl, the terminal, appending to      *)
(* grants.jsonl, the verification of the upstream's identity.              *)
(*                                                                         *)
(* Time is counted in units of which Ttl make the 60 seconds of a request  *)
(* for approval.                                                           *)
(***************************************************************************)
EXTENDS ProxyPolicy

CONSTANTS
  Requests,     \* requests of one run of the model
  Traffic,      \* what they may look like
  Schemas,      \* the policies the schema on disk may load to
  NoRule,
  Ttl,          \* DEFAULT_TTL_MS, of a request for approval and of a prompt
  DefaultGrant, \* DEFAULT_GRANT_DURATION_MS
  MaxTime,      \* bound on the clock
  MaxReloads    \* bound on reloads

ASSUME GateAssumption ==
  /\ Traffic \subseteq Shapes
  /\ Schemas \subseteq Policies
  /\ NoRule \notin Rules
  /\ {Ttl, DefaultGrant} \subseteq Nat \ {0}
  /\ {MaxTime, MaxReloads} \subseteq Nat

VARIABLES
  active,  \* activeRules, activeManagedItems, activeEgressMode
  now,
  reloads,
  grants,  \* the lines of grants.jsonl
  stage,   \* what each request awaits, or how it ended
  shape,
  under,   \* its snapshot of the policy
  rule,    \* policyDecision.matchedRule, when it asks for approval
  expires, \* ApprovalRequest.expiresAt
  since,   \* when the lookup of a grant, the prompt or the decision was
  found,   \* the grant findMatch returned, as a set
  given,   \* the grant to append, as a set
  leave,   \* what the approval gate returned: by a "grant", a "yes", or "none"
  sent     \* the marks that left with the real value in place

request == <<stage, shape, under, rule, expires, since, found, given, leave, sent>>
vars == <<active, now, reloads, grants, request>>

(* "cap" is history: the ceiling of the rule under which the person chose.  *)
SchemaRules == UNION {p.rules : p \in Schemas}
GrantLines == [key : {GrantKey(s, q) : s \in SchemaRules, q \in Traffic}, at : Nat,
               until : Nat \cup {Forever}, cap : Nat \cup {Forever}]

Waiting == {"body", "lookup", "prompt", "storing", "verify"}
Stages  == {"idle", "refused", "sent"} \cup Waiting

Init ==
  /\ active \in Schemas
  /\ now = 0
  /\ reloads = 0
  /\ grants = {}
  /\ stage = [r \in Requests |-> "idle"]
  /\ shape \in [Requests -> Traffic]
  /\ under = [r \in Requests |-> active]
  /\ rule = [r \in Requests |-> NoRule]
  /\ expires = [r \in Requests |-> 0]
  /\ since = [r \in Requests |-> 0]
  /\ found = [r \in Requests |-> {}]
  /\ given = [r \in Requests |-> {}]
  /\ leave = [r \in Requests |-> "none"]
  /\ sent = [r \in Requests |-> {}]

-----------------------------------------------------------------------------
(* isApprovalValid, for a decision that approves.  Every provider echoes    *)
(* the nonce of the request it was given.                                   *)
Decided(r) == IF now < expires[r] THEN "verify" ELSE "refused"

(* Mutant: the deadline is counted backwards. *)
DeadlinePassed(t) == t - Ttl

(* createApprovalRequest: expiresAt. *)
Deadline(t) == t + Ttl

(* grantsAllowed: a ceiling of zero asks every time. *)
Remembers(s) == s.ceiling # 0

(* Mutant: a grant is honoured under its key whatever its age. *)
LiveAlways(g, t) == TRUE

(* isGrantValid. *)
Live(g, t) == g.until # Forever => t < g.until

(* clampLifetime; a lifetime of zero is "once". *)
Clamp(life, ceiling) ==
  IF life = 0 \/ ceiling = 0 THEN 0
  ELSE IF ceiling = Forever  THEN life
  ELSE IF life = Forever     THEN ceiling
  ELSE IF life < ceiling     THEN life ELSE ceiling

(* parseTtyAnswer: the lifetime a key stands for, or nothing for a denial. *)
(* "s" and "m" are only understood where they are offered.                 *)
Chosen(s, key) ==
  CASE key = "y"                            -> {0}
    [] key = "s" /\ s.ceiling = Forever     -> {Forever}
    [] key = "m" /\ s.ceiling = Forever     -> {DefaultGrant}
    [] key = "m" /\ s.ceiling \notin {0, Forever} -> {s.ceiling}
    [] OTHER                                -> {}

(* The line a choice adds to grants.jsonl. *)
Line(r, life) ==
  [key |-> GrantKey(rule[r], shape[r]), at |-> now,
   until |-> IF life = Forever THEN Forever ELSE now + life,
   cap |-> rule[r].ceiling]

Prompting == {r \in Requests : stage[r] = "prompt"}

-----------------------------------------------------------------------------
(* The request arrives; the policy of the moment is its policy from here on. *)
Arrive(r) ==
  /\ stage[r] = "idle"
  /\ under' = [under EXCEPT ![r] = active]
  /\ stage' = [stage EXCEPT ![r] = IF RefusedAtOnce(active, shape[r]) THEN "refused" ELSE "body"]
  /\ UNCHANGED <<active, now, reloads, grants, shape, rule, expires, since, found, given, leave, sent>>

(* The body is there, and no approval is needed. *)
PassBody(r) ==
  /\ stage[r] = "body"
  /\ \/ /\ RefusedForBody(under[r], shape[r])
        /\ stage' = [stage EXCEPT ![r] = "refused"]
     \/ /\ ~RefusedForBody(under[r], shape[r])
        /\ ~Asks(under[r], shape[r])
        /\ stage' = [stage EXCEPT ![r] = "verify"]
  /\ UNCHANGED <<active, now, reloads, grants, shape, under, rule, expires, since, found, given, leave, sent>>

(* The body is there: a request for approval is made.  Whoever may be       *)
(* remembered is looked up first, unless nothing was ever remembered; the   *)
(* time the grants are judged at is taken before they are read.             *)
AskLeave(r) ==
  /\ stage[r] = "body"
  /\ ~RefusedForBody(under[r], shape[r])
  /\ Asks(under[r], shape[r])
  /\ \E s \in Approvers(under[r], shape[r]) :
       /\ rule' = [rule EXCEPT ![r] = s]
       /\ stage' = [stage EXCEPT ![r] =
                      IF Remembers(s) /\ grants # {} THEN "lookup" ELSE "prompt"]
  /\ expires' = [expires EXCEPT ![r] = Deadline(now)]
  /\ since' = [since EXCEPT ![r] = now]
  /\ UNCHANGED <<active, now, reloads, grants, shape, under, found, given, leave, sent>>

(* findMatch has read the file: a live grant stands in for the person. *)
FindGrant(r) ==
  /\ stage[r] = "lookup"
  /\ \E g \in grants :
       /\ g.key = GrantKey(rule[r], shape[r])
       /\ Live(g, since[r])
       /\ found' = [found EXCEPT ![r] = {g}]
  /\ leave' = [leave EXCEPT ![r] = "grant"]
  /\ stage' = [stage EXCEPT ![r] = Decided(r)]
  /\ UNCHANGED <<active, now, reloads, grants, shape, under, rule, expires, since, given, sent>>

(* ... or there is none, and the terminal asks. *)
OpenPrompt(r) ==
  /\ stage[r] = "lookup"
  /\ \A g \in grants : ~(g.key = GrantKey(rule[r], shape[r]) /\ Live(g, since[r]))
  /\ stage' = [stage EXCEPT ![r] = "prompt"]
  /\ since' = [since EXCEPT ![r] = now]
  /\ UNCHANGED <<active, now, reloads, grants, shape, under, rule, expires, found, given, leave, sent>>

(* The file cannot be read: the gate rejects, which denies. *)
LookupFails(r) ==
  /\ stage[r] = "lookup"
  /\ stage' = [stage EXCEPT ![r] = "refused"]
  /\ UNCHANGED <<active, now, reloads, grants, shape, under, rule, expires, since, found, given, leave, sent>>

(* A line is typed.  Every prompt that is open reads standard input, so     *)
(* all of them take it as their answer.                                     *)
Answer(key) ==
  /\ Prompting # {}
  /\ LET Yes   == {r \in Prompting : Chosen(rule[r], key) # {}}
         Life(r) == Clamp(CHOOSE l \in Chosen(rule[r], key) : TRUE, rule[r].ceiling)
         Keeps == {r \in Yes : Remembers(rule[r]) /\ Life(r) # 0}
     IN /\ leave' = [r \in Requests |-> IF r \in Yes THEN "yes" ELSE leave[r]]
        /\ given' = [r \in Requests |-> IF r \in Keeps THEN {Line(r, Life(r))} ELSE given[r]]
        /\ since' = [r \in Requests |-> IF r \in Yes THEN now ELSE since[r]]
        /\ stage' = [r \in Requests |->
                       IF r \in Keeps          THEN "storing"
                       ELSE IF r \in Yes       THEN Decided(r)
                       ELSE IF r \in Prompting THEN "refused"
                       ELSE stage[r]]
  /\ UNCHANGED <<active, now, reloads, grants, shape, under, rule, expires, found, sent>>

(* Nobody answered in time: the timer of the prompt denies. *)
PromptTimesOut(r) ==
  /\ stage[r] = "prompt"
  /\ now >= since[r] + Ttl
  /\ stage' = [stage EXCEPT ![r] = "refused"]
  /\ UNCHANGED <<active, now, reloads, grants, shape, under, rule, expires, since, found, given, leave, sent>>

(* No terminal, or its end of file: denied as well. *)
PromptCloses(r) ==
  /\ stage[r] = "prompt"
  /\ stage' = [stage EXCEPT ![r] = "refused"]
  /\ UNCHANGED <<active, now, reloads, grants, shape, under, rule, expires, since, found, given, leave, sent>>

(* The grant is appended, or not: add() never fails.  Only then is the      *)
(* decision held against the time the request had.                          *)
StoreGrant(r) ==
  /\ stage[r] = "storing"
  /\ \/ grants' = grants \cup given[r]
     \/ grants' = grants
  /\ stage' = [stage EXCEPT ![r] = Decided(r)]
  /\ UNCHANGED <<active, now, reloads, shape, under, rule, expires, since, found, given, leave, sent>>

(* The upstream is who it should be, the transform succeeded: the request   *)
(* leaves with the real values in it.                                       *)
Forward(r) ==
  /\ stage[r] = "verify"
  /\ stage' = [stage EXCEPT ![r] = "sent"]
  /\ sent' = [sent EXCEPT ![r] = Swapped(under[r], shape[r])]
  /\ UNCHANGED <<active, now, reloads, grants, shape, under, rule, expires, since, found, given, leave>>

(* It is not, or the transform failed. *)
VerifyFails(r) ==
  /\ stage[r] = "verify"
  /\ stage' = [stage EXCEPT ![r] = "refused"]
  /\ UNCHANGED <<active, now, reloads, grants, shape, under, rule, expires, since, found, given, leave, sent>>

(* reconfigure: the schema was resolved again. *)
Reconfigure(p) ==
  /\ reloads < MaxReloads
  /\ reloads' = reloads + 1
  /\ active' = p
  /\ UNCHANGED <<now, grants, request>>

Tick ==
  /\ now < MaxTime
  /\ now' = now + 1
  /\ UNCHANGED <<active, reloads, grants, request>>

Handle(r) ==
  \/ Arrive(r) \/ PassBody(r) \/ AskLeave(r)
  \/ FindGrant(r) \/ OpenPrompt(r) \/ LookupFails(r)
  \/ PromptTimesOut(r) \/ PromptCloses(r) \/ StoreGrant(r)
  \/ Forward(r) \/ VerifyFails(r)

Next ==
  \/ \E r \in Requests : Handle(r)
  \/ \E key \in {"y", "s", "m", "n"} : Answer(key)
  \/ \E p \in Schemas : Reconfigure(p)
  \/ Tick

Spec == Init /\ [][Next]_vars

-----------------------------------------------------------------------------
(* Properties.                                                             *)

TypeOK ==
  /\ active \in Schemas
  /\ now \in Nat
  /\ reloads \in 0 .. MaxReloads
  /\ grants \subseteq GrantLines
  /\ stage \in [Requests -> Stages]
  /\ shape \in [Requests -> Traffic]
  /\ under \in [Requests -> Schemas]
  /\ rule \in [Requests -> SchemaRules \cup {NoRule}]
  /\ expires \in [Requests -> Nat]
  /\ since \in [Requests -> Nat]
  /\ found \in [Requests -> SUBSET GrantLines]
  /\ given \in [Requests -> SUBSET GrantLines]
  /\ leave \in [Requests -> {"none", "grant", "yes"}]
  /\ sent \in [Requests -> SUBSET Marks]

(* A secret only leaves with a request when some rule of the policy the     *)
(* request arrived under matches it and names the key without asking for    *)
(* approval, or names it with approval and the gate said yes: a narrower    *)
(* plain rule does not carry the key of a broader approval rule past the    *)
(* prompt, and a reload while the request waits changes nothing for it.     *)
LeaveBeforeSecrets ==
  \A r \in Requests : \A m \in sent[r] :
    \E s \in under[r].rules :
      /\ shape[r].host \in s.hosts /\ shape[r].end \in s.ends
      /\ m.key \in s.keys
      /\ s.gate # "block"
      /\ s.gate = "approval" => leave[r] # "none"

(* Substitution rewrites whole surfaces, the guards count marks one by one: *)
(* together they put a secret only where a target of one of its rules says, *)
(* and never more copies of it than its rules list targets.                 *)
Covers(t, place) ==
  \/ t = place
  \/ t = <<place[1], Bare>> /\ ~(place[1] = "header" /\ place[2] \in Denied)

SecretsOnTarget ==
  \A r \in Requests :
    /\ \A m \in sent[r] : \E s \in Matching(under[r], shape[r]) :
         m.key \in s.keys /\ \E t \in s.targets : Covers(t, m.place)
    /\ \A k \in Keys :
         Cardinality({m \in sent[r] : m.key = k})
           <= Cardinality(UNION {s.targets : s \in {t \in Grants(under[r], shape[r]) : k \in t.keys}})

(* A request let through by a standing grant is one whose own rule may be   *)
(* remembered, and the grant is younger than the ceiling of that rule: at   *)
(* the time of the lookup somebody had said yes to the same grant key less  *)
(* than the ceiling ago - unless a reload changed the ceiling of the rule   *)
(* after the yes, for grants do not know about reloads.                     *)
CeilingHolds ==
  \A r \in Requests : \A g \in found[r] :
    /\ rule[r].ceiling # 0
    /\ g.cap = rule[r].ceiling /\ g.cap # Forever => since[r] < g.at + g.cap
=============================================================================
