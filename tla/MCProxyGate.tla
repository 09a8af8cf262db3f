------------------------------ MODULE MCProxyGate -----------------------------
(* Model checking instance of ProxyGate. *)
EXTENDS ProxyGate, TLC

CONSTANTS h1, charge, health, b1, b2, k1, k2, auth, cookie, note, sig, r1, r2

MCConsumes == [t \in {sig} |-> {k2}]
MCScheme == [t \in {sig} |-> "hmac"]
MCRequests == {r1, r2}
Symmetry == Permutations(MCRequests)

(* The whole host behind an approval, the health check exempt from it, and  *)
(* a field of the body for the second key.                                  *)
Rule(ends, level, keys, targets, gate, each, ceiling, transform) ==
  [hosts |-> {h1}, ends |-> ends, level |-> level, keys |-> keys, targets |-> targets,
   gate |-> gate, each |-> each, ceiling |-> ceiling, transform |-> transform]

Header == {<<"header", Bare>>}
Broad(each, ceiling) ==
  Rule({charge, health}, 0, {k1}, Header, "approval", each, ceiling, NoTransform)
Health == Rule({health}, 2, {}, Header, "none", "endpoint", Forever, NoTransform)
Field  == Rule({charge, health}, 0, {k2}, {<<"body", note>>, <<"header", cookie>>}, "none",
               "endpoint", Forever, NoTransform)
Signed == Rule({charge}, 2, {}, Header, "none", "endpoint", Forever, sig)
NoHealth == Rule({health}, 2, {}, Header, "block", "endpoint", Forever, NoTransform)

MCSchemas ==
  {[rules |-> {Broad("endpoint", Forever), Health, Field}, strict |-> TRUE,  managed |-> {k1, k2}],
   [rules |-> {Broad("request", 1), Field},               strict |-> TRUE,  managed |-> {k1, k2}],
   [rules |-> {Broad("endpoint", 0), Health},               strict |-> FALSE, managed |-> {k1}],
   [rules |-> {Broad("host", 2), Signed, NoHealth},        strict |-> FALSE, managed |-> {k1, k2}]}

Mark(k, surface, name, nth) == [key |-> k, place |-> <<surface, name>>, nth |-> nth]
Request(end, body, marks) ==
  [host |-> h1, end |-> end, body |-> body, tls |-> TRUE, marks |-> marks]
MCTraffic ==
  {Request(charge, b1, {Mark(k1, "header", auth, 1)}),
   Request(charge, b2, {Mark(k1, "header", auth, 1), Mark(k1, "body", note, 1), Mark(k2, "body", note, 1)}),
   Request(charge, b1, {Mark(k1, "header", auth, 1), Mark(k1, "header", note, 1)}),
   Request(health, b1, {Mark(k1, "header", auth, 1)}),
   Request(health, b1, {Mark(k2, "header", cookie, 1), Mark(k2, "body", note, 1), Mark(k2, "body", auth, 1)})}
=============================================================================
