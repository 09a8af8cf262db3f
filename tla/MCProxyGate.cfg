SPECIFICATION Spec
CONSTANTS
  h1 = h1
  charge = charge
  health = health
  b1 = b1
  b2 = b2
  k1 = k1
  k2 = k2
  auth = auth
  cookie = cookie
  note = note
  sig = sig
  r1 = r1
  r2 = r2
  Keys = {k1, k2}
  Hosts = {h1}
  Ends = {charge, health}
  Bodies = {b1, b2}
  Names = {auth, cookie, note}
  Bare = Bare
  Denied = {cookie}
  Transforms = {sig}
  NoTransform = NoTransform
  Consumes <- MCConsumes
  Scheme <- MCScheme
  Forever = Forever
  Requests <- MCRequests
  Traffic <- MCTraffic
  Schemas <- MCSchemas
  NoRule = NoRule
  Ttl = 1
  DefaultGrant = 2
  MaxTime = 3
  MaxReloads = 1
SYMMETRY Symmetry
INVARIANTS TypeOK LeaveBeforeSecrets SecretsOnTarget CeilingHolds
CHECK_DEADLOCK FALSE
