SPECIFICATION FairSpec
CONSTANTS
  Calls = {a, b, c}
  Ping = Ping
  Sockets = {s1, s2, s3}
  NoSocket = NoSocket
  MaxFaults = 2
INVARIANTS TypeOK OneAttempt NobodyStranded LoneCallRetried
PROPERTY CallsSettle
