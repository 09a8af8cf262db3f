SPECIFICATION Spec
CONSTANTS
  Calls = {a, b}
  Ping = Ping
  Sockets = {s1, s2}
  NoSocket = NoSocket
  MaxFaults = 1
INVARIANT RecoverableIsRetried
