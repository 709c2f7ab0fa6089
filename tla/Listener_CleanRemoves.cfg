SPECIFICATION Spec
CONSTANTS
  Sessions = {s1, s2}
  Hosts = {h1, h2}
  Keys = {k1}
  ZeroKey = k0
  Null = null
  MaxConnections = 2
  MaxSessions = 1
CHECK_DEADLOCK FALSE
PROPERTY CleanRemoves
