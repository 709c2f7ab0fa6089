SPECIFICATION Spec
CONSTANTS
  Outs = {s1, s2}
  Dests = {d1, d3}
  Keys = {k1, k2}
  IdKey <- MCIdKey
  StaticKey <- MCStaticKey
  Callers = {c1, c2}
  Nobody = nobody
  d1 = d1
  d2 = d2
  d3 = d3
  k1 = k1
  k2 = k2
CHECK_DEADLOCK FALSE
SYMMETRY Symmetry
INVARIANTS
  TypeOK
  OnePerKey
  BannedStayOut
  Reachable
