SPECIFICATION Spec
CONSTANTS
  o1 = o1
  o2 = o2
  Infos = {o1, o2}
  AddrCounts = {1, 256}
  FarCerts <- SomeFarCerts
  MaxCalls = 3
SYMMETRY Symmetry
CHECK_DEADLOCK FALSE
INVARIANTS
  TypeOK
  RoundTrip
  PairedKeys
  Unmixed
