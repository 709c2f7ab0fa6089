SPECIFICATION Spec
CONSTANTS
  Objects = {o1, o2}
  Randoms = {r1, r2}
  Lens = {1, 32, 33}
  MaxCalls = 4
  MaxSent = 2
SYMMETRY Alike
CHECK_DEADLOCK FALSE
INVARIANTS
  TypeOK
  InCache
  Readers
  Fits
