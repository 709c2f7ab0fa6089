SPECIFICATION Spec
CONSTANTS
  Objects = {o1, o2}
  Randoms = {r1, r2}
  Lens = {1, 32, 33}
  MaxCalls = 3
  MaxSent = 2
CHECK_DEADLOCK FALSE
PROPERTY
  NewKeysPerMessage
