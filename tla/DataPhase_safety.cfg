SPECIFICATION Spec
CONSTANTS
  Sizes = {0, 1, 32767, 32768, 65520, 65536, 65537}
  MaxSent = 3
CHECK_DEADLOCK FALSE
INVARIANTS
  TypeOK
  InSync
PROPERTIES
  NonceFresh
  ImplementsChannel
