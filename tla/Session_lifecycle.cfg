SPECIFICATION FairSpec
CONSTANTS
  Callers = {c1, c2}
  Nobody = nobody
CHECK_DEADLOCK FALSE
INVARIANTS
  TypeOK
  DataPhaseExists
  NoLostWakeup
  DestroyedIsQuiet
  WaitTellsTheTruth
PROPERTY
  CallsReturn
