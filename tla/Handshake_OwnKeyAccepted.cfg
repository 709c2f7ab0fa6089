SPECIFICATION Spec
CONSTANTS
  Infos = {i1, i2}
  IdKey <- MCIdKey
  StaticKey <- MCStaticKey
  NoKey = nokey
  NoInfo = noinfo
  i1 = i1
  i2 = i2
  i3 = i3
  k1 = k1
  k2 = k2
  RequestPads <- Extremes
  CreatedPads <- Extremes
  ConfirmedSizes <- OneSize
  DataSize = 500
  Skews <- ClockSkews
  Delays <- OneDelay
  MaxTime = 720
CHECK_DEADLOCK FALSE
INVARIANT OwnKeyAccepted
