SPECIFICATION Spec
CONSTANTS
  Offers <- SomeOffers
  Resizes <- SomeResizes
  MaxCalls = 6
  MaxGarbage = 1
  Delays = {120}
  MaxTime = 120
  InfoSizes = {440, 700, 40000, 64982, 64983, 65015, 65016, 65515}
  Pads = {0, 1, 13, 14, 15, 16, 31, 32, 33, 417, 418, 450, 451, 452, 25014, 25433, 25434, 64314, 64574, 64733, 64734, 64993, 64994, 65073, 65074, 65535}
CHECK_DEADLOCK FALSE
INVARIANTS
  TypeOK
  AlwaysOrdered
  ConfirmedArrives
PROPERTIES
  RoundTrip
  Spoiled
