SPECIFICATION Spec
CONSTANTS
  Space = 16
  Packets = 3
  Bytes = 5
  MaxWait = 3
  MinWait = 1
  Freshness = 1
  FirstSent = 13
  LastSent = 19
  MaxTime = 5
INVARIANTS
  InOrder
  HeldForAReason
  Bounded
PROPERTIES
  GapsWaitTheirTime
CHECK_DEADLOCK FALSE
