SPECIFICATION Spec
CONSTANTS
  s1 = s1
  s2 = s2
  NSlots = 2
  MAX_LIVE_EPOCHS = 4
  KEYRING = 16
  MAX_PENDING = 2
  MaxRequests = 5
  MaxSources = 1
  MaxFrames = 3
  Space = 16
  TimestampWindow = 2
  Loads <- SmallLoads
INVARIANTS
  AcceptedOnce
  FullClears
  RingsExact
CHECK_DEADLOCK FALSE
