SPECIFICATION FairSpec
CONSTANTS
  Devices = {a, b}
  Capable = {a, b}
  InitialRosters = {{a, b}, {a}}
  NSlots = 2
  MAX_LIVE_EPOCHS = 3
  KEYRING = 8
  MaxChanges = 2
  MaxFaults = 1
INVARIANTS RemovalBound RemovalsAreServed RecipientsAreCurrent QuietIsSafe
PROPERTY Recovers
CHECK_DEADLOCK FALSE
