SPECIFICATION FairSpec
CONSTANTS
  alice = alice
  bob = bob
  carol = carol
  a1 = a1
  b1 = b1
  b2 = b2
  c1 = c1
  NoGroup = NoGroup
  None = None
  Accounts = {alice, bob}
  Sessions = {a1, b1, b2}
  Owner <- TwoPeople
  Groups = {}
  MaxCalls = 1
  Capacity = 1
  MaxRestarts = 1
  Failures = {"lost", "landed"}
PROPERTIES
  RetiredIsStored
  HistoryFinal
  RingingStops
  EndedCallsRetire
CHECK_DEADLOCK FALSE
