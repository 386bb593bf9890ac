SPECIFICATION Spec
CONSTANTS
  alice = alice
  bob = bob
  carol = carol
  a1 = a1
  b1 = b1
  b2 = b2
  c1 = c1
  NoGroup = NoGroup
  None = None
  Accounts = {alice, bob}
  Sessions = {a1, b1, b2}
  Owner <- TwoPeople
  Groups = {}
  MaxCalls = 2
  Capacity = 2
  MaxRestarts = 0
  Failures = {"lost"}
SYMMETRY Devices
INVARIANTS
  BindingExact
  LiveCallsViable
  NoGhosts
  PhonesRing
CHECK_DEADLOCK FALSE
