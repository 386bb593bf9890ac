SPECIFICATION Spec
CONSTANTS
  alice = alice
  bob = bob
  carol = carol
  a1 = a1
  b1 = b1
  b2 = b2
  c1 = c1
  NoGroup = NoGroup
  None = None
  Accounts = {alice, bob, carol}
  Sessions = {a1, b1, c1}
  Owner <- ThreePeople
  Groups = {"g"}
  MaxCalls = 1
  Capacity = 1
  MaxRestarts = 0
  Failures = {}
SYMMETRY People
INVARIANTS
  GroupCallsAreMembers
CHECK_DEADLOCK FALSE
