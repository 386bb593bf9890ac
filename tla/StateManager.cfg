SPECIFICATION Spec
CONSTANTS
  Clients = {c1, c2}
  Channels = {1, 2}
  TextChannels = {}
  MusicChannels = {2}
  Capacities = {0, 1}
  MaxEpoch = 2
SYMMETRY Sessions
INVARIANTS
  MembershipExact
  SubscriptionsMirror
  SpeakersAreUnmuted
PROPERTIES
  EpochAdvances
  CapacityRespected
CHECK_DEADLOCK FALSE
