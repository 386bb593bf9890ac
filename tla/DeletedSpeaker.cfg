SPECIFICATION Spec
CONSTANTS
  Clients = {c1}
  Channels = {1, 2}
  TextChannels = {}
  MusicChannels = {}
  Capacities = {0}
  MaxEpoch = 4
PROPERTY DeletionSilences
CHECK_DEADLOCK FALSE
