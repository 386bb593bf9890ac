SPECIFICATION FairSpec
CONSTANTS
  Consumers = {c1}
  Logicals = {"chat"}
  Controls = {}
  NoReference = "new"
  Reference <- OneEdit
  NumParts = 2
  MaxAttempts = 2
  MaxTime = 1
  AttemptTTL = 1
  Margin = 0
  MaxAhead = 1
  MaxControlTTL = 1
  RetireBatch = 1
  MaxLate = 1
PROPERTIES
  KeepsPromise
  EventuallyRetired
CHECK_DEADLOCK FALSE
