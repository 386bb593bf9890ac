SPECIFICATION Spec
CONSTANTS
  Consumers = {c1, c2}
  Logicals = {"chat","edit"}
  Controls = {"edit"}
  NoReference = "new"
  Reference <- OneEdit
  NumParts = 1
  MaxAttempts = 2
  MaxTime = 1
  AttemptTTL = 1
  Margin = 0
  MaxAhead = 1
  MaxControlTTL = 1
  RetireBatch = 1
  MaxLate = 0
SYMMETRY Windows
INVARIANTS
  ReceiptsTruthful
  OneLiveAttempt
  RetiredAfterReceipt
  NoConflict
CHECK_DEADLOCK FALSE
