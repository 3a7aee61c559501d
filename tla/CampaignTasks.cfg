SPECIFICATION Spec
CONSTANTS
  t1 = t1
  t2 = t2
  Tasks <- TwoTasks
  Batches <- OneBatch
  MaxAttempts = 2
  SuccessWithoutReceipt = FALSE
  MaxCrashes = 1
  MaxOperatorRetries = 1
SYMMETRY TaskSymmetry
INVARIANTS RecordsAreUnique NoStrandedTask PublishedIsAccounted
PROPERTIES QuietAfterPublication
CHECK_DEADLOCK FALSE
