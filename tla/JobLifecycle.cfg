SPECIFICATION FairSpec
CONSTANTS
  l1 = l1
  l2 = l2
  Launches <- TwoLaunches
  MaxFaults = 2
INVARIANTS AtMostOneJob NoStrandedJob SealedHasNoJob
  
CHECK_DEADLOCK FALSE
