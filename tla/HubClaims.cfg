SPECIFICATION Spec
CONSTANTS
  c1 = c1
  c2 = c2
  c3 = c3
  p1 = p1
  p2 = p2
  Free = Free
  Clients = {c1, c2, c3}
  Paths = {p1, p2}
  Target <- TwoAndOne
  TTL <- Mixed
  MaxAttempts = 2
  MaxTime = 1
INVARIANTS MutualExclusion ContentionIsProgress
 
CHECK_DEADLOCK FALSE
