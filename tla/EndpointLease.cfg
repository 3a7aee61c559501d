SPECIFICATION Spec
CONSTANTS
  j1 = j1
  j2 = j2
  Users = {j1, j2}
  Nobody = Nobody
  Casts <- AllCasts
  MaxFaults = 3
INVARIANTS UndisturbedUse PausedAtSuccess
PROPERTIES EndpointEndsOff
CHECK_DEADLOCK FALSE
