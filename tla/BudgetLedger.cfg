SPECIFICATION BudgetSpec
CONSTANTS
  a1 = a1
  a2 = a2
  s1 = s1
  s2 = s2
  Attempts <- TwoAttempts
  Sandboxes <- TwoSandboxes
  Ceiling = 9
  InitialJobs = 2
  JobReservation = 2
  SandboxReservation = 2
  Costs = {0, 1, 5}
  SandboxCosts = {1, 2}
  MaxCrashes = 1
INVARIANTS PromisesWithinCeiling JobsKeepLedgerSound
CHECK_DEADLOCK FALSE
