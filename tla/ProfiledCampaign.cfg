SPECIFICATION Spec
CONSTANTS
  Ladder <- MCLadder
  Reps = 3
  Observations = 1
  MaxErrors = 0
  Rates <- MCRates
  RepeatRates <- MCRepeatRates
  SmokeTries = 2
  ProfilePlans <- MCProfilePlans
  MaxCrashes = 1
  MaxFaults = 1
  Orders <- MCOrders
  MaxFailures = 2
  MaxCuts = 1
  Unprofiled <- MCUnprofiled
  Profiled <- MCProfiled
INVARIANTS SelectedFromEvidence ReplayReachesAll ProposalsMatchLock WaveHasItsTime
CHECK_DEADLOCK FALSE
