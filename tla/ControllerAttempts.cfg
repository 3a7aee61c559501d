SPECIFICATION ControllersSpec
CONSTANTS
  s1 = s1
  w1 = w1
  Submitters = {s1}
  Watchdogs = {w1}
  MaxAttempts = 2
  MaxJobs = 3
  MaxFaults = 1
INVARIANTS OneLiveJob
PROPERTIES CapacityKept
