SPECIFICATION ReconcilerSpec
CONSTANTS
    t1 = t1
    t2 = t2
    Shards <- MCShards
    Layouts <- MCLayouts
    MaxExecutions = 2
    MaxShardsPerWave = 1
    WaveCost = 2
    Cap = 5
    MaxFaults = 1
    MaxActions = 4
SYMMETRY TrialSymmetry
INVARIANTS OneLiveJob TerminalIsClean  SpendWithinCap
CHECK_DEADLOCK FALSE
