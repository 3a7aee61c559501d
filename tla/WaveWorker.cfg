SPECIFICATION Spec
CONSTANTS
  t1 = t1
  t2 = t2
  Trials = {t1, t2}
  Shardings <- BothShardings
  PoolOf <- Pools
  Judged = {t1}
  MaxCalls = 1
  MaxWaves = 2
  MaxKills = 1
INVARIANTS AttemptsAreContiguous MarkersInOrder JudgeRecordsAreCounted
PROPERTIES WaveEnds
CHECK_DEADLOCK FALSE
