SPECIFICATION Spec
CONSTANTS
    Writers = {w1, w2}
    Paths <- MCPaths
    Contents <- MCContents
    Absent <- MCAbsent
    Ops <- MCOps
    Same <- MCSame
    MaxAttempts = 2
    BatchSize = 1
    MaxRequests = 2
PROPERTY StoreIsAtomic
CHECK_DEADLOCK FALSE
