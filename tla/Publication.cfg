SPECIFICATION FairSpec
CONSTANTS
    Workers = {w1, w2}
    Pubs <- MCPubs
    RunOf <- MCRunOf
    FinalPubs <- MCPubs
    CompletedAt <- MCCompletedAt
    Decisions <- MCDecisions
    Legacies <- MCLegacies
    Window = 2
    MaxAttempts = 2
    MaxFaults = 1
    MaxControl = 1
    MaxPlans = 1
    Absent = Absent
    Legacy = Legacy
    Migrated = Migrated
    Nobody = Nobody
    Gone = Gone
CHECK_DEADLOCK FALSE
INVARIANTS IndexedResultsExist WithdrawnStaysOut
PROPERTIES NothingIsUndone 
