SPECIFICATION FairSealing
CONSTANTS
    Finalizers = {f1, f2}
    Trials <- MCTrials
    ExecNames <- MCExecNames
    Histories <- MCHistories
    MaxFaults = 2
    Failure = Failure
    Nobody = Nobody
    Gone = Gone
INVARIANTS PassesAgree SealedIsPublishable OneTerminalMarker
PROPERTIES WholeIsSealed
