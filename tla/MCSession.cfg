SPECIFICATION FairAgentSpec
CONSTANTS
    MaxRounds = 3
    MaxSamples = 1
INVARIANTS
    TypeOK
    SamplingOnlyInWindow
    RoundsWaitForMarker
    MethodReportsAreFresh
    OtherReportsAccumulate
    AttachedMethodThreadIsClean
    LiveUseOfClosedStream
    SessionHasItsEvents
PROPERTIES
    OneSession
    ImplementsWindows
    ImplementsSession
    SessionCompletes
