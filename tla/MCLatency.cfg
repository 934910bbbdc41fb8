SPECIFICATION Spec
CONSTANTS
    Threads <- TwoThreads
    Methods <- MCMethods
    Root = "root"
    Targets <- RootThenCallee
    Slots = 1
    MaxTime = 2
    MaxEntries = 2
    MaxDepth = 2
INVARIANTS
    EachEntryRecordedOnce
    TrappedCallsNotOverstated
    MaxLatBoundsWindow
