SPECIFICATION FairSpec
CONSTANTS
    Threads <- TwoThreads
    Rows <- MCRows
    Watched <- MCWatched
    Sizes <- MCSizes
    MaxInt <- MCMaxInt
    N = 2
    MaxLines = 1
    MaxEvents = 3
INVARIANTS
    RowsExact
    SizesNeverOvercount
    ReportIsConsistent
PROPERTY
    CallbacksEnd
