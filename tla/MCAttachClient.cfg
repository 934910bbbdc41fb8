SPECIFICATION FairSpec
CONSTANTS
    Clients = {c1, c2}
    MaxTries = 3
INVARIANTS
    TypeOK
    SuccessMeansSessionOver
    DumpOnlyAfterTimeoutOrRace
    NoTmpTriggerLeft
PROPERTY
    ClientsEnd
