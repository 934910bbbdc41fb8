SPECIFICATION Spec
CONSTANTS
    Methods = {m1, m2, m3}
    Cpus = {c1, c2}
    n = 3
    DebugRegs = 2
    Functions = 2
    MaxRounds = 2
    MaxHits = 2
SYMMETRY MethodCpuSymmetry
INVARIANTS
    TypeOK CountsNeverOverstated NothingLeftAttached FirstMethodsCounted
