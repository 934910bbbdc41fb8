SPECIFICATION Spec
CONSTANTS
    Methods = {m1, m2, m3}
    Cpus = {c1}
    n = 2
    DebugRegs = 4
    Functions = 5
    MaxRounds = 2
    MaxHits = 2
SYMMETRY MethodCpuSymmetry
INVARIANTS
    CountsOfThisRound
