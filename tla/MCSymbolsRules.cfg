SPECIFICATION Spec
CONSTANTS
    Threads = {t1, t2}
    Loader = t1
    Addrs = {a1, a2}
    Methods = {m1, m2}
    MaxCode = 3
    MaxRows = 1
    MaxRounds = 1
INVARIANT RulesKnowTheName
