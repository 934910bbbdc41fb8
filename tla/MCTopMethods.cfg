SPECIFICATION Spec
CONSTANTS
    Addrs = {1, 2, 3}
    Names = {"", "g"}
    Samples = {1, 2}
    MaxRows = 4
    MaxN = 2
    Top = 2
    Patterns <- NoneOrG
    Latencies = {0, 1}
INVARIANTS
    SumsAreLowerBounds OmittedAreSmall ResultIsFirst MonitoredAreSet
