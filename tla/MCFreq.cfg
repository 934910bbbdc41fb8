SPECIFICATION FreqSpec
CONSTANTS
    NumCpus = 6
    MaxNodes = 3
INVARIANTS
    FirstCpusOrOverrun ShownOnItsNode
