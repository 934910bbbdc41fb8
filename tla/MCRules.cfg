SPECIFICATION Spec
CONSTANTS
    Names <- MCNames
    Fields <- MCFields
    Initial <- MCInitial
    Assigned <- MCAssigned
    MaxInt = 2047
    Lines <- MixedLines
    SlotEnds <- MCSlotEnds
    Numbers = {0, 400, 1100}
    LatTop = TRUE
    MaxRounds = 2
INVARIANTS FieldsWithinBounds LatencyRulesWithinTwo
