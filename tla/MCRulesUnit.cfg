SPECIFICATION Spec
CONSTANTS
    Names <- MCNames
    Fields <- MCFields
    Initial <- MCInitial
    Assigned <- MCAssigned
    MaxInt = 8191
    Lines <- TuneCfg
    SlotEnds <- MCSlotEnds
    Numbers = {50, 100}
    LatTop = FALSE
    MaxRounds = 1
INVARIANT UnitlessThreshold
