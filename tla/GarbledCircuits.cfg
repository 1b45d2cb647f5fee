CONSTANTS
    MaxGates = 3
    MaxOther = 2
    MaxWidth = 2
    Bits = {0, 1}
    Lsb = 0
    GarbleKeys = {0}
    Hash <- MixedHash
SPECIFICATION GSpec
CHECK_DEADLOCK FALSE
INVARIANTS CircuitOK CopySound LabelsMatch DecodesRight TablesFit
