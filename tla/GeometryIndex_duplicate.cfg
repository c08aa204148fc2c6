SPECIFICATION Spec
CONSTANTS
    v1 = v1
    v2 = v2
    v3 = v3
    Versions <- SameSize
    NoVersion = NoVersion
    MaxDatasets = 3
    MaxEdits = 1
    Builders = {b1, b2}
    BatchesOf <- MCBatchesOf
    MaxKills = 0
SYMMETRY Interchanged
INVARIANTS
    OneRowPerFingerprint
CHECK_DEADLOCK FALSE
