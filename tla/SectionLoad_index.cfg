SPECIFICATION LoadSpec
CONSTANTS
    v1 = v1
    v2 = v2
    v3 = v3
    Versions <- MCVersions
    NoVersion = NoVersion
    MaxDatasets = 1
    MaxEdits = 1
    Builders = {b1, b2}
    BatchesOf <- MCBatchesOf
    MaxKills = 1
    Header <- MCHeader
    MaxSectionTraces = 2
    MaxLoads = 1
SYMMETRY Interchanged
INVARIANTS
    LoadTypeOK
    ReturnedAsFingerprinted
    SettledIndexIsWhole
    MisfitIsVisible
    SectionIsOfTheFile
CHECK_DEADLOCK FALSE
