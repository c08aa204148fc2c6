SPECIFICATION FairScreenSpec
CONSTANTS
    Lines = {1, 2}
    Positions = {1, 2, 3, 4}
    Gaps = {2}
    MaxLoads = 2
    MaxRegions = 2
    Colormaps = {"seismic", "gray"}
    ChunkTraces = 2
    MaxChanges = 2
INVARIANTS
    ScreenTypeOK
    NeverAborts
    ShownBelongsTogether
    ControlsNameTheSection
    ScreenShowsState
    WindowFollowsRegion
    SpectrumCountsEachTraceOnce
PROPERTIES
    KeptClickIsApplied
    NavigationComesBack
CHECK_DEADLOCK FALSE
