SPECIFICATION Spec
CONSTANTS
    None = None
    Unit = 10000
    Margin = 100
    HistoryDepth = 2
    Hotkey = {1, 2}
    Recommitting = {}
    Unfetchable = {1}
    Artifact = {1}
    Ratio = {98, 99}
    Baseline = {100}
    MaxBlock = 2
    MaxVersion = 2
    StartBlock <- MCStartAt2
PROPERTIES OnlyADroppedScoreUnseats SurfaceWipeReadmits
