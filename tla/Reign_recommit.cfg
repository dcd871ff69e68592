SPECIFICATION Spec
CONSTANTS
    None = None
    Unit = 10000
    Margin = 100
    HistoryDepth = 2
    Hotkey = {1}
    Recommitting = {1}
    Unfetchable = {1}
    Artifact = {1, 2}
    Ratio = {196, 198, 199}
    Baseline = {200}
    MaxBlock = 2
    MaxVersion = 1
    StartBlock <- MCNoStartBlock
INVARIANTS LadderWellFormed ImprovementEarned
