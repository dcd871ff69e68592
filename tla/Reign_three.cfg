SPECIFICATION Spec
CONSTANTS
    None = None
    Unit = 10000
    Margin = 100
    HistoryDepth = 2
    Hotkey = {1, 2, 3}
    Recommitting = {}
    Unfetchable = {1}
    Artifact = {1}
    Ratio = {98, 99}
    Baseline = {100}
    MaxBlock = 1
    MaxVersion = 1
    StartBlock <- MCNoStartBlock
INVARIANTS TypeOK LadderNotExcluded BarIsTheCrowns SeedIsTheChampions
PROPERTIES ImprovementNeverErased KeepsThePromise
