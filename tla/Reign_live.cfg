SPECIFICATION FairSpec
CONSTANTS
    None = None
    Unit = 10000
    Margin = 100
    HistoryDepth = 2
    Hotkey = {1, 2}
    Recommitting = {}
    Unfetchable = {}
    Artifact = {1}
    Ratio = {196, 198, 199}
    Baseline = {200}
    MaxBlock = 2
    MaxVersion = 1
    StartBlock <- MCNoStartBlock
INVARIANT LosesOnlyToEarlier
PROPERTIES EveryRevealIsJudged CrownLostOnlyToMargin EarlierCommitProtected
