SPECIFICATION FairSpec
CONSTANTS
    None = None
    Process = {"first", "second"}
    Deployment <- MCOneHost
    File = {1}
    FileOf <- MCOneFile
    Seed = {1}
    BurnPosition <- MCBurnPosition
    BURN_WINDOW_TEMPOS = 2
    BURN_ENABLED = TRUE
    WindowAnchor = 0
    Tempo = 2
    RateLimit = 1
    MaxBlock = 4
    MaxVersion = 2
INVARIANTS TypeOK OneBurnPerWindow
PROPERTIES FailClosed OverrideTakesEffect
