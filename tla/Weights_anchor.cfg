SPECIFICATION Spec
CONSTANTS
    None = None
    Process = {"first", "second"}
    Deployment <- MCTwoHosts
    File = {"first", "second"}
    FileOf <- MCTwoFiles
    Seed = {1}
    BurnPosition <- MCBurnPosition
    BURN_WINDOW_TEMPOS = 2
    BURN_ENABLED = TRUE
    WindowAnchor = 0
    Tempo = 1
    RateLimit = 1
    MaxBlock = 3
    MaxVersion = 2
INVARIANT BurnTogether
