SPECIFICATION FairSpec
CONSTANTS
    Hotkey = {1, 2}
    Process = {"reign", "setter"}
    File = {1}
    FileOf <- MCOneFile
    Writer = {"reign"}
    Start = 2
    Tempo = 2
    Tempos = {2, 3}
    Horizon = 1
    Pruning = 2
    Emission <- MCEmission
    Owed <- MCOwed
    FirstBlock = 1
    MaxBlock = 8
INVARIANTS TypeOK EarnedIsExact
PROPERTIES NothingIsForgotten LedgerCatchesUp
