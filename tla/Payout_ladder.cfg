SPECIFICATION Spec
CONSTANTS
    Hotkey = {0, 1, 2}
    Burn = 0
    Alpha = {0, 1}
    Required <- MCRequired
    Unit = 100
    BaseShare = 25
    Multiplier = 15
    Improvement = {0, 1, 6}
    MaxHistory = 3
INVARIANTS PaidWereChecked PaidFromTheTop CoveredIsNeverGated BurnsOnlyIfNoneQualifies TypeOK
