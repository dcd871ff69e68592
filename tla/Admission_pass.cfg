SPECIFICATION Spec
CONSTANTS
    None = None
    Hotkey = {1, 2}
    CopyOf <- MCCopyOf
    Quality = {"good", "flawed", "broken"}
    MaxBlock = 4
    FullInterval = 2
    StreakLimit = 2
    MaxAge = 1
INVARIANTS TypeOK OneValidPerContent
PROPERTIES OriginalOwns TieBreakIsTheDigests GoneWasUnreachable
