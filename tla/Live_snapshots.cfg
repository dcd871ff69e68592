SPECIFICATION Spec
CONSTANTS
    None = None
    Retention = 2
    MaxBlock = 5
INVARIANTS TypeOK PickedStaysReadable
PROPERTIES NewestNeverLost
