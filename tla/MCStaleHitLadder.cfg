SPECIFICATION Spec
CONSTANTS
    Hits = {1, 2}
    Boundaries = {0, 1}
    MaxLookups = 2
    RepeatWindow = 3
    PinSecs = 1
    FallbackLimit = 2
    TtlSecs = 3
    WallSecs = 3
    RefusalSecs = 2
INVARIANTS
    LadderIsConsistent
PROPERTIES
    FalseClaimStaysDown
    EscapeEndsOnProgress
    WedgeIsAdmitted
