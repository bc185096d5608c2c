SPECIFICATION PolicySpec
CONSTANTS
    Key = {a, b, c, d, e}
    HashOf <- MCHashOf
    JobId = {j1, j2}
    NumBlocks = 2
    EvictionCallCap = 0
    TombstoneCapacity = 0
    MaxEvents = 1
    MaxTouch = 2
    Scale = 2
SYMMETRY MCSymmetry
INVARIANTS
    LruListExact
    ArcListsExact
    AdaptationBounded
PROPERTIES
    TouchKeepsPrefixes
    PoliciesAreTiers
