SPECIFICATION Spec
CONSTANTS
    a1 = a1
    a2 = a2
    b = b
    c = c
    ha = ha
    hb = hb
    hc = hc
    Key <- MCKey
    HashOf <- MCHashOf
    JobId = {j1, j2, j3}
    NumBlocks = 3
    EvictionCallCap = 2
    TombstoneCapacity = 2
    MaxEvents = 1
SYMMETRY MCSymmetry
INVARIANTS
    TypeOK
    BooksExact
    SlotsUndisturbed
    AssertionsHold
    EventsTellTheTruth
    TombstonesExact
