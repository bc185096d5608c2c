CONSTANT
    Rank = {r1, r2, r3}
SPECIFICATION FairSpec
INVARIANTS SplitOnlyOnRecovery NothingIsLeftBehind
PROPERTIES OpeningEnds
CHECK_DEADLOCK FALSE
