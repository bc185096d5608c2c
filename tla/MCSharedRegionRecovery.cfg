CONSTANT
    Rank = {r1, r2, r3}
SPECIFICATION Spec
INVARIANTS RanksShareOneFile
CHECK_DEADLOCK FALSE
