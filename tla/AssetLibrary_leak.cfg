SPECIFICATION FairSpec
CHECK_DEADLOCK FALSE
CONSTANTS
    Id = {i1, i2}
    Call = {c1, c2}
    MaxSize = 2
INVARIANT
    Autoreleased
