SPECIFICATION Spec
CONSTANTS
    a = a
    b = b
    Names = {a, b}
    Lengths = {1, 2, 3}
    v1 = v1
    v2 = v2
    Versions = {v1, v2}
    MaxEnd = 6
    MaxCrashes = 1
    Large = 2
    None = None
SYMMETRY Symmetry
INVARIANTS
    FreeApart
    NothingTwice
    NothingLeaked
    ReadsBack
    StaysReadable
CHECK_DEADLOCK FALSE
