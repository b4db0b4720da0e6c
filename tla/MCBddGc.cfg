SPECIFICATION MCSpec
CONSTANTS
    a1 = a1
    a2 = a2
    a3 = a3
    b1 = b1
    b2 = b2
    b3 = b3
    one = one
    t = t
    e = e
    x = x
    NIL = NIL
    Cell <- MCCell
    HalfOf <- MCHalfOf
    VarId = {0, 1}
    ONE_ID = 3
    BROKEN_HEART_ID = 2
    Loc = {one, t, e, x}
    OneLoc = one
    ArgT = t
    ArgE = e
    Frame = {t, e}
    Slot = {"key", "value"}
    MaxEntries = 1
SYMMETRY MCSymmetry
INVARIANTS
    TypeOK
    NoDangling
    Unique
    StillNew
    Ordered
    Faithful
    CollectsGarbage
    NeverStarves
PROPERTY CollectionAdvances
