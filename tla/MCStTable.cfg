SPECIFICATION Spec
CONSTANTS
    g1 = g1
    c1 = c1
    c2 = c2
    c3 = c3
    NIL = NIL
    Lost = Lost
    Cell = {c1, c2, c3}
    Key = {1, 2, 3}
    Val = {1}
    Gen = {g1}
    HashOf <- MCHashOf
    InitSize = 0
    MaxDensity = 2
    GrowFactor = 2
    ReorderFlag = FALSE
SYMMETRY MCSymmetry
INVARIANTS
    TableIsSound
    WalksAreLive
PROPERTY KeepsPromise
