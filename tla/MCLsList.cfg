SPECIFICATION Spec
CONSTANTS
    g1 = g1
    g2 = g2
    c1 = c1
    c2 = c2
    c3 = c3
    c4 = c4
    NIL = NIL
    Cell = {c1, c2, c3, c4}
    Data = {1, 2}
    Gen = {g1, g2}
SYMMETRY MCSymmetry
INVARIANTS
    ListIsIntact
    SpotsAreLive
PROPERTY KeepsPromiseButAtFarEnd
