SPECIFICATION Spec
CONSTANTS
    p1 = p1
    p2 = p2
    p3 = p3
    NIL = NIL
    Handle = {p1, p2, p3}
    NumVars = 2
    MaxNodes = 4
SYMMETRY MCSymmetry
INVARIANTS
    TypeOK
    AsksForProperNodes
    ReturnsMeanTheirArguments
PROPERTY KeepsItsPromise
