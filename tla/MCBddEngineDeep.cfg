SPECIFICATION DeepSpec
CONSTANTS
    p1 = p1
    p2 = p2
    p3 = p3
    NIL = NIL
    Handle = {1, 2, 3, 4, 5}
    NumVars = 3
    MaxNodes = 7
INVARIANTS
    NothingDangles
PROPERTY OperationsEnd
\* When every external pointer is taken the user is done.
CHECK_DEADLOCK FALSE
