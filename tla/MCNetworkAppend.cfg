SPECIFICATION Spec
CONSTANTS
    NIL = NIL
    Circuits <- CrossedCircuits
    Library <- SweptLibrary
    InitialValues = {0}
    MaxGrown = 1
INVARIANT NetworkIsSound
CHECK_DEADLOCK FALSE
