SPECIFICATION Spec
CONSTANTS
    NIL = NIL
    Circuits <- MCCircuits
    Library <- MCLibrary
    InitialValues = {0}
    MaxGrown = 1
INVARIANTS
    TypeOK
    NetworkIsSound
    LatchesAreSound
    NoHiddenAliasing
    SweptClean
PROPERTIES
    KeepsBehaviour
    SweepIsDone
    LatchesAreCuts
    AppendJoins
CHECK_DEADLOCK FALSE
