SPECIFICATION Spec
CONSTANTS
    one = one
    n1 = n1
    n2 = n2
    n3 = n3
    NIL = NIL
    One = one
    Cell <- MCCell
    Id <- MCId
    Addr <- MCAddr
INVARIANTS
    AnswersAreRight
    EntryIsSound

