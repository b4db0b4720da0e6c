------------------------------- MODULE BddPtr -------------------------------
(***************************************************************************)
(* Pointers to BDD nodes as sis/bdd_ucb stores them: the address of a cell *)
(* with a sign in the low-order bit.  One cell stands for a function and   *)
(* for its complement; which of the two is meant is decided by the sign of *)
(* the pointer that refers to it.                                          *)
(***************************************************************************)

CONSTANTS
    Cell,       \* the places a bdd_node may live in, over both half spaces
    NIL         \* NIL(bdd_node)

ASSUME NILAssumption == NIL \notin [cell: Cell, neg: BOOLEAN]

Ptr == [cell: Cell, neg: BOOLEAN]

PtrOrNIL == Ptr \union {NIL}

\* The pointer to c with a clear sign bit.
Reg(c) == [cell |-> c, neg |-> FALSE]

NOT(p) == [cell |-> p.cell, neg |-> ~p.neg]

REGULAR(p) == Reg(p.cell)

IS_COMPLEMENT(p) == p.neg

\* p with its sign flipped when b holds.
Flip(b, p) == [cell |-> p.cell, neg |-> (b /= p.neg)]

=============================================================================
