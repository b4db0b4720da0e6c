----------------------------- MODULE MCBddEngine -----------------------------
(***************************************************************************)
(* Three external pointers and two variables: enough for an operation on   *)
(* two different functions with a third pointer for the answer, and, with  *)
(* room for four nodes (the constant, two variables and one more), for     *)
(* collections at every depth of the recursion.                            *)
(***************************************************************************)
EXTENDS BddEngine, TLC

CONSTANTS p1, p2, p3

MCSymmetry == Permutations({p1, p2, p3})

\* Three variables, on which an activation can hold a new node while it
\* computes its other branch: the user makes the variables, any if-then-else
\* of them, and a conjunction of the answer, or its complement, with one of
\* the four.
Step(p) ==
    \/ p <= NumVars /\ StartVariable(p, p - 1)
    \/ p = NumVars + 1 /\ \E k \in Operands : StartIte(p, k)
    \/ p = NumVars + 2 /\ \E k \in Operands :
         k.f.cell = handle[NumVars + 1].cell /\ k.h = Zero /\ StartIte(p, k)

Deepening == \E p \in Handle : (\A q \in Handle : q < p => handle[q] /= NIL) /\ Step(p)

DeepSpec == Init /\ [][Deepening \/ Running]_vars /\ WF_vars(Running)

=============================================================================
