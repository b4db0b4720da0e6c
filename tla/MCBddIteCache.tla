--------------------------- MODULE MCBddIteCache ---------------------------
(***************************************************************************)
(* The constant, two nodes of one variable and one of another: enough for  *)
(* every rule, for both outcomes of each comparison and for the comparison *)
(* of addresses to decide.  Two addresses let a collection order the two   *)
(* nodes either way or, as the truncation to int may, not at all.          *)
(***************************************************************************)
EXTENDS BddIteCache

CONSTANTS one, n1, n2, n3

MCCell == {one, n1, n2, n3}
MCId == [x \in MCCell |-> CASE x = one -> 9 [] x \in {n1, n2} -> 1 [] OTHER -> 2]
MCAddr == 0 .. 1

=============================================================================
