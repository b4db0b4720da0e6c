----------------------------- MODULE MCStTable ------------------------------
(***************************************************************************)
(* Three keys in a table that begins with one bin and grows to three when  *)
(* the third is added: two of the keys share a bin after that, too.  A     *)
(* generator and a st_foreach are two walks over them.                     *)
(***************************************************************************)
EXTENDS StTable

CONSTANTS g1, c1, c2, c3

MCSymmetry == Permutations({c1, c2, c3})

MCHashOf == [k \in Key |-> IF k = 3 THEN 2 ELSE 3 * k + 1]

=============================================================================
