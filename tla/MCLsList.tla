------------------------------ MODULE MCLsList ------------------------------
(***************************************************************************)
(* Four elements, two generators and two values: a middle with an element  *)
(* on either side, and two generators at one spot, next to each other or   *)
(* apart.                                                                  *)
(***************************************************************************)
EXTENDS LsList

CONSTANTS g1, g2, c1, c2, c3, c4

MCSymmetry == Permutations({c1, c2, c3, c4}) \union Permutations({g1, g2})

=============================================================================
