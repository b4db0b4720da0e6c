----------------------------- MODULE MCBddBlocks -----------------------------
(***************************************************************************)
(* Blocks of two or three cells and a limit of a few pairs of blocks: a    *)
(* collection copies across block boundaries, ends exactly at one or in    *)
(* the middle of a block, finds room, grows the heap, or is refused.       *)
(***************************************************************************)
EXTENDS BddBlocks

=============================================================================
