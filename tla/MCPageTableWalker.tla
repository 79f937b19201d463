------------------------- MODULE MCPageTableWalker -------------------------
(***************************************************************************)
(* Model-checking instance of PageTableWalker: two directories of two     *)
(* page-directory entries, page tables of two entries, and three frames,  *)
(* so that two tables exhaust memory and the reclaim tiers run.            *)
(***************************************************************************)
EXTENDS PageTableWalker, TLC

MCFrames == 1..3
=============================================================================
