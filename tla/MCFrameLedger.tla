--------------------------- MODULE MCFrameLedger ---------------------------
(***************************************************************************)
(* Model-checking instance of FrameLedger: five (or three) frames in two  *)
(* regions, two threads, one purgeable and one inode VMObject.             *)
(***************************************************************************)
EXTENDS FrameLedger, TLC

MCFrames == 1..5
\* Two physical regions, so that the first-fit region loops and a
\* contiguous run that fits only in the first region are both reachable.
MCRegionFrames == << {1, 2, 3}, {4, 5} >>

\* Four frames for the run that adds kernel regions: the two regions keep
\* one run of two frames each.
MCFramesKR == 1..3
MCRegionFramesKR == << {1, 2}, {3} >>

MCSymmetry == Permutations(Threads)
=============================================================================
