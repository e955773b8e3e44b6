------------------------- MODULE MCReviewLifecycle -------------------------
(***************************************************************************)
(* Instances of ReviewLifecycle for TLC.                                   *)
(***************************************************************************)
EXTENDS ReviewLifecycle

CONSTANTS r1, r2, w1, w2    \* two reviewers, two worker ticks
=============================================================================
