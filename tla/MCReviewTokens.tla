--------------------------- MODULE MCReviewTokens ---------------------------
(***************************************************************************)
(* Instances of ReviewTokens for TLC.                                      *)
(***************************************************************************)
EXTENDS ReviewTokens

CONSTANTS r1, e1, e2, w1    \* a reviewer, two recipients, a worker tick
=============================================================================
