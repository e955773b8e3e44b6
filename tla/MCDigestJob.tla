----------------------------- MODULE MCDigestJob -----------------------------
(***************************************************************************)
(* Instances of DigestJob for TLC.                                         *)
(***************************************************************************)
EXTENDS DigestJob

CONSTANTS ann,          \* a reviewer
          x1, x2        \* runs
=============================================================================
