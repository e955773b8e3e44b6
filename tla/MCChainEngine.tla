---------------------------- MODULE MCChainEngine ----------------------------
(***************************************************************************)
(* Instances of ChainEngine for TLC.                                       *)
(***************************************************************************)
EXTENDS ChainEngine, TLC

CONSTANTS h1, h2

PermuteHandlers == Permutations({h1, h2})

\* Two approvers in a row; the first may be overruled.
ContinueThenAbort == <<"continue", "abort">>
\* The last of three sends the route back to the first.
BranchFromThird == <<"abort", "continue", "branch">>
BranchFromSecond == <<"continue", "branch">>
ToFirst == [n \in 1..3 |-> 1]
=============================================================================
