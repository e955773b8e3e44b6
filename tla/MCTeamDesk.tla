------------------------------ MODULE MCTeamDesk ------------------------------
(***************************************************************************)
(* Instances of TeamDesk for TLC.                                          *)
(***************************************************************************)
EXTENDS TeamDesk, TLC

CONSTANTS ann, bob, cleo,       \* members
          bot, ci,              \* API keys
          r1, r2                \* requests

\* The requests are alike, and so are the two who are admins at the start.
Alike == Permutations(Requests) \cup Permutations(FirstAdmins)
=============================================================================
