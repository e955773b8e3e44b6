----------------------------- MODULE MCAuditChain -----------------------------
(***************************************************************************)
(* Instances of AuditChain for TLC.                                        *)
(***************************************************************************)
EXTENDS AuditChain

CONSTANTS a, b, c,      \* calls of log()
          p, q          \* processes
=============================================================================
