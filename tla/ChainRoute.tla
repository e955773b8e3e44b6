----------------------------- MODULE ChainRoute -----------------------------
(***************************************************************************)
(* What a chain promises the agent that started it: a route of approvers,  *)
(* taken in order, that ends in one of three ways.                         *)
(***************************************************************************)
EXTENDS Integers

CONSTANTS
    Last,       \* number of steps
    Policy,     \* what a step does when it is rejected
    BranchTo    \* the earlier step a branch goes back to

VARIABLES
    outcome,    \* of the run
    settled     \* leading steps that need no further decision

route == <<outcome, settled>>

Init == outcome = "absent" /\ settled = 0

Start ==
    /\ outcome = "absent"
    /\ outcome' = "active"
    /\ UNCHANGED settled

\* The step that is up is approved, or rejected without consequence.
Advance ==
    /\ outcome = "active" /\ settled < Last
    /\ settled' = settled + 1
    /\ UNCHANGED outcome

\* The step that is up sends the route back to an earlier one, which is decided anew.
\* An abort does not stop a branch half-way.
GoBack ==
    /\ outcome \in {"active", "aborted"}
    /\ \E n \in 1..Last :
          /\ Policy[n] = "branch"
          /\ \/ settled = n - 1 /\ settled' = BranchTo[n]
             \/ settled = BranchTo[n] /\ settled' = BranchTo[n] - 1
    /\ UNCHANGED outcome

\* Only when every step is settled.
Complete ==
    /\ outcome = "active" /\ settled = Last
    /\ outcome' = "completed"
    /\ UNCHANGED settled

\* Only by a step whose policy it is, and in its turn.
Reject ==
    /\ outcome = "active" /\ settled < Last /\ Policy[settled + 1] = "abort"
    /\ outcome' = "rejected"
    /\ UNCHANGED settled

Abort ==
    /\ outcome = "active"
    /\ outcome' = "aborted"
    /\ UNCHANGED settled

Next == Start \/ Advance \/ GoBack \/ Complete \/ Reject \/ Abort

Spec == Init /\ [][Next]_route
=============================================================================
