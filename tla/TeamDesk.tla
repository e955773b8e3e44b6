------------------------------- MODULE TeamDesk -------------------------------
(***************************************************************************)
(* The members of a team as their administrators change them, and the      *)
(* review they hold or have assigned: routes/settings/team.ts and          *)
(* routes/reviews/hold.ts.  A review is held by reviewers, who come with a *)
(* session, and by agents, who come with an API key.                       *)
(*                                                                         *)
(* A change to a member runs in one transaction that locks the member's    *)
(* row, counts the active admins where one is about to be lost, and        *)
(* writes.  Who the caller is was settled before, when the request was     *)
(* authenticated.                                                          *)
(***************************************************************************)
EXTENDS Integers, FiniteSets

CONSTANTS
    Members,        \* rows of reviewers
    FirstAdmins,    \* the members who are active admins at the start
    Keys,           \* API keys with the scopes reviews:claim and reviews:release
    AssignKeys,     \* those of them that have reviews:assign too
    Requests,       \* HTTP requests that can be in flight
    None            \* NULL in held_by and assignee, nobody holds a row lock

ASSUME TeamConstants ==
    /\ FirstAdmins \subseteq Members /\ FirstAdmins # {}
    /\ IsFiniteSet(Members)
    /\ AssignKeys \subseteq Keys /\ Keys \cap Members = {}
    /\ None \notin Members /\ None \notin Keys /\ None \notin Requests

VARIABLES
    member,     \* role and is_active of each reviewer
    rowlock,    \* the request whose transaction holds the row FOR UPDATE
    req,        \* where each request stands, and what it has read
    assignee,   \* reviews.assignee
    held_by,    \* reviews.held_by
    lapse       \* history: how the count of admins was last got round, if it was

vars == <<member, rowlock, req, assignee, held_by, lapse>>
desk == <<assignee, held_by>>

\* PUT with a role or is_active, and DELETE.
TeamOps == {"promote", "demote", "activate", "deactivate", "remove"}

\* POST /:id/assign with hold false and true.
AssignOps == {"assign", "assign_hold"}

Idle == [pc |-> "idle", op |-> "none", caller |-> None, may |-> FALSE,
         target |-> None, seen |-> None]

IsAdmin(m) == member[m].role = "admin" /\ member[m].active
Admins == {m \in Members : IsAdmin(m)}

\* resolveActor: reviewer:<email> of a session, agent:<prefix> of an API key.
Actors == Members \cup Keys

Authenticated(a) == a \in Members => member[a].active
IsAdminSession(a) == a \in Members /\ IsAdmin(a)

\* can(subject, ["reviews:assign"]): admins have every scope, a key has its own.
MayAssign(a) == IsAdminSession(a) \/ a \in AssignKeys

\* A request keeps what it uses later on: what it was asked to do and to whom, who
\* came, whether they had the right it asks for when they were authenticated (an admin's
\* session for a release, reviews:assign for the others), and the holder it has read.
Start(r, what) == req[r] = Idle /\ req' = [req EXCEPT ![r] = what]
Finish(r) == req' = [req EXCEPT ![r] = Idle]

-----------------------------------------------------------------------------
\* requireRole("admin"), and nobody edits their own record here.
AskChange(r, caller, target, op) ==
    /\ IsAdmin(caller) /\ caller # target
    /\ Start(r, [Idle EXCEPT !.pc = "asked", !.op = op, !.target = target])
    /\ UNCHANGED <<member, rowlock, desk, lapse>>

\* SELECT ... FOR UPDATE on the target's row.
LockTarget(r) ==
    /\ req[r].pc = "asked" /\ rowlock[req[r].target] = None
    /\ rowlock' = [rowlock EXCEPT ![req[r].target] = r]
    /\ req' = [req EXCEPT ![r].pc = "locked"]
    /\ UNCHANGED <<member, desk, lapse>>

\* The change takes an active admin away.
LosesAdmin(r) ==
    IsAdmin(req[r].target) /\ req[r].op \in {"demote", "deactivate", "remove"}

\* Mutant: the count is compared with zero.
AnyAdminLeft == Cardinality(Admins) > 0

\* The count sees what is committed, and no other transaction's pending write.
SpareAdmin == Cardinality(Admins) > 1

Removing(r) == req[r].pc = "counted" /\ LosesAdmin(r)

PassCount(r) ==
    /\ req[r].pc = "locked"
    /\ LosesAdmin(r) => SpareAdmin
    /\ req' = [req EXCEPT ![r].pc = "counted"]
    /\ lapse' = IF LosesAdmin(r) /\ \E s \in Requests : Removing(s)
                THEN "race" ELSE lapse
    /\ UNCHANGED <<member, rowlock, desk>>

Unlock(r) == rowlock' = [rowlock EXCEPT ![req[r].target] = None]

\* last_admin, and any error before the COMMIT.
Abandon(r) ==
    /\ req[r].pc \in {"locked", "counted"}
    /\ Unlock(r) /\ Finish(r)
    /\ UNCHANGED <<member, desk, lapse>>

\* Mutant: deactivation is written into the role.
ChangedRole(m, op) ==
    CASE op = "promote"    -> [m EXCEPT !.role = "admin"]
      [] op = "demote"     -> [m EXCEPT !.role = "reviewer"]
      [] op = "activate"   -> [m EXCEPT !.active = TRUE]
      [] op \in {"deactivate", "remove"} -> [m EXCEPT !.role = "inactive"]

Changed(m, op) ==
    CASE op = "promote"    -> [m EXCEPT !.role = "admin"]
      [] op = "demote"     -> [m EXCEPT !.role = "reviewer"]
      [] op = "activate"   -> [m EXCEPT !.active = TRUE]
      [] op \in {"deactivate", "remove"} -> [m EXCEPT !.active = FALSE]

\* UPDATE and COMMIT; DELETE also takes the member's open reviews away.
CommitChange(r) ==
    /\ req[r].pc = "counted"
    /\ member' = [member EXCEPT ![req[r].target] = Changed(@, req[r].op)]
    /\ assignee' = IF req[r].op = "remove" /\ assignee = req[r].target
                   THEN None ELSE assignee
    /\ Unlock(r) /\ Finish(r)
    /\ UNCHANGED <<held_by, lapse>>

\* DELETE /account: the owner's row is anonymised and deactivated, whoever it is.
DeleteAccount(m) ==
    /\ member[m].active /\ rowlock[m] = None
    /\ member' = [member EXCEPT ![m].active = FALSE]
    /\ lapse' = IF IsAdmin(m) THEN "deletion" ELSE lapse
    /\ UNCHANGED <<rowlock, req, desk>>

-----------------------------------------------------------------------------
Unheld == held_by = None

\* POST /:id/claim: one UPDATE where held_by IS NULL.
Claim(r, caller) ==
    /\ Authenticated(caller)
    /\ IF Unheld
       THEN req[r] = Idle /\ held_by' = caller /\ UNCHANGED req
       ELSE /\ Start(r, [Idle EXCEPT !.pc = "held", !.caller = caller,
                                     !.may = MayAssign(caller)])
            /\ UNCHANGED held_by
    /\ UNCHANGED <<member, rowlock, assignee, lapse>>

\* Held by somebody: ?force=true overwrites for a caller with reviews:assign.
ForceClaim(r) ==
    /\ req[r].pc = "held"
    /\ \/ req[r].may /\ held_by' = req[r].caller
       \/ UNCHANGED held_by
    /\ Finish(r)
    /\ UNCHANGED <<member, rowlock, assignee, lapse>>

\* POST /:id/release reads who holds the review ...
ReadHold(r, caller) ==
    /\ Authenticated(caller)
    /\ held_by = caller \/ IsAdminSession(caller)
    /\ Start(r, [Idle EXCEPT !.pc = "release", !.caller = caller,
                             !.may = IsAdminSession(caller), !.seen = held_by])
    /\ UNCHANGED <<member, rowlock, desk, lapse>>

\* Mutant: the UPDATE does not assert the holder it was authorised against.
StillAnyHold(r) == TRUE

StillHeldAsSeen(r) == held_by = req[r].seen

\* ... and clears that hold and no other.
Release(r) ==
    /\ req[r].pc = "release"
    /\ held_by' = IF StillHeldAsSeen(r) THEN None ELSE held_by
    /\ Finish(r)
    /\ UNCHANGED <<member, rowlock, assignee, lapse>>

\* POST /:id/assign asks for reviews:assign ...
AskAssign(r, caller, to, op) ==
    /\ MayAssign(caller)
    /\ Start(r, [Idle EXCEPT !.pc = "assign", !.op = op, !.target = to, !.may = TRUE])
    /\ UNCHANGED <<member, rowlock, desk, lapse>>

\* ... and assigns the review to anybody, with or without the hold on it.
Assign(r) ==
    /\ req[r].pc = "assign"
    /\ assignee' = req[r].target
    /\ held_by' = IF req[r].op = "assign_hold" THEN req[r].target ELSE held_by
    /\ Finish(r)
    /\ UNCHANGED <<member, rowlock, lapse>>

-----------------------------------------------------------------------------
Init ==
    /\ member = [m \in Members |->
                    [role |-> IF m \in FirstAdmins THEN "admin" ELSE "reviewer",
                     active |-> TRUE]]
    /\ rowlock = [m \in Members |-> None]
    /\ req = [r \in Requests |-> Idle]
    /\ assignee = None /\ held_by = None
    /\ lapse = "none"

\* The further steps of a request.
Proceed(r) ==
    \/ PassCount(r) \/ Abandon(r) \/ CommitChange(r)
    \/ ForceClaim(r) \/ Release(r) \/ Assign(r)

Next ==
    \/ \E r \in Requests, caller, target \in Members, op \in TeamOps :
          AskChange(r, caller, target, op)
    \/ \E r \in Requests : LockTarget(r) \/ Proceed(r)
    \/ \E r \in Requests, caller \in Actors : Claim(r, caller) \/ ReadHold(r, caller)
    \/ \E r \in Requests, caller, to \in Actors, op \in AssignOps :
          AskAssign(r, caller, to, op)
    \/ \E m \in Members : DeleteAccount(m)

Spec == Init /\ [][Next]_vars

-----------------------------------------------------------------------------
(***************************************************************************)
(* Properties                                                              *)
(***************************************************************************)
\* Every variable stays in its domain.
TypeOK ==
    /\ member \in [Members -> [role : {"admin", "reviewer"}, active : BOOLEAN]]
    /\ rowlock \in [Members -> Requests \cup {None}]
    /\ req \in [Requests -> [pc : {"idle", "asked", "locked", "counted", "held",
                                   "release", "assign"},
                             op : TeamOps \cup AssignOps \cup {"none"},
                             caller : Actors \cup {None}, may : BOOLEAN,
                             target : Actors \cup {None},
                             seen : Actors \cup {None}]]
    /\ assignee \in Actors \cup {None} /\ held_by \in Actors \cup {None}
    /\ lapse \in {"none", "race", "deletion"}

\* An admin is left as long as no two transactions are past their counts for two
\* different admins at once and nobody deletes their own account, with any changes
\* to one member serialised by its row lock and promotions in between.
AdminRemains == lapse = "none" => Admins # {}

\* A hold is ended by its holder or by the session of an admin, never by a release that
\* was authorised against the hold of another and never by a key that does not hold it,
\* whatever its scopes; and it passes to somebody else only at the word of a caller with
\* reviews:assign, an admin or such a key, however many claims, releases and assignments
\* of reviewers and agents meet (the predicates of release and of claim, the force flag).
HoldEndsByRight ==
    [][held_by # None /\ held_by' # held_by =>
          \E r \in Requests :
              IF held_by' = None
              THEN /\ req[r].pc = "release" /\ req[r].seen = held_by
                   /\ req[r].caller = held_by \/ req[r].may
              ELSE req[r].pc \in {"held", "assign"} /\ req[r].may]_vars

(***************************************************************************)
(* Statements of the repository that the code does not keep.               *)
(***************************************************************************)
\* The last admin is neither demoted nor removed: "admin demotions on OTHER rows
\* serialize on their own locks, and the count then sees their committed state"
\* (routes/settings/team.ts:168).
LastAdminStays == lapse # "deletion" => Admins # {}

=============================================================================
