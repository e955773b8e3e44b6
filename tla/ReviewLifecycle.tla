--------------------------- MODULE ReviewLifecycle ---------------------------
(***************************************************************************)
(* One row of the reviews table and everything that writes it apart from   *)
(* share links: the create handler, the action requests of reviewers       *)
(* (executeReviewAction), the veto/confirm pair of a monitoring gate, the  *)
(* agent that submits new versions, archive/unarchive/delete, snooze, and  *)
(* the sweeps of the timeout worker.                                       *)
(*                                                                         *)
(* Each SQL statement is atomic; what a handler read before its statement  *)
(* is kept in the record of the request or of the worker tick, so that     *)
(* other actors may move the row between the read and the write.           *)
(* Rows do not influence one another, hence a single row.                  *)
(***************************************************************************)
EXTENDS Integers, FiniteSets

CONSTANTS
    Requests,       \* HTTP handlers of reviewers that can be in flight
    Locking,        \* those that send expectedVersion (the optimistic lock)
    Workers,        \* timeout-worker ticks that can be in flight
    OfferedActions, \* ids of the actions the template snapshot offers
    Timeouts,       \* timeout actions that agents ask for
    MaxIterations,  \* reviews.max_iterations
    MaxVersion,     \* bound: versions the agent can submit
    MaxLadder,      \* rungs of the assignment ladder
    MaxSnoozes,     \* bound: times the review is snoozed
    MaxFaults,      \* bound: crashes, thrown errors and stalls of actors
    None            \* SQL NULL in claimed_by

Preset == {"approve", "reject", "request_changes", "cancel_iteration",
           "reject_from_iteration"}
Custom == {"custom_effect"}
TimeoutAction == {"expire", "auto_approve", "auto_reject"}

ASSUME ConstantsAssumption ==
    /\ Locking \subseteq Requests
    /\ OfferedActions \subseteq Preset \cup Custom
    /\ Timeouts \subseteq TimeoutAction
    /\ None \notin Workers
    /\ MaxIterations \in Nat /\ MaxVersion \in Nat /\ MaxLadder \in Nat
    /\ MaxSnoozes \in Nat /\ MaxFaults \in Nat

(***************************************************************************)
(* Action configuration: DEFAULT_ACTION_PRESETS and one template-authored  *)
(* side effect, whose enabled_for_status defaults to pending.              *)
(***************************************************************************)
Kind == [a \in Preset \cup Custom |->
    CASE a \in {"approve", "reject", "reject_from_iteration"} -> "decision"
      [] a = "request_changes" -> "iteration"
      [] OTHER -> "side_effect"]

DecisionValue == [a \in {"approve", "reject", "reject_from_iteration"} |->
    IF a = "approve" THEN "approved" ELSE "rejected"]

EnabledForStatus == [a \in Preset \cup Custom |->
    CASE a \in {"approve", "reject"} -> {"pending", "awaiting_external"}
      [] a \in {"cancel_iteration", "reject_from_iteration"} -> {"awaiting_iteration"}
      [] OTHER -> {"pending"}]

Status == {"absent", "pending", "awaiting_iteration", "awaiting_external",
           "monitoring", "decided", "expired", "archived"}
Decision == {"none", "approved", "rejected", "vetoed", "confirmed",
             "max_iterations_reached"}
Decider == {"none", "human", "system:timeout", "system:max_iterations",
            "system:monitoring_window", "system/auto-approve"}
Outcome == (Decision \ {"none"}) \cup {"expired"}

VARIABLES
    review,   \* the row
    due,      \* expires_at <= NOW()
    creator,  \* the create handler between its INSERT and its auto-approve UPDATE
    req,      \* what each request holds between its statements
    worker,   \* what each worker tick holds between its statements
    told,     \* terminal outcomes announced to the agent
    snoozes,  \* bound counter
    faults    \* bound counter

vars == <<review, due, creator, req, worker, told, snoozes, faults>>

Absent == [status |-> "absent", oversight |-> "blocking", expires |-> FALSE,
           timeout_action |-> "expire", current_version |-> 0, payload |-> 0,
           decision |-> "none", decided_by |-> "none", approved_value |-> 0,
           ladder_index |-> 0, claimed_by |-> None, claim_stale |-> FALSE,
           snoozed |-> FALSE]

IdleRequest == [pc |-> "idle", action |-> "none", status |-> "absent",
                version |-> 0, payload |-> 0, decision |-> "none"]

IdleWorker == [pc |-> "idle", sweep |-> "none", action |-> "expire",
               payload |-> 0, rung |-> 0, outcome |-> "none"]

Exists == review.status # "absent"
Iterating == review.status = "awaiting_iteration"

-----------------------------------------------------------------------------
(***************************************************************************)
(* The create handler.  A monitoring gate needs a deadline and never has a *)
(* timeout action; auto-approval is a second UPDATE, keyed by id alone.    *)
(***************************************************************************)
Create(oversight, expires, action, auto) ==
    /\ review = Absent /\ creator = "idle"
    /\ oversight = "monitoring" => expires /\ action = "expire" /\ ~auto
    /\ review' = [Absent EXCEPT
           !.status = IF oversight = "monitoring" THEN "monitoring" ELSE "pending",
           !.oversight = oversight, !.expires = expires, !.timeout_action = action,
           !.current_version = 1, !.payload = 1]
    /\ creator' = IF auto THEN "inserted" ELSE "done"
    /\ UNCHANGED <<due, req, worker, told, snoozes, faults>>

AutoApprove ==
    /\ creator = "inserted"
    /\ creator' = "done"
    /\ review' = IF Exists
                 THEN [review EXCEPT !.status = "decided", !.decision = "approved",
                         !.decided_by = "system/auto-approve", !.approved_value = 1]
                 ELSE review
    /\ UNCHANGED <<due, req, worker, told, snoozes, faults>>

CreatorCrash ==
    /\ creator = "inserted" /\ faults < MaxFaults
    /\ creator' = "done"
    /\ faults' = faults + 1
    /\ UNCHANGED <<review, due, req, worker, told, snoozes>>

-----------------------------------------------------------------------------
(***************************************************************************)
(* executeReviewAction.  A Locking reviewer has the page open and sends    *)
(* the version it showed; the handler loads the row and checks it, then    *)
(* writes under a guard on current_version alone, then announces.          *)
(***************************************************************************)
OpenPage(r) ==
    /\ r \in Locking /\ req[r].pc = "idle" /\ Exists
    /\ req' = [req EXCEPT ![r] = [IdleRequest EXCEPT !.pc = "open",
                                     !.version = review.current_version]]
    /\ UNCHANGED <<review, due, creator, worker, told, snoozes, faults>>

\* The reviewer gives up, or the handler answers with a conflict.
LeavePage(r) ==
    /\ req[r].pc = "open"
    /\ req' = [req EXCEPT ![r] = IdleRequest]
    /\ UNCHANGED <<review, due, creator, worker, told, snoozes, faults>>

AcceptsAction(row, a) ==
    /\ row.status \notin {"absent", "monitoring"}
    /\ a # "cancel_iteration" => row.status \notin {"decided", "expired"}
    /\ a \in {"approve", "reject"} => row.status # "awaiting_iteration"
    /\ row.status \in EnabledForStatus[a]

LoadReview(r, a) ==
    /\ req[r].pc = IF r \in Locking THEN "open" ELSE "idle"
    /\ AcceptsAction(review, a)
    /\ r \in Locking => req[r].version = review.current_version
    /\ req' = [req EXCEPT ![r] =
           [pc |-> "loaded", action |-> a, status |-> review.status,
            version |-> review.current_version, payload |-> review.payload,
            decision |-> "none"]]
    /\ UNCHANGED <<review, due, creator, worker, told, snoozes, faults>>

\* The columns invokeAction computes from the row the handler had loaded.
StateUpdate(row, q) ==
    CASE Kind[q.action] = "decision" ->
           [row EXCEPT !.status = "decided", !.decision = DecisionValue[q.action],
                       !.decided_by = "human", !.approved_value = q.payload]
      [] Kind[q.action] = "iteration" -> [row EXCEPT !.status = "awaiting_iteration"]
      [] OTHER ->
           [row EXCEPT !.status = IF /\ q.action = "cancel_iteration"
                                     /\ q.status = "awaiting_iteration"
                                  THEN "pending" ELSE q.status]

\* Mutant: the UPDATE keyed by id alone.
VersionUnchecked(q) == Exists

VersionStillCurrent(q) == Exists /\ review.current_version = q.version

CommitAction(r) ==
    /\ req[r].pc = "loaded" /\ VersionStillCurrent(req[r])
    /\ review' = StateUpdate(review, req[r])
    /\ req' = [req EXCEPT ![r] =
           IF Kind[req[r].action] = "decision"
           THEN [IdleRequest EXCEPT !.pc = "committed",
                                    !.decision = DecisionValue[req[r].action]]
           ELSE IdleRequest]
    /\ UNCHANGED <<due, creator, worker, told, snoozes, faults>>

CommitConflict(r) ==
    /\ req[r].pc = "loaded" /\ ~VersionStillCurrent(req[r])
    /\ req' = [req EXCEPT ![r] = IdleRequest]
    /\ UNCHANGED <<review, due, creator, worker, told, snoozes, faults>>

Announce(r) ==
    /\ req[r].pc = "committed"
    /\ told' = told \cup {req[r].decision}
    /\ req' = [req EXCEPT ![r] = IdleRequest]
    /\ UNCHANGED <<review, due, creator, worker, snoozes, faults>>

RequestCrash(r) ==
    /\ req[r].pc \in {"loaded", "committed"} /\ faults < MaxFaults
    /\ req' = [req EXCEPT ![r] = IdleRequest]
    /\ faults' = faults + 1
    /\ UNCHANGED <<review, due, creator, worker, told, snoozes>>

-----------------------------------------------------------------------------
\* Mutant: the window is not checked on the database clock.
ResolveAfterWindow(r, decision) ==
    /\ req[r].pc = "idle" /\ review.status = "monitoring"
    /\ review' = [review EXCEPT !.status = "decided", !.decision = decision,
                     !.decided_by = "human", !.claimed_by = None,
                     !.claim_stale = FALSE]
    /\ req' = [req EXCEPT ![r] = [IdleRequest EXCEPT !.pc = "committed",
                                                     !.decision = decision]]
    /\ UNCHANGED <<due, creator, worker, told, snoozes, faults>>

\* Mutant: the UPDATE does not assert that the gate is still unresolved.
ResolveTwice(r, decision) ==
    /\ req[r].pc = "idle" /\ review.oversight = "monitoring" /\ ~due
    /\ review' = [review EXCEPT !.status = "decided", !.decision = decision,
                     !.decided_by = "human", !.claimed_by = None,
                     !.claim_stale = FALSE]
    /\ req' = [req EXCEPT ![r] = [IdleRequest EXCEPT !.pc = "committed",
                                                     !.decision = decision]]
    /\ UNCHANGED <<due, creator, worker, told, snoozes, faults>>

\* POST /:id/veto and /:id/confirm: one compare-and-set, inside the window.
ResolveMonitoring(r, decision) ==
    /\ req[r].pc = "idle"
    /\ review.status = "monitoring" /\ ~due
    /\ review' = [review EXCEPT !.status = "decided", !.decision = decision,
                     !.decided_by = "human", !.claimed_by = None,
                     !.claim_stale = FALSE]
    /\ req' = [req EXCEPT ![r] = [IdleRequest EXCEPT !.pc = "committed",
                                                     !.decision = decision]]
    /\ UNCHANGED <<due, creator, worker, told, snoozes, faults>>

\* PUT /:id: the agent answers a change request, under a row lock.
UpdateVersion ==
    /\ Iterating /\ review.current_version < MaxVersion
    /\ review' = [review EXCEPT !.status = "pending",
                     !.current_version = @ + 1,
                     !.payload = review.current_version + 1]
    /\ UNCHANGED <<due, creator, req, worker, told, snoozes, faults>>

Archive ==
    /\ review.status \in {"decided", "expired"}
    /\ review' = [review EXCEPT !.status = "archived"]
    /\ UNCHANGED <<due, creator, req, worker, told, snoozes, faults>>

\* decided_at is written with decision and, like it, never cleared.
Unarchive ==
    /\ review.status = "archived"
    /\ review' = [review EXCEPT
           !.status = IF review.decision # "none" THEN "decided" ELSE "expired"]
    /\ UNCHANGED <<due, creator, req, worker, told, snoozes, faults>>

\* The status is read before the row is deleted, but monitoring is never entered
\* again, so the guard holds at the DELETE as well.
Delete ==
    /\ review.status \notin {"absent", "monitoring"}
    /\ review' = Absent
    /\ UNCHANGED <<due, creator, req, worker, told, snoozes, faults>>

Snooze(on) ==
    /\ review.status \notin {"absent", "monitoring"}
    /\ on => snoozes < MaxSnoozes
    /\ review' = [review EXCEPT !.snoozed = on]
    /\ snoozes' = IF on THEN snoozes + 1 ELSE snoozes
    /\ UNCHANGED <<due, creator, req, worker, told, faults>>

-----------------------------------------------------------------------------
(***************************************************************************)
(* The timeout worker.  A sweep claims the row with one guarded UPDATE and *)
(* acts on the claimed snapshot with another.                              *)
(***************************************************************************)
\* Mutant: a claim left by a crashed tick is never taken over.
ClaimFreeOnlyIfNull == review.claimed_by = None

ClaimFree == review.claimed_by = None \/ review.claim_stale

Claim(w, sweep) ==
    /\ worker[w].pc = "idle" /\ ClaimFree
    /\ review' = [review EXCEPT !.claimed_by = w, !.claim_stale = FALSE]
    /\ worker' = [worker EXCEPT ![w] =
           [pc |-> "claimed", sweep |-> sweep, action |-> review.timeout_action,
            payload |-> review.payload, rung |-> review.ladder_index,
            outcome |-> "none"]]
    /\ UNCHANGED <<due, creator, req, told, snoozes, faults>>

\* Mutant: the deadline is not in the claim's WHERE.
ClaimNotYetExpired(w) ==
    /\ review.status \in {"pending", "awaiting_external", "awaiting_iteration"}
    /\ ~review.snoozed
    /\ Claim(w, "expire")

ClaimExpired(w) ==
    /\ review.status \in {"pending", "awaiting_external", "awaiting_iteration"}
    /\ due /\ ~review.snoozed
    /\ Claim(w, "expire")

\* Mutant: one iteration more than the cap allows.
ClaimPastCap(w) ==
    /\ Iterating /\ review.current_version > MaxIterations + 1
    /\ Claim(w, "max_iterations")

ClaimMaxIterations(w) ==
    /\ Iterating /\ review.current_version > MaxIterations
    /\ Claim(w, "max_iterations")

ClaimMonitoring(w) ==
    /\ review.status = "monitoring" /\ due
    /\ Claim(w, "monitoring")

\* Mutant: a finished ladder keeps a due promotion.
ClaimLadderExhausted(w) ==
    /\ review.status \in {"pending", "awaiting_iteration"}
    /\ ~due /\ ~review.snoozed
    /\ Claim(w, "ladder")

\* The rung's delay is time the model leaves open: any rung may be due.
ClaimLadder(w) ==
    /\ review.status \in {"pending", "awaiting_iteration"}
    /\ review.ladder_index < MaxLadder
    /\ ~due /\ ~review.snoozed
    /\ Claim(w, "ladder")

Unclaimed(row) == [row EXCEPT !.claimed_by = None, !.claim_stale = FALSE]

\* Zero rows when the guard fails; otherwise write the row and go on to announce.
Finish(w, guard, row, outcome) ==
    /\ IF guard
       THEN /\ review' = Unclaimed(row)
            /\ worker' = [worker EXCEPT ![w] =
                   IF outcome = "none" THEN IdleWorker
                   ELSE [IdleWorker EXCEPT !.pc = "committed", !.outcome = outcome]]
       ELSE /\ review' = review
            /\ worker' = [worker EXCEPT ![w] = IdleWorker]
    /\ UNCHANGED <<due, creator, req, told, snoozes, faults>>

Doing(w, sweep) == worker[w].pc = "claimed" /\ worker[w].sweep = sweep

\* WHERE id AND claimed_by = workerId: the status is not asserted again.
ProcessGuard(w) == review.claimed_by = w

ProcessOne(w) ==
    /\ Doing(w, "expire")
    /\ IF worker[w].action = "expire"
       THEN Finish(w, ProcessGuard(w), [review EXCEPT !.status = "expired"], "expired")
       ELSE LET decision == IF worker[w].action = "auto_approve" THEN "approved" ELSE "rejected"
            IN  Finish(w, ProcessGuard(w),
                    [review EXCEPT !.status = "decided", !.decision = decision,
                         !.decided_by = "system:timeout",
                         !.approved_value = worker[w].payload], decision)

\* WHERE id AND still iterating AND still over the cap: the claim is not asserted.
CloseGuard == Iterating /\ review.current_version > MaxIterations

CloseMaxIterations(w) ==
    /\ Doing(w, "max_iterations")
    /\ Finish(w, CloseGuard,
           [review EXCEPT !.status = "decided", !.decision = "max_iterations_reached",
                          !.decided_by = "system:max_iterations"],
           "max_iterations_reached")

ConfirmGuard(w) == review.claimed_by = w /\ review.status = "monitoring"

ConfirmOne(w) ==
    /\ Doing(w, "monitoring")
    /\ Finish(w, ConfirmGuard(w),
           [review EXCEPT !.status = "decided", !.decision = "confirmed",
                          !.decided_by = "system:monitoring_window"], "confirmed")

\* Mutant: the promotion is keyed by id alone.
PromoteUnclaimed(w) == Exists

\* promoteLadder computes the next rung from the claimed snapshot.
PromoteGuard(w) == review.claimed_by = w

PromoteOne(w) ==
    /\ Doing(w, "ladder")
    /\ Finish(w, PromoteGuard(w),
           [review EXCEPT !.ladder_index = worker[w].rung + 1], "none")

WorkerAnnounce(w) ==
    /\ worker[w].pc = "committed"
    /\ told' = told \cup {worker[w].outcome}
    /\ worker' = [worker EXCEPT ![w] = IdleWorker]
    /\ UNCHANGED <<review, due, creator, req, snoozes, faults>>

\* The catch block releases the claim; max_iterations releases whoever holds it.
WorkerFails(w) ==
    /\ worker[w].pc = "claimed" /\ faults < MaxFaults
    /\ review' = IF worker[w].sweep = "max_iterations" \/ review.claimed_by = w
                 THEN Unclaimed(review) ELSE review
    /\ worker' = [worker EXCEPT ![w] = IdleWorker]
    /\ faults' = faults + 1
    /\ UNCHANGED <<due, creator, req, told, snoozes>>

WorkerCrash(w) ==
    /\ worker[w].pc \in {"claimed", "committed"} /\ faults < MaxFaults
    /\ worker' = [worker EXCEPT ![w] = IdleWorker]
    /\ faults' = faults + 1
    /\ UNCHANGED <<review, due, creator, req, told, snoozes>>

\* processExpiredChangeRequests: the template's changes timeout is open time.
RevertChanges ==
    /\ Iterating
    /\ review' = [review EXCEPT !.status = "pending"]
    /\ UNCHANGED <<due, creator, req, worker, told, snoozes, faults>>

-----------------------------------------------------------------------------
(***************************************************************************)
(* Time: the deadline passes, the snooze elapses, a claim is five minutes  *)
(* old.  A claim whose holder is still at work ages only if that holder    *)
(* stalls, which counts as a fault.                                        *)
(***************************************************************************)
DeadlinePasses ==
    /\ review.expires /\ ~due
    /\ due' = TRUE
    /\ UNCHANGED <<review, creator, req, worker, told, snoozes, faults>>

SnoozeElapses ==
    /\ review.snoozed
    /\ review' = [review EXCEPT !.snoozed = FALSE]
    /\ UNCHANGED <<due, creator, req, worker, told, snoozes, faults>>

HolderAtWork == \E w \in Workers : review.claimed_by = w /\ worker[w].pc = "claimed"

ClaimAges ==
    /\ review.claimed_by # None /\ ~review.claim_stale
    /\ HolderAtWork => faults < MaxFaults
    /\ review' = [review EXCEPT !.claim_stale = TRUE]
    /\ faults' = IF HolderAtWork THEN faults + 1 ELSE faults
    /\ UNCHANGED <<due, creator, req, worker, told, snoozes>>

-----------------------------------------------------------------------------
Init ==
    /\ review = Absent /\ due = FALSE /\ creator = "idle"
    /\ req = [r \in Requests |-> IdleRequest]
    /\ worker = [w \in Workers |-> IdleWorker]
    /\ told = {} /\ snoozes = 0 /\ faults = 0

CreateStep ==
    \/ \E oversight \in {"blocking", "monitoring"}, expires, auto \in BOOLEAN,
          action \in Timeouts : Create(oversight, expires, action, auto)
    \/ AutoApprove
    \/ CreatorCrash

RequestStep(r) ==
    \/ OpenPage(r) \/ LeavePage(r)
    \/ \E a \in OfferedActions : LoadReview(r, a)
    \/ CommitAction(r) \/ CommitConflict(r) \/ Announce(r) \/ RequestCrash(r)
    \/ \E d \in {"vetoed", "confirmed"} : ResolveMonitoring(r, d)

ProcessStep(w) ==
    ProcessOne(w) \/ CloseMaxIterations(w) \/ ConfirmOne(w) \/ PromoteOne(w)

WorkerStep(w) ==
    \/ ClaimExpired(w) \/ ClaimMaxIterations(w) \/ ClaimMonitoring(w) \/ ClaimLadder(w)
    \/ ProcessStep(w) \/ WorkerAnnounce(w) \/ WorkerFails(w) \/ WorkerCrash(w)

RowStep ==
    \/ UpdateVersion \/ Archive \/ Unarchive \/ Delete
    \/ \E on \in BOOLEAN : Snooze(on)
    \/ RevertChanges

TimeStep == DeadlinePasses \/ SnoozeElapses \/ ClaimAges

Next ==
    \/ CreateStep
    \/ \E r \in Requests : RequestStep(r)
    \/ \E w \in Workers : WorkerStep(w)
    \/ RowStep
    \/ TimeStep

Spec == Init /\ [][Next]_vars

\* The worker ticks every 30 s and a tick that began runs on; clocks advance.
Fairness ==
    /\ \A w \in Workers : /\ WF_vars(ClaimExpired(w))
                          /\ WF_vars(ClaimMaxIterations(w))
                          /\ WF_vars(ClaimMonitoring(w))
                          /\ WF_vars(ProcessStep(w))
                          /\ WF_vars(WorkerAnnounce(w))
    /\ WF_vars(AutoApprove) /\ WF_vars(DeadlinePasses)
    /\ WF_vars(SnoozeElapses) /\ WF_vars(ClaimAges)

FairSpec == Spec /\ Fairness

-----------------------------------------------------------------------------
(***************************************************************************)
(* Properties                                                              *)
(***************************************************************************)
Open == {"pending", "awaiting_external", "awaiting_iteration"}

ReviewType ==
    [status : Status, oversight : {"blocking", "monitoring"}, expires : BOOLEAN,
     timeout_action : TimeoutAction, current_version : Nat, payload : Nat,
     decision : Decision, decided_by : Decider, approved_value : Nat,
     ladder_index : 0..MaxLadder, claimed_by : Workers \cup {None},
     claim_stale : BOOLEAN, snoozed : BOOLEAN]

RequestType ==
    [pc : {"idle", "open", "loaded", "committed"},
     action : Preset \cup Custom \cup {"none"}, status : Status,
     version : Nat, payload : Nat, decision : Decision]

WorkerType ==
    [pc : {"idle", "claimed", "committed"},
     sweep : {"none", "expire", "max_iterations", "monitoring", "ladder"},
     action : TimeoutAction, payload : Nat, rung : 0..MaxLadder,
     outcome : Outcome \cup {"none"}]

\* Every variable stays in its domain; no promotion leaves the ladder.
TypeOK ==
    /\ review \in ReviewType
    /\ due \in BOOLEAN
    /\ creator \in {"idle", "inserted", "done"}
    /\ req \in [Requests -> RequestType]
    /\ worker \in [Workers -> WorkerType]
    /\ told \subseteq Outcome
    /\ snoozes \in 0..MaxSnoozes
    /\ faults \in 0..MaxFaults

\* The outcome of a monitoring gate (routes/reviews/monitoring.ts, confirmOne) is
\* written once: a human may veto or confirm while the window is open, the worker
\* may record a lapse once it is closed, nothing else moves the row meanwhile, and
\* no later write, by whatever actor, replaces the outcome.
MonitoringDecidedOnce ==
    [][review.oversight = "monitoring" /\ review'.status # "absent" =>
         /\ review.status = "monitoring" /\ review'.status # "monitoring" =>
              /\ review'.status = "decided"
              /\ IF due THEN /\ review'.decided_by = "system:monitoring_window"
                            /\ review'.decision = "confirmed"
                       ELSE review'.decided_by = "human"
         /\ review.decision # "none" =>
              /\ review'.decision = review.decision
              /\ review'.decided_by = review.decided_by]_vars

\* The agent of a monitoring gate is never told anything but the outcome on
\* record: a vetoed action is not also reported confirmed, whichever of the human
\* and the worker announces late.
MonitoringToldTruth ==
    review.oversight = "monitoring" => told \subseteq {review.decision}

\* A reviewer's decision applies to the payload on record when it is written: the
\* agent's next version cannot slip in between the load and the write, and be
\* approved unseen (the current_version guard of executeReviewAction).
DecisionCoversCurrentPayload ==
    [][\A r \in Requests :
         req[r].pc = "loaded" /\ req'[r].pc = "committed" =>
           /\ review'.status = "decided"
           /\ review'.approved_value = review'.payload]_vars

\* A decision nobody took is one the creator of the review configured, taken after
\* the deadline, and never on a monitoring gate; a lapse is recorded only on a
\* monitoring gate whose window is over (processOne, confirmOne).
UnattendedAsConfigured ==
    /\ review.decided_by = "system:timeout" =>
         /\ due /\ review.oversight = "blocking"
         /\ review.timeout_action =
              IF review.decision = "approved" THEN "auto_approve" ELSE "auto_reject"
    /\ review.decided_by = "system:monitoring_window" =>
         due /\ review.oversight = "monitoring"

\* The ladder is climbed one rung at a time and never down, although a promotion
\* writes the rung after the one in its claim snapshot and a stalled tick may wake
\* up after others promoted (promoteOne's claimed_by guard).
LadderClimbsOneRung ==
    [][review'.status # "absent" =>
         review'.ladder_index \in {review.ladder_index, review.ladder_index + 1}]_vars

\* "Nothing hangs forever": a review whose deadline has passed leaves the open
\* statuses and a monitoring gate leaves its window, in spite of crashes, claims
\* left behind, stalls, snoozes and reviewers moving the row meanwhile, provided
\* the reviewers leave it alone some day.
ReviewersRest == <>[][FALSE]_req

DueReviewCloses ==
    ReviewersRest =>
        (due /\ review.status \in Open \cup {"monitoring"}
            ~> review.status \notin Open \cup {"monitoring"})

\* An agent that has used up its iterations is not waited for for ever: whichever tick
\* dies between the claim and the close, whichever other sweep has the review in hand
\* and whatever claim a resubmission left behind, a review over the cap stops awaiting
\* the agent (processMaxIterations; nobody else need act, and reviewers may go on).
OverTheCap == Iterating /\ review.current_version > MaxIterations

CapEndsIteration == OverTheCap ~> ~OverTheCap

(***************************************************************************)
(* Statements of the repository that the code does not keep.               *)
(***************************************************************************)
\* Two reviewers deciding at once: exactly one succeeds and the agent hears one
\* outcome (__tests__/reviews.test.ts:516, docs concepts/the-gate.md).
AgentToldOneOutcome == Cardinality(told) <= 1

\* A decided or expired review is not reopened by an action endpoint
\* (docs concepts/the-gate.md: "Terminal states are immutable").
TerminalIsImmutable ==
    [][review.status \in {"decided", "expired"} => review'.status \notin Open]_vars

\* A review resubmitted between the claim and the timeout's write is not
\* clobbered: what closes is the version the worker claimed
\* (comment in closeMaxIterations about its sibling processOne).
TimeoutSparesResubmission ==
    [][\A w \in Workers :
         worker[w].sweep = "expire" /\ worker'[w].pc = "committed" =>
           review.payload = worker[w].payload]_vars

=============================================================================
