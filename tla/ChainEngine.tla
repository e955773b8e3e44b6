----------------------------- MODULE ChainEngine -----------------------------
(***************************************************************************)
(* One chain run: its row, its steps, the reviews materialised for them,   *)
(* and the invocations of ChainEngine that move it: createRun, the         *)
(* handlers of review.decided, the operator's abort and the reconcile      *)
(* sweep.                                                                  *)
(*                                                                         *)
(* The bus that carries review.decided is in memory and nobody waits for   *)
(* its handlers; each statement of a handler is atomic and everything may  *)
(* happen between two of them.  A review is reduced to what the engine     *)
(* reads of it: reviewers decide it (ReviewLifecycle allows a second       *)
(* decision to replace the first), and it may be archived or deleted.      *)
(*                                                                         *)
(* Reviews of a chain never expire by themselves, since materializeStep    *)
(* writes no expires_at, so review.expired is never emitted for them.      *)
(***************************************************************************)
EXTENDS Integers, Sequences, FiniteSets

CONSTANTS
    Handlers,       \* invocations of onReviewDecided that can be in flight
    Creator,        \* the request that runs createRun
    Last,           \* number of steps
    Policy,         \* chain_steps.rejection_policy, NULL being abort
    BranchTo,       \* chain_steps.rejection_branch_to
    MaxReviews,     \* bound: reviews materialised
    MaxRejections,  \* bound: rejections
    MaxRedecisions, \* bound: decisions that replace one
    MaxRemovals,    \* bound: reviews archived or deleted
    MaxFaults       \* bound: crashes and thrown errors

Steps == 1..Last

ASSUME ChainConstants ==
    /\ Creator \notin Handlers
    /\ Last \in Nat \ {0}
    /\ Policy \in [Steps -> {"abort", "continue", "branch"}]
    /\ \A n \in Steps : Policy[n] = "branch" => BranchTo[n] \in 1..(n - 1)
    /\ MaxReviews \in Nat /\ MaxRejections \in Nat /\ MaxRedecisions \in Nat
    /\ MaxRemovals \in Nat /\ MaxFaults \in Nat

VARIABLES
    run,        \* chain_runs.status
    steps,      \* chain_steps: status and review_id, 0 being NULL
    reviews,    \* the reviews materialised for the run, oldest first
    engine,     \* where each invocation of the engine stands
    events,     \* review.decided events that were emitted and not yet handled
    halts,      \* steps a reconcile sweep selected to be halted
    rejections, redecisions, removals, faults   \* bound counters

bounds == <<rejections, redecisions, removals, faults>>
vars == <<run, steps, reviews, engine, events, halts, bounds>>

Engine == Handlers \cup {Creator}
Rest == [pc |-> "rest", step |-> 0, review |-> 0, decision |-> "none"]
NoReview == 0

Goto(h, pc) == engine' = [engine EXCEPT ![h].pc = pc]
Leave(h) == engine' = [engine EXCEPT ![h] = Rest]

-----------------------------------------------------------------------------
\* createRun: run and steps in one transaction, then step 1 outside it.
CreateRun ==
    /\ run = "absent"
    /\ run' = "active"
    /\ steps' = [n \in Steps |-> [status |-> "pending", review |-> NoReview]]
    /\ engine' = [engine EXCEPT ![Creator] = [Rest EXCEPT !.pc = "insert", !.step = 1]]
    /\ UNCHANGED <<reviews, events, halts, bounds>>

-----------------------------------------------------------------------------
(***************************************************************************)
(* Reviewers.                                                              *)
(***************************************************************************)
Decide(i, decision) ==
    /\ \/ reviews[i].status = "open" /\ UNCHANGED redecisions
       \/ /\ reviews[i].status = "decided" /\ redecisions < MaxRedecisions
          /\ redecisions' = redecisions + 1
    /\ IF decision = "rejected"
       THEN rejections < MaxRejections /\ rejections' = rejections + 1
       ELSE UNCHANGED rejections
    /\ reviews' = [reviews EXCEPT ![i].status = "decided", ![i].decision = decision]
    /\ events' = events \cup {i}
    /\ UNCHANGED <<run, steps, engine, halts, removals, faults>>

Filed(i) == reviews[i].status \in {"decided", "expired"}

\* Mutant: archiving looks at the review only.
InAnyChain == TRUE

\* notInLiveChain: a review of a run that is active is not archived, decided or not.
NotInLiveChain == run # "active"

Archive(i) ==
    /\ Filed(i) /\ NotInLiveChain /\ removals < MaxRemovals
    /\ reviews' = [reviews EXCEPT ![i].status = "archived"]
    /\ removals' = removals + 1
    /\ UNCHANGED <<run, steps, engine, events, halts, rejections, redecisions, faults>>

Unarchive(i) ==
    /\ reviews[i].status = "archived"
    /\ reviews' = [reviews EXCEPT ![i].status =
                      IF reviews[i].decision # "none" THEN "decided" ELSE "expired"]
    /\ UNCHANGED <<run, steps, engine, events, halts, bounds>>

\* deleteReview asks neither for the run nor, but for a monitoring gate, for the status
\* (bulkDelete does for the latter); chain_steps.review_id is set to NULL when its
\* review goes.
Delete(i) ==
    /\ reviews[i].status # "gone" /\ removals < MaxRemovals
    /\ reviews' = [reviews EXCEPT ![i].status = "gone"]
    /\ steps' = [n \in DOMAIN steps |->
                    IF steps[n].review = i THEN [steps[n] EXCEPT !.review = NoReview]
                                           ELSE steps[n]]
    /\ removals' = removals + 1
    /\ UNCHANGED <<run, engine, events, halts, rejections, redecisions, faults>>

-----------------------------------------------------------------------------
(***************************************************************************)
(* onReviewDecided.                                                        *)
(***************************************************************************)
\* The handler reads the review and its run, both as they are by then.
Handle(h, i) ==
    /\ engine[h].pc = "rest" /\ i \in events
    /\ events' = events \ {i}
    /\ engine' = IF run = "active" /\ reviews[i].status # "gone"
                 THEN [engine EXCEPT ![h] =
                         [pc |-> "claim", step |-> reviews[i].step, review |-> i,
                          decision |-> reviews[i].decision]]
                 ELSE engine
    /\ UNCHANGED <<run, steps, reviews, halts, bounds>>

Claimable(n) == steps[n].status = "active"

\* UPDATE chain_steps ... WHERE id AND status = 'active': whose review is up is not
\* asked.
Claim(h) ==
    /\ engine[h].pc = "claim"
    /\ IF Claimable(engine[h].step)
       THEN /\ steps' = [steps EXCEPT ![engine[h].step].status = engine[h].decision]
            /\ Goto(h, "claimed")
       ELSE Leave(h) /\ UNCHANGED steps
    /\ UNCHANGED <<run, reviews, events, halts, bounds>>

\* Mutant: a rejection is taken for an approval.
RejectionIgnored(h) == engine[h].decision \in {"approved", "rejected"}

Forward(h) == \/ engine[h].decision = "approved"
              \/ Policy[engine[h].step] = "continue"

\* What handleApprove, or applyStepRejection, goes on to do.
Consequence(h) ==
    IF Forward(h)
    THEN IF engine[h].step = Last THEN [engine[h] EXCEPT !.pc = "complete"]
         ELSE [engine[h] EXCEPT !.pc = "insert", !.step = @ + 1]
    ELSE [engine[h] EXCEPT !.pc =
            IF Policy[engine[h].step] = "branch" THEN "reset" ELSE "reject"]

\* chainRunStillActive, read once more before anything follows from the decision.
Recheck(h) ==
    /\ engine[h].pc = "claimed"
    /\ engine' = [engine EXCEPT ![h] = IF run = "active" THEN Consequence(h) ELSE Rest]
    /\ UNCHANGED <<run, steps, reviews, events, halts, bounds>>

\* Mutant: the run's status is not asserted by the write.
StillActiveUnchecked == TRUE

StillActive == run = "active"

CompleteRun(h) ==
    /\ engine[h].pc = "complete"
    /\ run' = IF StillActive THEN "completed" ELSE run
    /\ Leave(h)
    /\ UNCHANGED <<steps, reviews, events, halts, bounds>>

\* abortChain: the rejection ends the run; the steps after it stay as they are.
RejectRun(h) ==
    /\ engine[h].pc = "reject"
    /\ run' = IF StillActive THEN "rejected" ELSE run
    /\ Leave(h)
    /\ UNCHANGED <<steps, reviews, events, halts, bounds>>

\* Mutant: the reset steps stay linked to the review that was up for them.
ResetStatusOnly(range) ==
    [n \in Steps |-> IF n \in range THEN [steps[n] EXCEPT !.status = "pending"]
                                    ELSE steps[n]]

Reset(range) ==
    [n \in Steps |-> IF n \in range THEN [status |-> "pending", review |-> NoReview]
                                    ELSE steps[n]]

\* Mutant: the rejecting step keeps its rejection.
RerunBelow(n) == (BranchTo[n] + 1)..(n - 1)

Rerun(n) == (BranchTo[n] + 1)..n

\* branchToStep: the steps after the target are reset, then the target is.
BranchResetSteps(h) ==
    /\ engine[h].pc = "reset"
    /\ steps' = Reset(Rerun(engine[h].step))
    /\ Goto(h, "resetTarget")
    /\ UNCHANGED <<run, reviews, events, halts, bounds>>

BranchResetTarget(h) ==
    LET target == BranchTo[engine[h].step] IN
    /\ engine[h].pc = "resetTarget"
    /\ steps' = Reset({target})
    /\ engine' = [engine EXCEPT ![h].pc = "insert", ![h].step = target]
    /\ UNCHANGED <<run, reviews, events, halts, bounds>>

-----------------------------------------------------------------------------
(***************************************************************************)
(* materializeStep.                                                        *)
(***************************************************************************)
InsertReview(h) ==
    /\ engine[h].pc = "insert" /\ Len(reviews) < MaxReviews
    /\ reviews' = Append(reviews, [step |-> engine[h].step, status |-> "open",
                                   decision |-> "none"])
    /\ engine' = [engine EXCEPT ![h].pc = "flip", ![h].review = Len(reviews) + 1]
    /\ UNCHANGED <<run, steps, events, halts, bounds>>

\* Mutant: the flip asks for the step's status and not for the run's.
FlipUnderAnyRun(n) == steps[n].status = "pending"

\* flipStepActiveGuarded
Flippable(n) == steps[n].status = "pending" /\ run = "active"

\* Pointing the step at a review that was deleted meanwhile breaks the foreign key, and
\* the handler ends with that error.
FlipStep(h) ==
    /\ engine[h].pc = "flip"
    /\ \/ /\ ~Flippable(engine[h].step)
          /\ Goto(h, "close") /\ UNCHANGED steps
       \/ /\ Flippable(engine[h].step) /\ reviews[engine[h].review].status = "gone"
          /\ Leave(h) /\ UNCHANGED steps
       \/ /\ Flippable(engine[h].step) /\ reviews[engine[h].review].status # "gone"
          /\ steps' = [steps EXCEPT ![engine[h].step] =
                          [status |-> "active", review |-> engine[h].review]]
          /\ Leave(h)
    /\ UNCHANGED <<run, reviews, events, halts, bounds>>

\* Mutant: the review of a step that was not activated is left alone.
LeftOpen(i) == reviews

Closed(i) ==
    IF reviews[i].status = "gone" THEN reviews
    ELSE [reviews EXCEPT ![i].status = "expired"]

\* The review nobody will need is closed, by id.
CloseReview(h) ==
    /\ engine[h].pc = "close"
    /\ reviews' = Closed(engine[h].review)
    /\ Leave(h)
    /\ UNCHANGED <<run, steps, events, halts, bounds>>

-----------------------------------------------------------------------------
\* abortRunImpl: one transaction, and no event.
Abort ==
    /\ run = "active"
    /\ run' = "aborted"
    /\ steps' = [n \in Steps |->
                    IF steps[n].status \in {"pending", "active"}
                    THEN [steps[n] EXCEPT !.status = "skipped"] ELSE steps[n]]
    /\ reviews' = [i \in DOMAIN reviews |->
                      IF reviews[i].status = "open"
                      THEN [reviews[i] EXCEPT !.status = "expired"] ELSE reviews[i]]
    /\ UNCHANGED <<engine, events, halts, bounds>>

Stranded(n) == steps[n].review # NoReview /\ Filed(steps[n].review)

\* reconcileImpl: the sweep selects the active step of an active run; if its review
\* is terminal the handler is driven again, if it has none the step is halted.  It
\* would also halt a step whose review was decided otherwise than approved, edited or
\* rejected, which no route to the review of a chain can write (the actions' values
\* are DECISION_VALUES, /decide adds "edited", materializeStep sets no cap).
Reconcile ==
    /\ run = "active"
    /\ \E n \in Steps :
          /\ steps[n].status = "active"
          /\ \/ Stranded(n) /\ events' = events \cup {steps[n].review} /\ UNCHANGED halts
             \/ /\ steps[n].review = NoReview
                /\ halts' = halts \cup {n} /\ UNCHANGED events
    /\ UNCHANGED <<run, steps, reviews, engine, bounds>>

HaltStep(n) ==
    /\ n \in halts
    /\ halts' = halts \ {n}
    /\ steps' = IF steps[n].status = "active"
                THEN [steps EXCEPT ![n].status = "skipped"] ELSE steps
    /\ UNCHANGED <<run, reviews, engine, events, bounds>>

-----------------------------------------------------------------------------
\* A database error, or a template that is gone: reported as chain.step_halted, and
\* the handler ends where it stood.
Throws(h) ==
    /\ engine[h].pc # "rest" /\ faults < MaxFaults
    /\ faults' = faults + 1
    /\ Leave(h)
    /\ UNCHANGED <<run, steps, reviews, events, halts, rejections, redecisions, removals>>

\* The process dies, with the bus and everything in flight.
Crash ==
    /\ faults < MaxFaults
    /\ faults' = faults + 1
    /\ engine' = [h \in Engine |-> Rest]
    /\ events' = {} /\ halts' = {}
    /\ UNCHANGED <<run, steps, reviews, rejections, redecisions, removals>>

-----------------------------------------------------------------------------
Init ==
    /\ run = "absent"
    /\ steps = [n \in Steps |-> [status |-> "pending", review |-> NoReview]]
    /\ reviews = <<>>
    /\ engine = [h \in Engine |-> Rest]
    /\ events = {} /\ halts = {}
    /\ rejections = 0 /\ redecisions = 0 /\ removals = 0 /\ faults = 0

ReviewStep ==
    \E i \in DOMAIN reviews :
       \/ \E decision \in {"approved", "rejected"} : Decide(i, decision)
       \/ Archive(i) \/ Unarchive(i) \/ Delete(i)

Proceed(h) ==
    \/ Claim(h) \/ Recheck(h) \/ CompleteRun(h) \/ RejectRun(h)
    \/ BranchResetSteps(h) \/ BranchResetTarget(h)
    \/ InsertReview(h) \/ FlipStep(h) \/ CloseReview(h)

Next ==
    \/ CreateRun
    \/ ReviewStep
    \/ \E h \in Handlers, i \in events : Handle(h, i)
    \/ \E h \in Engine : Proceed(h) \/ Throws(h)
    \/ Abort
    \/ Reconcile
    \/ \E n \in halts : HaltStep(n)
    \/ Crash

Spec == Init /\ [][Next]_vars

\* Handlers that began run on, emitted events are delivered, and the sweep runs every
\* 60 s.
EngineFairness ==
    /\ \A h \in Engine : WF_vars(Proceed(h))
    /\ \A i \in 1..MaxReviews : WF_vars(\E h \in Handlers : Handle(h, i))
    /\ WF_vars(Reconcile)
    /\ \A n \in Steps : WF_vars(HaltStep(n))

\* Reviewers decide what is open.
ReviewersDecide ==
    \A i \in 1..MaxReviews :
        WF_vars(i \in DOMAIN reviews /\ Decide(i, "approved") /\ UNCHANGED redecisions)

FairSpec == Spec /\ EngineFairness /\ ReviewersDecide

-----------------------------------------------------------------------------
(***************************************************************************)
(* Properties                                                              *)
(***************************************************************************)
Settled(n) == \/ steps[n].status = "approved"
              \/ steps[n].status = "rejected" /\ Policy[n] = "continue"

Over == run \in {"completed", "rejected", "aborted"}

\* Every variable stays in its domain; the review a step points to was materialised
\* for that step, and a step that is to be materialised points to none.
TypeOK ==
    /\ run \in {"absent", "active", "completed", "rejected", "aborted"}
    /\ steps \in [Steps -> [status : {"pending", "active", "approved", "rejected",
                                      "skipped"},
                            review : 0..MaxReviews]]
    /\ reviews \in Seq([step : Steps,
                        status : {"open", "decided", "expired", "archived", "gone"},
                        decision : {"none", "approved", "rejected"}])
    /\ engine \in [Engine -> [pc : {"rest", "claim", "claimed", "complete", "reject",
                                    "reset", "resetTarget", "insert", "flip", "close"},
                              step : 0..Last, review : 0..MaxReviews,
                              decision : {"none", "approved", "rejected"}]]
    /\ events \subseteq DOMAIN reviews /\ halts \subseteq Steps
    /\ \A n \in Steps : steps[n].review # NoReview =>
          /\ steps[n].review \in DOMAIN reviews
          /\ steps[n].status # "pending"
          /\ reviews[steps[n].review].step = n

\* The route is sequential and nobody is passed over: a step is up only when every step
\* before it is settled, so that never two are up at once, and a run completes only when
\* all are, with events delivered twice, two reviewers deciding one review, sweeps and
\* branches crossing (handleApprove, continueToNextStep, branchToStep).
NobodyPassedOver ==
    /\ \A n \in Steps : steps[n].status = "active" => \A m \in 1..(n - 1) : Settled(m)
    /\ run = "completed" => \A n \in Steps : Settled(n)

\* A run that is over stays as it ended, and no step is activated under it: an abort
\* wins against the handler that is about to advance, to branch or to complete
\* (flipStepActiveGuarded, completeRun, abortChain).
OverIsOver ==
    [][Over => /\ run' = run
               /\ \A n \in Steps : steps'[n].status = "active" => steps[n].status = "active"]_vars

\* An aborted run leaves nothing in anybody's inbox, whatever was being materialised
\* when it was aborted: an open review is about to be closed by the handler that
\* inserted it, unless that handler died (abortRunImpl, materializeStep).
NothingLeftOpen ==
    run = "aborted" /\ faults = 0 =>
        \A i \in DOMAIN reviews : reviews[i].status = "open" =>
            \E h \in Engine : engine[h].review = i /\ engine[h].pc \in {"flip", "close"}

\* A decision is not lost between the review and its chain: a step that is up with a
\* decided review does not stay up for ever, although events are lost in a crash and
\* handlers throw, and although its review is deleted, or somebody tries to archive
\* it, before the engine got to it (reconcileImpl, notInLiveChain).
DecidedStepMoves ==
    LET Up(n) == run = "active" /\ steps[n].status = "active"
        Decided(n) == /\ steps[n].review # NoReview
                      /\ reviews[steps[n].review].status = "decided"
    IN  \A n \in Steps : Up(n) /\ Decided(n) ~> ~Up(n)

\* Without crash, error or deletion a route ends once its reviewers stop rejecting,
\* however often it branched back: no step is left that cannot be activated again (the
\* comment in branchToStep tells of the deadlock this once had).
RouteEnds ==
    [](faults = 0 /\ removals = 0) => (run = "active" ~> Over)

Prefix == Cardinality({n \in Steps : \A m \in 1..n : Settled(m)})
Route == INSTANCE ChainRoute WITH outcome <- run, settled <- Prefix

\* The engine implements the route an agent was promised: approvers in order, an end
\* that is final, and a way back only where a step's policy says so (chain-engine.ts:84).
ImplementsRoute == Route!Spec

(***************************************************************************)
(* Statements of the repository that the code does not keep.               *)
(***************************************************************************)
\* "A periodic reconciliation sweep terminates chain runs stuck in an inconsistent
\* state after a crash between step advance operations" (docs advanced/chains.md:99).
StuckRunTerminates ==
    LET Stuck == /\ run = "active"
                 /\ \A n \in Steps : steps[n].status # "active"
                 /\ \A h \in Engine : engine[h].pc = "rest"
    IN  Stuck ~> Over

=============================================================================
