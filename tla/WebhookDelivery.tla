--------------------------- MODULE WebhookDelivery ---------------------------
(***************************************************************************)
(* One row of webhook_deliveries: the handler that inserts and first posts *)
(* it, the ticks of WebhookRetryWorker, and the operator's retry endpoint. *)
(*                                                                         *)
(* The handler that created the row posts it without claiming it, while    *)
(* the row is already due, so the worker may post the same row meanwhile.  *)
(* deliver and handleFailure write by id alone.                            *)
(***************************************************************************)
EXTENDS Integers, FiniteSets

CONSTANTS
    Workers,        \* retry-worker ticks that can be in flight
    Sender,         \* the handler that created the delivery
    None,           \* SQL NULL in claimed_by
    MaxAttempts,    \* webhook_deliveries.max_attempts
    MaxManual,      \* bound: retries asked for by an operator
    MaxCrashes,     \* bound: crashes and thrown errors
    MaxStalls       \* bound: claims that grow stale under a working tick

ASSUME WebhookConstants ==
    /\ Sender \notin Workers /\ None \notin Workers /\ None # Sender
    /\ MaxAttempts \in Nat \ {0}
    /\ MaxManual \in Nat /\ MaxCrashes \in Nat /\ MaxStalls \in Nat

Posters == Workers \cup {Sender}

VARIABLES
    delivery,   \* the row
    poster,     \* where each poster stands in deliver, and the attempts it read
    acked,      \* the receiver has answered a POST with 2xx
    posts,      \* a POST has left for the receiver
    alerted,    \* review.veto_delivery_failed has been emitted
    manual,     \* bound counter
    crashes,    \* bound counter
    stalls      \* bound counter

env == <<manual, crashes, stalls>>
vars == <<delivery, poster, acked, posts, alerted, env>>

\* withheld: the event is the frozen payload of a review that belongs to a chain.
NoRow == [status |-> "absent", withheld |-> FALSE, attempts |-> 0, due |-> FALSE,
          claimed_by |-> None, claim_stale |-> FALSE]
Idle == [pc |-> "idle", attempts |-> 0]

Exists == delivery.status # "absent"
Goto(p, pc) == poster' = [poster EXCEPT ![p].pc = pc]

-----------------------------------------------------------------------------
\* Mutants: the withheld row is inserted with the default columns, or keeps a next
\* attempt.
DefaultRow(suppressed) ==
    [NoRow EXCEPT !.status = "pending", !.withheld = suppressed, !.attempts = 1,
                  !.due = TRUE]
SuppressedRowDue(suppressed) ==
    [NoRow EXCEPT !.status = IF suppressed THEN "suppressed" ELSE "pending",
                  !.withheld = suppressed, !.attempts = 1, !.due = TRUE]

\* A suppressed row is terminal from the INSERT on and has no next attempt.
InsertedRow(suppressed) ==
    [NoRow EXCEPT !.status = IF suppressed THEN "suppressed" ELSE "pending",
                  !.withheld = suppressed,
                  !.attempts = IF suppressed THEN 0 ELSE 1,
                  !.due = ~suppressed]

CreateDelivery(suppressed) ==
    /\ delivery = NoRow
    /\ delivery' = InsertedRow(suppressed)
    /\ IF suppressed THEN UNCHANGED poster ELSE Goto(Sender, "posting")
    /\ UNCHANGED <<acked, posts, alerted, env>>

\* Mutant: the claim ignores who holds the row.
ClaimableByAnyone == TRUE

\* Mutant: a claim left by a crashed tick is never taken over.
ClaimableIfNull == delivery.claimed_by = None

Claimable == delivery.claimed_by = None \/ delivery.claim_stale

\* processRetries: one UPDATE claims the row and returns it.
ClaimRetry(w) ==
    /\ poster[w].pc = "idle"
    /\ delivery.status = "pending" /\ delivery.due /\ Claimable
    /\ delivery' = [delivery EXCEPT !.claimed_by = w, !.claim_stale = FALSE]
    /\ poster' = [poster EXCEPT ![w] = [pc |-> "claimed", attempts |-> delivery.attempts]]
    /\ UNCHANGED <<acked, posts, alerted, env>>

\* retryDelivery counts the attempt from the claimed row.
CountAttempt(w) ==
    /\ poster[w].pc = "claimed"
    /\ delivery' = [delivery EXCEPT !.attempts = poster[w].attempts + 1]
    /\ Goto(w, "posting")
    /\ UNCHANGED <<acked, posts, alerted, env>>

Post(p) ==
    /\ poster[p].pc = "posting"
    /\ posts' = TRUE
    /\ Goto(p, "sent")
    /\ UNCHANGED <<delivery, acked, alerted, env>>

\* The receiver answers 2xx, and the answer arrives or is lost.
Accepted(p) ==
    /\ poster[p].pc = "sent"
    /\ acked' = TRUE
    /\ Goto(p, "ok") \/ Goto(p, "failed")
    /\ UNCHANGED <<delivery, posts, alerted, env>>

\* Another answer, no answer in time, or no connection.
NotAccepted(p) ==
    /\ poster[p].pc = "sent"
    /\ Goto(p, "failed")
    /\ UNCHANGED <<delivery, acked, posts, alerted, env>>

\* What follows the POST: the worker releases its claim, the sender is done.
Done(p) == IF p = Sender THEN "idle" ELSE "release"

AnsweredOk(p) == poster[p].pc = "ok"

MarkDelivered(p) ==
    /\ AnsweredOk(p)
    /\ delivery' = [delivery EXCEPT !.status = "delivered"]
    /\ Goto(p, Done(p))
    /\ UNCHANGED <<acked, posts, alerted, env>>

\* deliver's catch takes a database error for a failed delivery: of that UPDATE, or
\* of handleFailure when the answer was not 2xx, which then runs again.
DatabaseError(p) ==
    /\ AnsweredOk(p) \/ poster[p].pc = "read"
    /\ crashes < MaxCrashes
    /\ Goto(p, "failed")
    /\ crashes' = crashes + 1
    /\ UNCHANGED <<delivery, acked, posts, alerted, manual, stalls>>

\* handleFailure reads the row ...
ReadFailure(p) ==
    /\ poster[p].pc = "failed"
    /\ poster' = [poster EXCEPT ![p] = [pc |-> "read", attempts |-> delivery.attempts]]
    /\ UNCHANGED <<delivery, acked, posts, alerted, env>>

\* Mutant: gives up one attempt early.
ExhaustedEarly(p) == poster[p].attempts + 1 >= MaxAttempts

Exhausted(p) == poster[p].attempts >= MaxAttempts

\* ... and writes by id what follows from the attempts it read.
GiveUp(p) ==
    /\ poster[p].pc = "read" /\ Exhausted(p)
    /\ delivery' = [delivery EXCEPT !.status = "failed"]
    /\ Goto(p, "alert")
    /\ UNCHANGED <<acked, posts, alerted, env>>

BackOff(p) ==
    /\ poster[p].pc = "read" /\ ~Exhausted(p)
    /\ delivery' = [delivery EXCEPT !.status = "pending", !.due = FALSE]
    /\ Goto(p, Done(p))
    /\ UNCHANGED <<acked, posts, alerted, env>>

\* A veto or a confirm that was lost.
EmitTerminalDeliveryFailure(p) ==
    /\ poster[p].pc = "alert"
    /\ alerted' = TRUE
    /\ Goto(p, Done(p))
    /\ UNCHANGED <<delivery, acked, posts, env>>

ReleasedBy(w) ==
    IF delivery.claimed_by = w
    THEN [delivery EXCEPT !.claimed_by = None, !.claim_stale = FALSE] ELSE delivery

Release(w) ==
    /\ poster[w].pc = "release"
    /\ delivery' = ReleasedBy(w)
    /\ poster' = [poster EXCEPT ![w] = Idle]
    /\ UNCHANGED <<acked, posts, alerted, env>>

\* A database error reaches the catch of processRetries, which releases the claim.
Throws(w) ==
    /\ poster[w].pc \in {"claimed", "failed", "read"} /\ crashes < MaxCrashes
    /\ delivery' = ReleasedBy(w)
    /\ poster' = [poster EXCEPT ![w] = Idle]
    /\ crashes' = crashes + 1
    /\ UNCHANGED <<acked, posts, alerted, manual, stalls>>

\* The process dies; a claim stays on the row.
Crash(p) ==
    /\ poster[p].pc # "idle" /\ crashes < MaxCrashes
    /\ poster' = [poster EXCEPT ![p] = Idle]
    /\ crashes' = crashes + 1
    /\ UNCHANGED <<delivery, acked, posts, alerted, manual, stalls>>

-----------------------------------------------------------------------------
\* POST /deliveries/:id/retry
ManualRetry ==
    /\ delivery.status \in {"pending", "failed"} /\ delivery.claimed_by = None
    /\ manual < MaxManual
    /\ delivery' = [delivery EXCEPT !.status = "pending", !.due = TRUE]
    /\ manual' = manual + 1
    /\ UNCHANGED <<poster, acked, posts, alerted, crashes, stalls>>

BackoffElapses ==
    /\ Exists /\ ~delivery.due
    /\ delivery.status # "suppressed"
    /\ delivery' = [delivery EXCEPT !.due = TRUE]
    /\ UNCHANGED <<poster, acked, posts, alerted, env>>

HolderAtWork == \E w \in Workers : delivery.claimed_by = w /\ poster[w].pc # "idle"

\* A claim is five minutes old.
ClaimAges ==
    /\ delivery.claimed_by # None /\ ~delivery.claim_stale
    /\ HolderAtWork => stalls < MaxStalls
    /\ delivery' = [delivery EXCEPT !.claim_stale = TRUE]
    /\ stalls' = IF HolderAtWork THEN stalls + 1 ELSE stalls
    /\ UNCHANGED <<poster, acked, posts, alerted, manual, crashes>>

-----------------------------------------------------------------------------
Init ==
    /\ delivery = NoRow
    /\ poster = [p \in Posters |-> Idle]
    /\ acked = FALSE /\ posts = FALSE /\ alerted = FALSE
    /\ manual = 0 /\ crashes = 0 /\ stalls = 0

\* The steps of a poster that go on by themselves.
Proceed(p) ==
    \/ Post(p) \/ Accepted(p) \/ NotAccepted(p) \/ MarkDelivered(p)
    \/ ReadFailure(p) \/ GiveUp(p) \/ BackOff(p) \/ EmitTerminalDeliveryFailure(p)

Tick(w) == ClaimRetry(w) \/ CountAttempt(w) \/ Release(w)

Next ==
    \/ \E suppressed \in BOOLEAN : CreateDelivery(suppressed)
    \/ \E p \in Posters : Proceed(p) \/ DatabaseError(p) \/ Crash(p)
    \/ \E w \in Workers : Tick(w) \/ Throws(w)
    \/ ManualRetry \/ BackoffElapses \/ ClaimAges

Spec == Init /\ [][Next]_vars

\* fetch is aborted after 10 s, the worker ticks every 10 s, clocks advance.
FairSpec ==
    /\ Spec
    /\ \A p \in Posters : WF_vars(Proceed(p))
    /\ \A w \in Workers : WF_vars(Tick(w))
    /\ WF_vars(BackoffElapses) /\ WF_vars(ClaimAges)

-----------------------------------------------------------------------------
(***************************************************************************)
(* Properties                                                              *)
(***************************************************************************)
Settled == delivery.status \in {"delivered", "failed", "suppressed"}

\* Every variable stays in its domain; a suppressed row has no attempt behind it and
\* none ahead, and a delivered one an answer, although its posters write it by id.
TypeOK ==
    /\ delivery \in [status : {"absent", "pending", "delivered", "failed", "suppressed"},
                     withheld : BOOLEAN, attempts : Nat, due : BOOLEAN,
                     claimed_by : Workers \cup {None}, claim_stale : BOOLEAN]
    /\ poster \in [Posters -> [pc : {"idle", "claimed", "posting", "sent", "ok", "failed",
                                     "read", "alert", "release"}, attempts : Nat]]
    /\ delivery.status = "suppressed" => delivery.attempts = 0 /\ ~delivery.due
    /\ delivery.status = "delivered" => acked
    /\ acked \in BOOLEAN /\ posts \in BOOLEAN /\ alerted \in BOOLEAN
    /\ manual \in 0..MaxManual /\ crashes \in 0..MaxCrashes /\ stalls \in 0..MaxStalls

\* A delivery withheld because the review belongs to a chain is never posted, by
\* the sweep or by an operator's retry (createDelivery, the retry endpoint).
SuppressedNeverPosted == delivery.withheld => ~posts

\* Two ticks never post one delivery at the same time, however they crash, as long
\* as none outlives its own claim (the claim of processRetries).
OneTickAtATime ==
    stalls = 0 => \A v, w \in Workers :
        poster[v].pc # "idle" /\ poster[w].pc # "idle" => v = w

\* The service gives up after max_attempts counted attempts and not before, and does not
\* contact the receiver much more often: once for each retry an operator asked for, for
\* each poster that died before it recorded how its attempt ended, and when the sender,
\* which holds no claim, fails beside a tick and puts a row that was given up back to
\* pending (handleFailure).  A tick that outlives its claim counts from a row it read
\* long ago, so this holds without one.
MaxAttemptsHonoured ==
    stalls = 0 =>
        /\ delivery.status = "failed" => delivery.attempts >= MaxAttempts
        /\ delivery.attempts <= MaxAttempts + manual + crashes + 1

\* No delivery stays open: posted or not, with its poster dead and its claim left
\* behind, it is delivered or given up.
DeliverySettles == Exists ~> Settled

(***************************************************************************)
(* Statements of the repository that the code does not keep.               *)
(***************************************************************************)
\* A delivered row is not flipped back to pending, for the worker would post it
\* again (routes/webhook-deliveries.ts:150).
DeliveredNotReopened ==
    [][delivery.status = "delivered" => delivery'.status # "pending"]_vars

=============================================================================
