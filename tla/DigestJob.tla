------------------------------- MODULE DigestJob -------------------------------
(***************************************************************************)
(* The daily digest: runDailyDigest as the queue pg-boss and an admin's    *)
(* request call it, in any number of processes (start-oss-jobs.ts,         *)
(* daily-digest-handler.ts, routes/admin/jobs.ts).  The digest of          *)
(* notifications (notification-digest-handler.ts) is the same program on a *)
(* row of its own.                                                         *)
(*                                                                         *)
(* A run locks the singleton row, mails everybody who is due while its     *)
(* transaction is open, writes last_run_at and commits.  Mail cannot be    *)
(* taken back; the row can.                                                *)
(***************************************************************************)
EXTENDS Integers, FiniteSets

CONSTANTS
    Reviewers,      \* reviewers with expired links
    Runs,           \* calls of runDailyDigest that can be under way
    None,           \* nobody holds the row; the run belongs to no job
    MaxAttempts,    \* maxAttempts of sendWithRetry
    RetryLimit,     \* retryLimit of the queue
    MaxDay,         \* bound: the last UTC day
    MaxFaults       \* bound: errors, crashes and lost answers

ASSUME DigestConstants ==
    /\ None \notin Runs /\ None \notin Nat
    /\ MaxAttempts \in Nat \ {0} /\ RetryLimit \in Nat
    /\ MaxDay \in Nat \ {0} /\ MaxFaults \in Nat

Days == 1..MaxDay

VARIABLES
    day,        \* today
    job,        \* the job of each day in pg-boss
    run,        \* where each run stands
    last,       \* the day of last_run_at, 0 for the epoch of the seeded row
    rowlock,    \* the run that holds the singleton row FOR UPDATE
    mails,      \* history: digests that left for each reviewer, by the run's day
    undone,     \* history: mails whose run was rolled back or whose answer was lost
    outrun,     \* history: a run got the row after one of a later day
    faults      \* bound counter

vars == <<day, job, run, last, rowlock, mails, undone, outrun, faults>>
world == <<day, job>>

Idle == [pc |-> "idle", job |-> None, now |-> 0,
         left |-> {}, attempt |-> 1, sent |-> {}]

Goto(x, pc) == run' = [run EXCEPT ![x].pc = pc]
End(x, pc) ==
    run' = [run EXCEPT ![x] = [Idle EXCEPT !.pc = pc, !.job = run[x].job]]
Fault == faults < MaxFaults /\ faults' = faults + 1

-----------------------------------------------------------------------------
(***************************************************************************)
(* pg-boss                                                                 *)
(***************************************************************************)
\* The cron puts one job a day in the queue.
Schedule ==
    /\ job[day].state = "none"
    /\ job' = [job EXCEPT ![day].state = "queued"]
    /\ UNCHANGED <<day, run, last, rowlock, mails, outrun, undone, faults>>

\* boss.work: the run takes its `now` as it is called.
Fetch(x, d) ==
    /\ run[x].pc = "idle" /\ job[d].state = "queued"
    /\ job' = [job EXCEPT ![d].state = "active"]
    /\ run' = [run EXCEPT ![x] = [Idle EXCEPT !.pc = "begun", !.job = d, !.now = day]]
    /\ UNCHANGED <<day, last, rowlock, mails, outrun, undone, faults>>

Retried(j) ==
    IF j.tries < RetryLimit THEN [state |-> "queued", tries |-> j.tries + 1]
    ELSE [state |-> "failed", tries |-> 0]

\* A job that stays active past its expiry is retried, whether its handler died or
\* is still at work; pg-boss no longer listens to that handler.
Expire(d) ==
    /\ job[d].state = "active"
    /\ job' = [job EXCEPT ![d] = Retried(@)]
    /\ run' = [x \in Runs |-> IF run[x].job = d THEN [run[x] EXCEPT !.job = None] ELSE run[x]]
    /\ UNCHANGED <<day, last, rowlock, mails, outrun, undone, faults>>

Done == [state |-> "done", tries |-> 0]

\* Mutant: the handler does not throw its error again.
ReportedSwallowed(x) == Done

\* The handler returns its result, or throws so that pg-boss retries.
Reported(x) == IF run[x].pc = "threw" THEN Retried(job[run[x].job]) ELSE Done

Answer(x) ==
    /\ run[x].pc \in {"answer", "threw"}
    /\ job' = IF run[x].job = None THEN job ELSE [job EXCEPT ![run[x].job] = Reported(x)]
    /\ run' = [run EXCEPT ![x] = Idle]
    /\ UNCHANGED <<day, last, rowlock, mails, outrun, undone, faults>>

-----------------------------------------------------------------------------
(***************************************************************************)
(* runDailyDigest                                                          *)
(***************************************************************************)
\* POST /admin/jobs/daily-digest/run.
Trigger(x) ==
    /\ run[x].pc = "idle"
    /\ run' = [run EXCEPT ![x] = [Idle EXCEPT !.pc = "begun", !.now = day]]
    /\ UNCHANGED <<world, last, rowlock, mails, outrun, undone, faults>>

\* SELECT ... FOR UPDATE on the singleton.
LockRow(x) ==
    /\ run[x].pc = "begun" /\ rowlock = None
    /\ rowlock' = x /\ Goto(x, "locked")
    /\ UNCHANGED <<world, last, mails, outrun, undone, faults>>

\* Mutant: the day of the last run is not looked at.
NeverRanToday(x) == FALSE

RanToday(x) == last = run[x].now

\* already_ran_today: the transaction commits without a change.
SkipToday(x) ==
    /\ run[x].pc = "locked" /\ RanToday(x)
    /\ rowlock' = None /\ End(x, "answer")
    /\ UNCHANGED <<world, last, mails, outrun, undone, faults>>

\* computeDailyDigestBatches: whoever is due at this moment.
Compute(x) ==
    /\ run[x].pc = "locked" /\ ~RanToday(x)
    /\ \E due \in SUBSET Reviewers :
          run' = [run EXCEPT ![x].pc = "sending", ![x].left = due]
    /\ outrun' = (outrun \/ run[x].now < last)
    /\ UNCHANGED <<world, last, rowlock, mails, undone, faults>>

\* The batches are taken one by one in the order of the query.
Batch(x) == CHOOSE r \in run[x].left : TRUE
Sending(x) == run[x].pc = "sending" /\ run[x].left # {}
NextBatch(x) == [run[x] EXCEPT !.left = @ \ {Batch(x)}, !.attempt = 1]

MailLeaves(x) == mails' = [mails EXCEPT ![Batch(x)][run[x].now] = @ + 1]

\* sent.
SendMail(x) ==
    /\ Sending(x) /\ MailLeaves(x)
    /\ run' = [run EXCEPT ![x] = [NextBatch(x) EXCEPT !.sent = @ \cup {Batch(x)}]]
    /\ UNCHANGED <<world, last, rowlock, outrun, undone, faults>>

\* The rendering or the look-up of the tenant throws, or the mail is refused for
\* good: suppressed, tenant_paused, skipped_no_config, rate_limited.
PassOver(x) ==
    /\ Sending(x)
    /\ run' = [run EXCEPT ![x] = NextBatch(x)]
    /\ UNCHANGED <<world, last, rowlock, mails, outrun, undone, faults>>

\* Mutant: one attempt more than the limit.
OneAttemptMore(x) == run[x].attempt <= MaxAttempts

AttemptsLeft(x) == run[x].attempt < MaxAttempts

AfterFailedSend(x) ==
    run' = [run EXCEPT ![x] = IF AttemptsLeft(x)
                              THEN [run[x] EXCEPT !.attempt = @ + 1] ELSE NextBatch(x)]

\* failed: sendWithRetry tries again.
SendFails(x) ==
    /\ Sending(x) /\ AfterFailedSend(x)
    /\ UNCHANGED <<world, last, rowlock, mails, outrun, undone, faults>>

\* The mail leaves and its answer is lost.
SendAnswerLost(x) ==
    /\ Sending(x) /\ Fault
    /\ MailLeaves(x) /\ undone' = undone + 1
    /\ AfterFailedSend(x)
    /\ UNCHANGED <<world, last, rowlock, outrun>>

CommitRun(x) ==
    /\ run[x].pc = "sending" /\ run[x].left = {}
    /\ last' = run[x].now /\ rowlock' = None
    /\ UNCHANGED <<world, mails, outrun, undone>>

Commit(x) == CommitRun(x) /\ End(x, "answer") /\ UNCHANGED faults

\* The COMMIT takes effect and its answer is lost: the handler throws.
CommitUnacknowledged(x) == CommitRun(x) /\ End(x, "threw") /\ Fault

\* Mutant: an error leaves the transaction open.
RowKept(x) == rowlock

RowAfter(x) == IF rowlock = x THEN None ELSE rowlock

Undone(x) == undone + IF rowlock = x /\ run[x].sent # {} THEN 1 ELSE 0

\* A statement fails and the transaction is rolled back.
Throw(x) ==
    /\ run[x].pc \in {"begun", "locked", "sending"} /\ Fault
    /\ rowlock' = RowAfter(x) /\ undone' = Undone(x)
    /\ End(x, "threw")
    /\ UNCHANGED <<world, last, mails, outrun>>

\* The process dies; pg-boss learns of it when the job expires.
Crash(x) ==
    /\ run[x].pc # "idle" /\ Fault
    /\ rowlock' = RowAfter(x) /\ undone' = Undone(x)
    /\ run' = [run EXCEPT ![x] = Idle]
    /\ UNCHANGED <<world, last, mails, outrun>>

DayPasses ==
    /\ day < MaxDay /\ day' = day + 1
    /\ UNCHANGED <<job, run, last, rowlock, mails, outrun, undone, faults>>

-----------------------------------------------------------------------------
Init ==
    /\ day = 1
    /\ job = [d \in Days |-> [state |-> "none", tries |-> 0]]
    /\ run = [x \in Runs |-> Idle]
    /\ last = 0 /\ rowlock = None
    /\ mails = [r \in Reviewers |-> [d \in Days |-> 0]]
    /\ undone = 0 /\ outrun = FALSE /\ faults = 0

\* The steps of a run that go on by themselves.
Proceed(x) ==
    \/ SkipToday(x) \/ Compute(x)
    \/ SendMail(x) \/ PassOver(x) \/ SendFails(x)
    \/ Commit(x) \/ Answer(x)

Disturb(x) == SendAnswerLost(x) \/ CommitUnacknowledged(x) \/ Throw(x) \/ Crash(x)

Next ==
    \/ Schedule \/ DayPasses
    \/ \E d \in Days : Expire(d) \/ \E x \in Runs : Fetch(x, d)
    \/ \E x \in Runs : Trigger(x) \/ LockRow(x) \/ Proceed(x) \/ Disturb(x)

Spec == Init /\ [][Next]_vars

\* Statements return, the row is granted to those who wait for it, and pg-boss
\* hands out and expires its jobs.
FairSpec ==
    /\ Spec
    /\ \A x \in Runs : WF_vars(Proceed(x)) /\ SF_vars(LockRow(x))
    /\ \A d \in Days : WF_vars(Expire(d)) /\ SF_vars(\E x \in Runs : Fetch(x, d))

-----------------------------------------------------------------------------
(***************************************************************************)
(* Properties                                                              *)
(***************************************************************************)
\* Every variable stays in its domain.
TypeOK ==
    /\ day \in Days
    /\ job \in [Days -> [state : {"none", "queued", "active", "done", "failed"},
                         tries : 0..RetryLimit]]
    /\ run \in [Runs -> [pc : {"idle", "begun", "locked", "sending", "answer",
                               "threw"},
                         job : Days \cup {None}, now : 0..MaxDay,
                         left : SUBSET Reviewers, attempt : 1..MaxAttempts,
                         sent : SUBSET Reviewers]]
    /\ last \in 0..MaxDay /\ rowlock \in Runs \cup {None}
    /\ mails \in [Reviewers -> [Days -> Nat]]
    /\ undone \in Nat /\ outrun \in BOOLEAN /\ faults \in 0..MaxFaults

\* A reviewer gets one digest a day, however many runs the queue's retries and the
\* admins start side by side, and another one only for a mail that could not be
\* taken back: jobs that expire, crashes before the first mail or after the commit
\* and commits without an answer cost none (the row lock and last_run_at).
OneDigestADay ==
    ~outrun => \A r \in Reviewers, d \in Days : mails[r][d] <= 1 + undone

\* A job is reported done only when a run of that day or a later one has committed
\* (skipping a day that ran, and the error thrown on to pg-boss).
DoneMeansCommitted ==
    \A d \in Days : ~outrun /\ job[d].state = "done" => d <= last

\* A digest that is scheduled goes out, that day or later, unless pg-boss has run
\* out of retries.
DigestRuns ==
    \A d \in Days :
        job[d].state = "queued" ~> outrun \/ d <= last \/ job[d].state = "failed"

=============================================================================
