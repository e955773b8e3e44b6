# Gatewerk in TLA+

Gatewerk is a review gate for agents: an agent files a *review*, people (or timeouts)
settle it, and the outcome is reported back over signed webhooks. This directory models
the part of the server that decides what happens to a review, checks it with TLC on small
instances and proves its safety properties with TLAPS for every instance.

    tlc -config LifecycleRequests.cfg MCReviewLifecycle      # any run of PROJECT.json
    tlapm ReviewLifecycleProofs.tla                          # any *Proofs.tla

Paths below are relative to `apps/api/src/` unless they say otherwise.

## 1. The system

One Node process (the docs allow several against one Postgres) serves HTTP and runs
timers. Hardly anything in it holds a lock across statements (the audit log, a change to
the team and a digest run do): a handler reads a row, computes, and writes with an
`UPDATE ... WHERE` that asserts part of what it read. The correctness of the whole rests
on what those `WHERE` clauses assert. That is what the models keep; they drop wording,
rendering, transport and access control.

| Component | State | Operations | Talks to |
|---|---|---|---|
| Review lifecycle (`services/reviews/`, `routes/reviews/`) | `reviews` row: status, decision, current_version, payload, deadline, claim | create, auto-approve, act (decide / iterate / side effect), veto/confirm, new version, archive, delete, snooze | bus, webhooks, audit |
| Timeout worker (`services/timeout-worker*.ts`, `assignment-ladder.ts`) | `claimed_by`, `claimed_at` on the row | five sweeps every 30 s: expired, ladder, max iterations, expired change requests, monitoring windows; reclaim of orphaned shares; reminders | review row, bus |
| Share links (`services/review-tokens.ts`, `routes/token-reviews*.ts`) | `review_tokens`: used_at, revoked_at, expires_at, preview | generate, extend, revoke, validate, consume, decline/question, undo | review row |
| Webhook delivery (`services/webhooks.ts`, `webhook-retry-worker.ts`) | `webhook_deliveries`: status, attempts, next_retry_at, claim | create (or suppress), deliver, back off, retry sweep every 10 s, operator's retry | receiver |
| Chain engine (`services/chain-*.ts`) | `chain_runs`, `chain_steps` | create run, advance on decision, abort/continue/branch on rejection, operator's abort, reconcile sweep every 60 s | bus, reviews |
| Audit log (`services/audit.ts`) | `audit_log` as a signature chain; per process a queue and the last signature in memory | log (own or caller's transaction), verify, anonymise | everybody |
| Team (`routes/settings/team.ts`, `routes/account.ts`) | `reviewers`: role, is_active | promote, demote, activate, deactivate, remove; delete one's own account | who may call, assignee |
| Hold (`routes/reviews/hold.ts`) | `held_by`, `assignee` of a review | claim, forced claim, release, assign, snooze | review row |
| Digests (`services/jobs/*-digest-*`, `jobs/start-oss-jobs.ts`) | a singleton row per digest, jobs of pg-boss | scheduled run, retry, an admin's trigger | queue, e-mail |
| E-mail (`services/email/`, `jobs/email-pause-evaluator.ts`) | cap and dedup keys in memory, `email_sends`, the pause of an organization | send, log, attribute a bounce, evaluate, resume | transport, audit |
| Recipient e-mail codes (`services/email-otp/`) | codes, attempts, lock-out per link | send, verify | share links |
| Bus, SSE, tickets (`services/events.ts`, `sse-hub.ts`, `ticket-store.ts`) | in-memory subscribers and tickets | emit, subscribe, issue, consume | everybody |
| Notifications (`services/notifications.ts`, `jobs/notification-*`) | inbox rows, queue of mails and Slack messages | enqueue, send once | bus, e-mail, Slack |
| Templates and policy; accounts, sessions, API keys, passkeys; media, notes, settings, stats | their tables | CRUD | HTTP |
| Web UI, SDKs, MCP server, n8n node, mail templates, site, deployment | none that is authoritative | clients, rendering, packaging | HTTP |

What is hard here: two people, an agent, a recipient and a worker act on one row between
each other's read and write; a worker dies while holding a claim, or stalls until
somebody takes it over; a decision and its consequences (webhook, next step, link) are
separate statements; the bus is lossy and nobody awaits its handlers; retries and sweeps
redeliver what was merely slow. `PROJECT.json` lists each such hazard at its line.

What makes a component correct:
*lifecycle* - one outcome, of the payload on record, told as it is;
*worker* - acts only on what is due and as configured, and in the end does;
*links* - one standing decision per link, none through a revoked one, a share never strands
a review;
*webhooks* - posts only what may be posted, says delivered only if it was, ends;
*chains* - approvers in order, none passed over, over is over, no decision lost;
*audit* - one chain per project, no row behind a rolled-back one, every fork found;
*team* - somebody is left who may administer it; *hold* - ended by its holder or an admin's
session, passed on by who may assign;
*digests* - one a day, and not none; *e-mail* - the cap as far as calls wait for each other,
no pause without its audit row, no pause for what an operator has settled, a pause where
mail goes on bouncing.

## 2. The modules

| Module | Models | Extends / uses |
|---|---|---|
| `ReviewLifecycle` | one review row, its handlers and the timeout worker | |
| `ReviewTokens` | share links and recipients, on top of all of `ReviewLifecycle` | extends `ReviewLifecycle` |
| `WebhookDelivery` | one delivery row, its creator, the retry worker, the operator | |
| `ChainEngine` | one chain run and all invocations of the engine | instance of `ChainRoute` |
| `ChainRoute` | what a chain promises: a route taken in order that ends in one of three ways | |
| `AuditChain` | one partition of the audit log, written by several processes | |
| `TeamDesk` | the members of a team, and one review that they and API keys hold | |
| `DigestJob` | the daily digest under pg-boss | |
| `EmailSending` | `sendEmail` for one tenant and address, the breaker and the operator | |
| `*Proofs` | theorems about the module they are named after | extend it and `TLAPS`; `ReviewTokensProofs` also extends `ReviewLifecycleProofs` |
| `MC*` | instances for TLC | |

Rows do not influence one another, so each module has one row (one run in `ChainEngine`).

**Idiom.** An action is one SQL statement, with everything the code does up to its next
`await` on the database. A handler with several statements is a record with a `pc` and
the values it carries (`req`, `worker`, `visit`, `poster`, `engine`); everything may
happen in between. The predicate of an `UPDATE` is a definition of its own (`Claimable`,
`VersionStillCurrent`, `ProcessGuard`, `CloseGuard`, `Consumable`, `Flippable`,
`StillActive`, `Unheld`, `StillHeldAsSeen`): the mutants of `PROJECT.json` weaken these.
Time is a Boolean (`due`, `claim_stale`, `expired`) that an action sets, so every order of
deadlines is covered; where the code compares moments (`AuditChain`, `DigestJob`,
`EmailSending`) it is a bounded counter. Crashes drop what is in memory and leave rows alone.

**ReviewLifecycle.** `Create`, `AutoApprove` (a second UPDATE keyed by id);
`OpenPage`/`LoadReview`/`CommitAction`/`CommitConflict`/`Announce`
(`reviews/execute-action.ts`: load and validate, write under a guard on
`current_version`, announce); `ResolveMonitoring` (veto and confirm, whose UPDATE asserts
status and window); `UpdateVersion`, `Archive`, `Unarchive`, `Delete`, `Snooze`; four
claims and four writes of the sweeps, each write as guarded in the code
(`ProcessOne`: by claim only; `CloseMaxIterations`, `ConfirmOne`: by claim and state;
`PromoteOne`: by claim), `RevertChanges`, and `WorkerFails`, `WorkerCrash`, `ClaimAges`.
`current_version` serves as the optimistic lock and, where the code compares it with the
cap, as the iteration count. `payload` is the number of the version it came with.

**ReviewTokens.** The operator's `Generate`, `Revoke`, `Reclaim`; the recipient's
`Validate`, `Consume`, then the statements of `executeReviewAction` by way of
`ReviewLifecycle`'s own actions, and `UndoConsume` when they refuse or throw
(`RecipientAnnounceFails`: the handler throws after its write and the link of a committed
decision is given back; the history variables `written` and `thrown` count the decisions of
a link and the handlers that failed this way); `ConsumeAsRecipientAction` (decline,
question). Deleting a review deletes its links (`Cascade`). The comment at
`services/review-tokens.ts:51` allows for a row with both `revoked_at` and `used_at` after a
race of revoke and consume; the UPDATEs of both look at the row under its lock, so the code
writes no such row, and `TokensTypeOK` says so.

**WebhookDelivery.** The row is inserted due and unclaimed and its creator posts it
without a claim (`CreateDelivery`, `Post`, `Accepted`, `NotAccepted`, `MarkDelivered`,
`ReadFailure`, `GiveUp`, `BackOff`); a tick does the same between `ClaimRetry`,
`CountAttempt` and `Release`. The receiver is the choice between `Accepted` and
`NotAccepted`; a lost answer is a `NotAccepted` of a POST that was accepted.

**ChainEngine.** `CreateRun`; `Handle` (onReviewDecided's reads), `Claim`, `Recheck`,
then `InsertReview`/`FlipStep`/`CloseReview` (materializeStep), `CompleteRun`, `RejectRun`
(abort policy) or `BranchResetSteps`/`BranchResetTarget` (branch policy); `Abort` (one
transaction); `Reconcile` and `HaltStep`; `Throws` (the catch that reports
chain.step_halted) and `Crash`. Reviewers are reduced to `Decide`, which may replace a
decision (`LifecycleTwoDeciders` below shows how that comes about), `Archive` (refused while
the run is active, `NotInLiveChain`), `Unarchive` and `Delete` (refused by nothing). The
writes of the lifecycle that assert `current_version` alone could also write over a review
that expired with its aborted run; they are `ReviewLifecycle`'s subject and no handler of
the engine answers to them. Reviews of a chain have no deadline, so `onReviewExpired` is
never reached and not modelled.

**AuditChain.** `Log` takes `created_at` and joins the queue of its process;
`TakeLock`, `InsertRow` (with `Prev`: the signature in memory, or the row with the latest
`created_at`) and the commit are the statements of `writeRow`. A call that opens its own
transaction settles the queue when it commits (`CommitOwn`); an enlisted one settles it
with nothing in memory as soon as its row is inserted, and its caller commits or rolls back
later (`CommitCaller`, `RollbackCaller`). `WriteFails`, `CommitUnacknowledged` and `Crash`
are the faults. `Passed` is the walk of `verify`, `Breaks` what it reports.

**TeamDesk.** A change to a member is `AskChange` (authentication), `LockTarget` (FOR
UPDATE), `PassCount` or `Abandon` (last_admin, and any error), `CommitChange`; the count
sees what is committed. `DeleteAccount` takes the owner's row without counting. On the
review act members, who come with a session, and API keys (`Actors`; a key holds it as
`agent:<prefix>`): `Claim` is one UPDATE where `held_by` is null, `ForceClaim` what
`?force=true` makes of a refusal for a caller with `reviews:assign`, which every admin and
some keys have (`MayAssign`); `ReadHold` and `Release` are the read and the guarded write of
a release, which asks for the holder or an admin's session; `AskAssign` and `Assign` lie
apart by the look-up of the project. A request keeps the right it was granted. The history
variable `lapse` says whether the count was got round.

**DigestJob.** `Schedule`, `Fetch`, `Expire`, `Answer` are pg-boss as the code configures
it (one attempt and `retryLimit` retries, an expiry that does not stop the handler);
`Trigger` is the admin's request. `LockRow`, `SkipToday` or `Compute`, then per reviewer
`SendMail`, `PassOver`, `SendFails` or `SendAnswerLost` and the commit are runDailyDigest.
The history variables say what left (`mails`), what of it could not be taken back
(`undone`) and whether a run got the row after one of a later day (`outrun`).
`runNotificationDigest` is the same program on its own row.

**EmailSending.** `ReadBreaker`, then `Deduped`, `RateLimited` or `Submit`, then `Accept`
(with `record` and `set`, which are synchronous), `TransportFails` (the mail did not leave)
or `AnswerLost` (it did, and the same catch remembers nothing of it), then `LogSend`. A
restart loses calls in flight, their mails gone or not. The history variables `overlaps` and
`forgotten` count the mails submitted while another was in flight and tell of a restart.
`MarkFailure` is the provider's webhook with its fallback to the latest row of the address,
if that is recent (`FallbackWindow`).
The evaluator is `ReadLog`, `AskPaused`, `WriteAudit`, `PauseTenant`; `Resume` is the
operator. A tick is the unit in which windows are measured.

## 3. The runs

Passing runs:

| Run | Instance | Shows |
|---|---|---|
| `LifecycleRequests` | 2 reviewers (one locking), 1 tick, 2 versions, cap 1 | `MonitoringDecidedOnce`, `MonitoringToldTruth`, `DecisionCoversCurrentPayload` |
| `LifecycleWorkers` | 1 reviewer, 2 ticks, 2 versions, cap 1, 2 rungs, 1 snooze, 1 fault, fair | `TypeOK`, `UnattendedAsConfigured`, `LadderClimbsOneRung`, `DueReviewCloses`, `CapEndsIteration` |
| `TokensShared` | 2 recipients (one locking), 1 reviewer, 2 links, 1 fault, fair | `TokensTypeOK`, `LinkDecidesOnce`, `SharedReviewReturns` |
| `WebhookRetries` | sender, 2 ticks, 3 attempts, 1 manual retry, 2 crashes, 1 stall, fair | `TypeOK`, `SuppressedNeverPosted`, `OneTickAtATime`, `MaxAttemptsHonoured`, `DeliverySettles` |
| `ChainSafe` | 3 steps (abort, continue, branch to 1), 2 handlers, 6 reviews, 2 rejections, 1 replaced decision, 1 fault | `TypeOK`, `NobodyPassedOver`, `NothingLeftOpen`, `OverIsOver`, `ImplementsRoute` |
| `ChainLive` | 2 steps (continue, branch to 1), 1 handler, 8 reviews, 1 rejection, 1 replaced decision, 1 removal, 1 fault, fair | `DecidedStepMoves`, `RouteEnds` |
| `AuditAppends` | 3 calls (each plain or enlisted), 2 processes, 3 moments, 1 fault, fair | `TypeOK`, `ChainUnforked`, `NoPhantomPredecessor`, `VerifyDetectsForks`, `CallsSettle` |
| `TeamHolds` | 2 members, admins at the start, 2 API keys, one with `reviews:assign`, 2 requests | `TypeOK`, `AdminRemains`, `HoldEndsByRight` |
| `DigestRetries` | 1 reviewer, 2 runs, 2 days, 2 attempts, 1 retry, 1 fault, fair | `TypeOK`, `OneDigestADay`, `DoneMeansCommitted`, `DigestRuns` |
| `EmailBreaker` | 2 mails with one key, cap 1, windows of 1, 2 and 3 ticks, 1 resume, 1 fault, fair | `TypeOK`, `CapHolds`, `PauseAudited`, `FreshStart`, `BreachPauses` |

Some properties are stated for the behaviours in which the code promises them, and a
counter or a history variable in the premise says which: `OneTickAtATime` and
`MaxAttemptsHonoured` without a tick that outlives its claim, `NothingLeftOpen` and
`RouteEnds` without faults, `ChainUnforked` as long as processes hand over to one another
(`Handover`) and `created_at` grows (`Dated`), `AdminRemains` as long as no two counts
overlap and no admin deletes their own account, `OneDigestADay` and `DoneMeansCommitted` as
long as no run is overtaken by a run of a later day, `CapHolds` as long as the process does
not restart, `FreshStart` for a resume between evaluations. `CapHolds` and `LinkDecidesOnce`
count what the code does beyond the promise and pair each case with its cause: a mail beyond
the cap with an overlap or a lost answer, a second decision of a link with a handler that
failed after the first. `FreshStart` is about rows of the log and no more: with a row missing
or late, the failure of an older mail counts against a resumed tenant
(`services/email/send-log.ts:78`). What happens otherwise is below.

Runs that end in a counterexample; `PROJECT.json` quotes the sentence each refutes:

| Run | What happens |
|---|---|
| `LifecycleTwoDeciders` | Two reviewers loaded one pending review; a decision leaves `current_version` alone, so both succeed and the agent hears two outcomes. |
| `TeamLastAdmin` | Two admins demote or remove each other at once; each transaction locks the other's row and counts two. Nobody is left who may promote anyone. |

Statements of the docs or of comments that the code does not keep, stated in the modules
under that heading and without a run of their own (put the definition into a .cfg of the
module's instance in place of its properties, the last one with `FairSpec`):

| Definition | What happens |
|---|---|
| `ReviewLifecycle.TerminalIsImmutable` | A change request loaded before a decision is written after it and reopens the decided review (`the-gate.md:28`). |
| `ReviewLifecycle.TimeoutSparesResubmission` | A version submitted between the worker's claim and its write is closed by the deadline of the version before (`services/timeout-worker.ts:412`). |
| `ReviewTokens.OneActiveLink` | A side effect puts a shared review back to pending, and a second link is issued while the first is live (`external-review.md:10`). |
| `ReviewTokens.SingleUse` | The handler of a recipient's decision fails after its write and the link is given back; a slower reviewer's side effect puts the review back to pending, and the link decides once more (`openapi/paths/review-tokens.ts:55`). |
| `WebhookDelivery.DeliveredNotReopened` | The sender and a tick post one row; the failure of one reopens what the other delivered (`routes/webhook-deliveries.ts:154`). |
| `AuditChain.ChainAcrossProcesses` | Of two processes that take turns, each writes the signature it remembers as the predecessor, and the chain forks (`services/audit.ts:230`: "cross-replica safety"). |
| `EmailSending.ResumeHolds` | A resume between the evaluator's query and its look at `email_paused_at` is followed by a pause for rows from before (`jobs/email-pause-evaluator.ts:24`). |
| `ChainEngine.StuckRunTerminates` | A crash between claiming one step and activating the next leaves a run that no sweep selects (`chains.md:99`). |

Met on the way, and not stated:

* `promoteOne` asserts its claim and not the status, so a review decided after the ladder
  sweep claimed it is promoted; `services/timeout-worker.ts:687` says terminal states never
  promote.
* `revoke` sets the review to pending whatever its status, so revoking the link of a
  review that ended meanwhile reopens it (`services/review-tokens.ts:286`).
* Two calls of `sendEmail` with one key in flight at once both find no entry, and both mails
  leave; the header of `services/email/idempotency.ts` means to stop mid-flight duplicates.
  What the store does keep is `EmailSending.KeyRepeatedOnLoss`, proved as `KeysKeptApart`.
* A recipient's decline bumps `current_version`, which the cap compares with
  `max_iterations`: it uses up a resubmission the agent never made
  (`services/review-tokens.ts:615`).
* A tick that dies after counting the last attempt leaves a pending row that is attempted
  once more; the sender, which holds no claim, may put a row that was given up back to
  pending. Those are the last two terms of `MaxAttemptsHonoured`.
* The claim of a step (`services/chain-engine.ts:328`) asserts the step's status and not
  which review is up for it. After a branch a late event for the old review decides the
  new activation, and one rejection delivered twice branches twice; the comment at
  `services/chain-engine-reconcile.ts:103` calls duplicates harmless. `NobodyPassedOver`
  and `RouteEnds` hold nevertheless. The branch policy is implemented and held back at
  launch.
* A rejection that ends a run leaves the later steps pending; the docs
  (`site/src/content/docs/docs/advanced/chains.md:38`) say skipped.
* The header of `services/chain-rejection.ts` says that the step a branch started from
  stays rejected; `branchToStep` resets it, and says why.
* The reset of a branch does not assert the status of the run, so an abort between the
  recheck and the reset turns skipped steps of an aborted run back to pending.
  `ChainRoute` allows `GoBack` under an aborted run for this.
* Deleting an active step's review strands its run; archiving it is what `notInLiveChain`
  refuses.
* A caller that enlisted two audit writes in one transaction would wait for itself: the
  second queues behind a write that waits for the lock its own transaction holds. No caller
  enlists any yet (`services/AUDIT-WRITE-CONTRACT.md` plans them).
* The last admin may delete their own account (`routes/account.ts:399`).
* A digest run takes its day before it waits for the row and compares days for equality, so
  one that waited past midnight behind a run of the new day mails again and sets
  `last_run_at` back (`outrun`).
* The hold of a member who was removed stays until an admin releases it; removal clears
  only `assignee`.
* `POST /reviews` with a chain template does not pass the `idempotency_key` on
  (`routes/reviews/crud.ts:199`), although `the-gate.md:38` promises the same review for it.
* An edit of a note asserts `updated_at` on a row it read and writes by id alone
  (`routes/notes/write.ts:157`); the cap on attachments is counted before the insert, and
  an attachment made shared later is not counted (`services/notes-caps.ts:10`).

### Bounds

Two actors of a kind are the smallest number that race; a third repeats what one of the
two can do at another moment, as no handler waits for another. One fault is enough to
leave each multi-statement handler at each of its statements, and two also hit the
recovery. Two versions distinguish "the version before" from "the current one", and a cap
of one is reached within them; two rungs separate climbing one from skipping one. The last
attempt comes after one that is neither first nor last with three. Three steps are the
fewest with a branch over a step in between, and `ChainSafe` has reviews for two passes.
In `ChainLive` the bound on reviews cuts nothing off where `RouteEnds` is about it: with
one handler at most three deliveries of one decision follow each other, and no fault-free
behaviour reaches eight reviews. `Timeouts` is the set of timeout actions an agent may
ask for; the runs about links, in which no sweep of the worker but the reclaim runs, use
one. `PermuteHandlers` is used only in `ChainSafe`, which has no liveness property, and
the properties treat the handlers alike; so do those of `TeamHolds` its requests and its
two admins (`Alike`).

Three writes are the fewest in which a process writes, another one does and the first comes
back; three moments let each of them have one of its own. Two admins are a team that can
lose both and, by a promotion, gain one back; two keys differ in whether they may assign;
two requests race for each pair of handlers (`TeamLastAdmin` has a third member and one
key). One reviewer is enough for a digest, as the batches of a run are independent; two days
distinguish a retry from the next day's job, and two runs are a handler that outlived its
job and the retry of it. With two mails and a cap of one the second is the first too many;
the pause window is longer than the others, so that rows are still counted that the cap has
forgotten. The `MaxFaults` terms of `DigestJob` and `EmailSending` bound errors, crashes,
lost answers and restarts together.

Deadlock is not checked anywhere: each instance may rightly stop, when the review is
archived or decided, the delivery settled or the run over and the bounded environment
(versions, snoozes, faults) is used up. What must not stop is stated as liveness.

### Fairness

* Worker: `setInterval` starts a tick every 30 s (webhooks: 10 s, reconcile: 60 s), so
  claims are weakly fair; a tick that began runs on unless it crashes, which the fault bound
  allows a finite number of times; a stale claim is taken over. Clocks advance, so a
  deadline, a back-off and the age of a claim come (`DeadlinePasses`, `BackoffElapses`,
  `ClaimAges`). `CapEndsIteration` needs of these that the sweep of the cap claims and that
  claims age; it does not ask reviewers to rest. `fetch` is aborted after 10 s, so a POST is
  answered, well or badly.
* `DueReviewCloses` assumes that reviewers come to rest (`ReviewersRest`): each change
  request may put a deadline off, and nothing bounds them.
* `SharedReviewReturns` needs only that links expire (they may be extended finitely often)
  and that the reclaim sweep runs; recipients owe nothing.
* Chains: a handler that began runs on, what the bus holds is handed over, the sweep runs.
  `RouteEnds` also assumes that reviewers decide what is open (`ReviewersDecide`);
  `DecidedStepMoves` does not use it.
* Audit: a statement returns, callers finish their transactions, and Postgres grants the
  lock to those who wait for it (strong fairness of `TakeLock`: it is free again and again,
  and the queue of waiters is a queue).
* Digests: the same for the singleton row (`LockRow`); pg-boss hands a queued job out again
  and again (strong, for a run may be busy) and expires what stays active. `DigestRuns`
  allows for a job whose retries are used up.
* E-mail: the evaluator's job comes back every hour. Nothing is assumed of senders,
  providers or operators.

## 4. The proofs

Every theorem holds for all values of its module's constants that satisfy the module's
ASSUME (TLC evaluates it in every run). Each proof module follows one pattern: a type
invariant, the strengthening that makes the property inductive, one lemma per group of
actions with one step per action, and a last step that leaves the temporal part to PTL.
Operators are expanded only where a step needs them.

`ReviewLifecycleProofs` holds for every set of requests, workers and offered actions.

* `TypeCorrect`: `Spec => []TypeOK`. `TypeOK` is not inductive: what a tick will write is
  computed from what it carries. `TypeInv` adds `CarriedOK`: a loaded request carries a
  known action, a committed one a decision, a tick about to promote carries a rung that
  has a successor (so no promotion leaves the ladder), a tick about to announce carries an
  outcome.
* `GateDecidedOnce`: `Spec => MonitoringDecidedOnce`, an action property. The writes of
  requests and sweeps do not assert that the row is no monitoring gate; they are kept away
  from it by what was read before. `MonitoringInv` says how: nobody holds a snapshot from
  before the row existed (`NothingBeforeCreate`), the status tells an open window from a
  resolved one (`MonitoringStatus`), no action request, auto-approval or other sweep is
  under way on a gate, and the window's own only after the deadline (`OnlyTheWindowSweep`),
  and a request in flight read an open review (`LoadedOpen`). It is inductive together
  with `TypeInv`, and each action is then shown to write a gate only as the property
  allows.
* `RowInv` (`TypeInv`, `MonitoringInv` and `SweepInv`) is what the other theorems start
  from. `SweepInv` says what a tick that slept since its claim may still rely on: the
  configured action of a row that exists, a deadline that passed, and the rung it read as
  long as the claim on record is its own. With it `OneRungAtATime` (`LadderClimbsOneRung`)
  and `NobodyDecidesEarly` (`UnattendedAsConfigured`) are case distinctions over the writes.
* `DecisionsCoverPayload` (`DecisionCoversCurrentPayload`) rests on `PayloadInv`: version
  and payload change together, so the version a write asserts stands for the payload that
  was read. `GateToldTruth` (`MonitoringToldTruth`) rests on `ToldInv`: before the row
  exists nothing was said and nobody is about to, and of a gate only what is on record.

`ReviewTokensProofs` - `TokensTypeCorrect` (`TokensTypeOK`), `OneDecisionPerLink`
(`LinkDecidesOnce`), for the lifecycle together with its links and any number of
recipients, reviewers and ticks. The invariant is `HeldLinks`: who consumed a link and has
not finished holds it alone, and it is marked spent. `GoneForGood` covers the cascade: a
deleted review is not created again, so a recipient who still holds a link of it can do
nothing with it. A decision is thus written by the one request that holds the link, and an
undo gives back only the link its own request holds (also, as the code does, when the
handler threw after its write). `CountInv` does the accounts: of a link that is free as many
decisions were written as handlers failed after theirs (`Free`), of a link held by a request
the same, and one more between that request's write and the end of its handler.

The lifecycle's own theorems are proved again for the composition, where recipients and the
operator's link actions interleave with everything else: `SharedGateDecidedOnce`,
`SharedNobodyDecidesEarly`, `SharedOneRungAtATime`, `SharedGateToldTruth` and
`SharedDecisionsCoverPayload` are the properties `MonitoringDecidedOnce` to
`DecisionCoversCurrentPayload` as theorems of `TokensSpec`. `StepKind` shows that a step of
the composition is a step of the lifecycle, a write of the links (`LinkWrite`: open to
shared or back, at most one version up) or a request let go (`LetGo`). The step lemmas of
`ReviewLifecycleProofs` cover the first kind, so only the other two remain. `SharedInv` is
what both need; its new part is `OnBlocking`: a review with links is no monitoring gate, or
else revoking a link would reopen the gate's window. `DecisionCoversCurrentPayload` needs
more: a recipient's decline counts the version up and leaves the payload, so version and
payload no longer change together, and `PayloadSeen` says that what was loaded at the
present version is the present payload.

`WebhookDeliveryProofs` - `TypeCorrect`, `SuppressedStays` (`SuppressedNeverPosted`),
`ClaimsExclude` (`OneTickAtATime`) and `AttemptsHonoured` (`MaxAttemptsHonoured`).

* That a suppressed delivery is never posted rests on `QuietOK`: nobody who could post it
  holds the row. That ticks exclude one another as long as none outlived its claim is
  `ClaimOK`: a tick at work holds the claim on record, and the claim is not stale.
* Attempts: `Budget` is what the operators and the faults may have added to `MaxAttempts`,
  and `Spare` the one attempt more that the sender's write may allow. `CountOK` relates
  `attempts` to the posts made, with `ReadsOK` for what an attempt in flight has read and
  `SpentOK` for a row that is not to be attempted again. The step that matters is that the
  condition under which `Spare` is granted (`MayReopen`) once lost is not won back, so the
  budget never shrinks under an attempt in flight.

`AuditChainProofs` - `TypeCorrect`, `PredecessorsCommitted` (`NoPhantomPredecessor`),
`OneProcessOneChain` (`ChainUnforked`). `Inv` adds to the types where a row may be on its
way (`PlaceOK`) and what a process may know (`KnownOK`): a remembered signature belongs to
a row that is committed, because a process remembers nothing for an enlisted row. `ChainInv`
ties the three ways in which `Prev` is found to one last row: the chain is unforked so far,
a process that remembers a signature remembers that of the last row unless another process
wrote meanwhile (`MemoryOK`), and the predecessor chosen under the lock is the last row
(`PrevOK`). `Justified` carries the premises of the property.

* `VerifyIsExact` (`VerifyDetectsForks`). The verifier walks the table by a recursive
  function over it; the induction on the walk is replaced by a least counterexample.
  `LeastNumber` (a non-empty set of numbers has a least one) follows from the well-founded
  order of the subsets of a finite set, a library fact without operator parameters.
  `SignedOnce` (no signature is on two rows) makes successors unique, `WalkExists` gives the
  walk, and the first row it misses or leaves out of turn is where a fork or a gap is
  (`NoBreakOneChain`, `OneChainNoBreak`).
* `QueueAndLockMove` is the part of `CallsSettle` that is no matter of fairness: whoever
  waits, waits for a call that can take its next step, either the holder of the advisory
  lock or, when nobody has it, the first of its own queue. `Lined` says that a queue holds
  exactly the calls in line, each once, and `Held` that the lock belongs to a transaction
  under way. No run states it; it was checked on the instance of `AuditAppends` before it
  was proved.
* `EachCallOneRow`: the committed calls have one row each, the others none.

`TeamDeskProofs` - `TypeCorrect`, `TeamKeepsAdmin` (`AdminRemains`), `HoldsEndByRight`
(`HoldEndsByRight`). The count of a removal is taken before its write. `Sound` says of a
request past its count that the admin it counted on is still one, unless `lapse` is set;
`SpareOK` is the admin left over. The lock of the target row keeps two requests on one
member apart, and nothing keeps two on two members apart, which is the counterexample. That
a hold changes by right follows from what a request in flight carries: it was granted its
right when it was asked, and a release carries the hold it read. `RowsGivenBack` is the
other direction of the lock: a locked row belongs to a request at work on that very member,
so no request holds two rows and none waits for a change that was given up.

`DigestJobProofs` - `TypeCorrect`, `OneDigest` (`OneDigestADay`), `DoneIsCommitted`
(`DoneMeansCommitted`). A run in flight carries what it read under the lock, sound as long
as it holds the lock; `JobsOK` relates the job's answer to the row. `MailsOK` accounts for
every mail of a day: as many as could not be taken back (`undone`), and one more exactly
when the day is on record or a run is mailing for it. `RowGivenBack`: the singleton row is
locked only by a run inside its transaction, whatever expired or died.

`EmailSendingProofs` - `TypeCorrect`, `CapIsKept` (`CapHolds`), `PausesAudited`
(`PauseAudited`), `ResumesStartAfresh` (`FreshStart`). `CountOK` has it, as long as the process
does not restart, that every answered mail is in the counter and that the answered mails of
the window and those in flight (`InUse`) exceed the cap by no more than the overlaps; a mail
whose answer was lost gives its place up and is paid for by itself. `BreakerOK` says of an
evaluation in flight that the audit row is there before the pause is; `FreshOK` that the rows
it read were logged after the last resume, unless the resume came into its midst.
`KeysKeptApart` (`KeyRepeatedOnLoss`): a mail leaves within the window of another one with
its key only after the answer to that one was lost, unless two were in flight at once or the
process restarted. `KeyOK` says why: the store knows the key until the window of the last
answered mail is over, and a keyed mail is in flight only after that. No run states it; it
was checked on the instance of `EmailBreaker`, with windows of one and of two ticks, before
it was proved.

`ChainEngineProofs` - `TypeCorrect`, `ApproversInOrder` (`NobodyPassedOver`), `EndIsFinal`
(`OverIsOver`), `AbortLeavesNothing` (`NothingLeftOpen`) and `EngineImplementsRoute`
(`ImplementsRoute`), for every number of steps, every policy and every number of handlers.

* `TypeInv` carries what typing needs across statements: a review that is being
  materialised belongs to one invocation and to no step yet, a decision is known where a
  claim is to be written, a reset is under way only for a step with a branch policy, and in
  an active run no step waits for a review that lapsed undecided (so that what the sweep
  selects has a decision).
* `RouteInv`: the run is carried by at most one invocation (`OneCarrier`), which won it with
  the claim of the step that was up and hands it on with the activation of the next. While
  it is carried no step is up, and `Carried` gives for each place in the handler which
  steps are settled and which are open; while a step is up, everything before it is settled
  and everything after it open (`UpInTurn`). Duplicate events, replaced decisions and
  sweeps fall under one lemma (`TokenStays`): they move no token.
* The refinement maps `settled` to the number of leading settled steps. `Front` describes
  where they end without counting, and `FrontCount` counts once and for all. Each action is
  then a step of `ChainRoute` or leaves the frontier alone; an abort between the recheck
  and the reset of a branch is why `GoBack` is allowed under an aborted run.
* `RouteNeverStranded` is the part of `RouteEnds` that is no matter of fairness. Without
  faults and removals an active run is in exactly one place: one invocation carries it, or
  one step is active and its review is open or just decided. `RouteInv` gives at most one;
  `Alive` gives at least one (`Token`), with what keeps it so: no step is skipped, and an
  active step's review is one that somebody can decide (`StepsUp`). No run states it; it was
  checked on the instance of `ChainSafe` before it was proved.

Of the properties the passing runs check every invariant and every action property is a
theorem. Only model-checked are the nine liveness properties, `DueReviewCloses`,
`CapEndsIteration`, `SharedReviewReturns`, `DeliverySettles`, `DecidedStepMoves`,
`RouteEnds`, `CallsSettle`, `DigestRuns` and `BreachPauses`: the prover reasons neither
about fairness nor about ENABLED. Six theorems state what no run does (`QueueAndLockMove`,
`EachCallOneRow`, `RouteNeverStranded`, `RowsGivenBack`, `RowGivenBack`, `KeysKeptApart`).
Nothing is assumed beyond the named ASSUME of each module.

## 5. What is not modelled

*Within the modelled components*: listings, counts, drafts, notes, validation of edited
fields, idempotency keys of reviews, templates that offer an action in `archived`; the
e-mail code and account tiers in front of a share link (a guard that reads and writes none
of this state); signing and payload layout of webhooks, the cascade that deletes deliveries
with their review, and the release of a row whose project is gone; the payload a chain hands
from step to step, links minted for external steps, and assignee resolution; the reminder
sweep, which only sends mail; rows of the audit log from before the chain (v1),
anonymisation (it keeps signatures and tombstones values), `logBestEffort` (a caller that
ignores a failed call); the creation of a team and invitations; what a digest says; the
suppression list and the cap per IP address of the mailer, and the test mail of the settings
page. A tick claims a batch of rows and handles them one after the other; the model has one
row, and the wait for the rows before it shows as `ClaimAges` under a working tick (bounded
by `MaxFaults` in `ReviewLifecycle` and `MaxStalls` in `WebhookDelivery`).

A caller's transaction seals at most one audit row in `AuditChain`. Nothing under `src/`
but tests passes `{ tx }` yet. Two enlisted writes of one transaction with another call
queued between them, or an enlisted write and then, in the same transaction, an awaited
call of its own, would wait on each other: the second stands behind a call that waits for
the lock the transaction itself holds. `CallsSettle` and `QueueAndLockMove` hold for one
sealed write per transaction and say nothing of that use.

*Components*: `PROJECT.json` lists them with the reason. The recipient codes, tickets,
notifications, idempotency keys and notes keep little state each, most of it a counter or a
single compare-and-set, and little interleaves with it; the notification digest is the
twin of a modelled job. What remains is the greater part of the repository by lines and
keeps no authoritative state: the web interface, the SDKs, the MCP server, the n8n node,
e-mail templates, OpenAPI documents, CRUD of templates and settings, statistics, packaging
and the site. A state machine of it would restate requests and renderings. This is why the
map covers a small share of the lines although it covers the code that decides, times out,
delivers, chains, audits, digests and mails.

## 6. Plan

Done, in this order: `ReviewLifecycle` with the worker, `ReviewTokens` composed with it,
`WebhookDelivery`, `ChainEngine` implementing `ChainRoute`, `AuditChain`, `TeamDesk`,
`DigestJob`, `EmailSending`, and the proof modules above.

Proved: every safety and action property the runs check, the refinement, the lifecycle's
properties under its links, and the safety that `CallsSettle`, `RouteEnds` and `DigestRuns`
rest on.

Left, by worth:

1. The same for the others: that a review handed out is held by an active link or due to
   be reclaimed (`SharedReviewReturns`), and that a due review is always within reach of a
   sweep (`DueReviewCloses`).
2. That `TokensSpec` implements an abstract review whose steps are open, share, decide.
3. The payload a chain hands on, with a branch back to a step that has an older one.
4. The due rung of a ladder as a function of the ladder and the clock, against a reference
   definition.
5. The codes of share links (`services/email-otp/`): the attempt cap under concurrent
   guesses.
6. The enlisted audit writes of `services/AUDIT-WRITE-CONTRACT.md` composed with the callers
   that will enlist them, once they do, several of them in one transaction included.
