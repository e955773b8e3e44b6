------------------------------ MODULE EmailSending ------------------------------
(***************************************************************************)
(* sendEmail for the mails of one tenant to one address, with the cap and  *)
(* the dedup keys it holds in memory, the log of what left, and the        *)
(* breaker that pauses a tenant whose mail bounces: services/email and     *)
(* jobs/email-pause-evaluator.ts.                                          *)
(*                                                                         *)
(* sendEmail reads the breaker before it checks the cap, and counts a mail *)
(* when the mail server has answered that it took it; a mail whose answer  *)
(* is lost has left all the same, and is neither counted nor logged.  The  *)
(* evaluator reads the log, asks whether the tenant is paused, writes the  *)
(* audit row and then the pause; an operator can resume at any moment.     *)
(***************************************************************************)
EXTENDS Integers, FiniteSets

CONSTANTS
    Sends,              \* calls of sendEmail
    Keyed,              \* those that carry one and the same idempotency key
    Cap,                \* PER_EMAIL_CAP
    CapWindow,          \* WINDOW_MS of the rate limiter, in ticks
    DedupWindow,        \* WINDOW_MS of the dedup store
    PauseWindow,        \* PAUSE_WINDOW_HOURS
    FallbackWindow,     \* ADDRESS_FALLBACK_WINDOW_HOURS
    MinSample,          \* MIN_SAMPLE
    BounceLimit,        \* BOUNCE_RATE_LIMIT, in permille
    ComplaintLimit,     \* COMPLAINT_RATE_LIMIT, in permille
    MaxClock,           \* bound: ticks that pass
    MaxResumes,         \* bound: resumes
    MaxFaults           \* bound: errors, crashes and restarts

ASSUME EmailConstants ==
    /\ IsFiniteSet(Sends) /\ Keyed \subseteq Sends
    /\ {Cap, CapWindow, DedupWindow, PauseWindow, FallbackWindow, MinSample, MaxClock}
          \subseteq Nat \ {0}
    /\ {BounceLimit, ComplaintLimit, MaxResumes, MaxFaults} \subseteq Nat

VARIABLES
    clock,
    mail,       \* where each call stands, when the mail left, when its row was written
    hits,       \* the mails the rate limiter has recorded
    dedup,      \* until when the key is known; 0 when it is not
    row,        \* email_sends: the mails that have a row, and what became of them
    org,        \* email_paused_at and email_resumed_at of the tenant
    eval,       \* where the evaluator stands, and the rows its breach was read from
    basis,      \* history: the rows behind the present pause
    audits,     \* rows email.tenant_paused in the audit log
    pauses,     \* history: times the evaluator paused the tenant
    overlaps,   \* history: mails submitted while another one was in flight
    forgotten,  \* history: the process restarted, and its memory was lost
    raced,      \* history: a resume fell into an evaluation
    resumes,    \* bound counter
    faults      \* bound counter

vars == <<clock, mail, hits, dedup, row, org, eval, basis, audits, pauses,
          overlaps, forgotten, raced, resumes, faults>>
memory == <<hits, dedup>>
ghosts == <<overlaps, forgotten>>
breaker == <<org, eval, basis, audits, pauses, raced, resumes>>

Unsent == [pc |-> "new", left |-> 0]
NoRow == [at |-> 0, marks |-> {}]
Resting == [pc |-> "resting", rows |-> {}]

Goto(s, pc) == mail' = [mail EXCEPT ![s].pc = pc]
Fault == faults < MaxFaults /\ faults' = faults + 1

Fresh(s, window) == mail[s].left >= clock - window
Stored == {s \in Sends : row[s].at > 0}
Left == {s \in Sends : mail[s].pc \in {"left", "answered"}}
Lost == {s \in Sends : mail[s].pc = "lost"}
Gone == Left \cup Lost
InFlight == {s \in Sends : mail[s].pc = "sending"}

-----------------------------------------------------------------------------
(***************************************************************************)
(* sendEmail                                                               *)
(***************************************************************************)
\* The breaker is read; a look-up that fails counts as not paused.  (An address on
\* the suppression list, or no transport, is a call that is not made here.)
ReadBreaker(s) ==
    /\ mail[s].pc = "new"
    /\ \/ ~org.paused /\ Goto(s, "open") /\ UNCHANGED faults
       \/ org.paused /\ Goto(s, "refused") /\ UNCHANGED faults
       \/ org.paused /\ Goto(s, "open") /\ Fault
    /\ UNCHANGED <<clock, memory, row, breaker, ghosts>>

KnownKey(s) == s \in Keyed /\ dedup > clock

\* check: the timestamps that are inside the window.
Counted == {s \in hits : Fresh(s, CapWindow)}

Deduped(s) ==
    /\ mail[s].pc = "open" /\ KnownKey(s)
    /\ Goto(s, "refused")
    /\ UNCHANGED <<clock, memory, row, breaker, ghosts, faults>>

RateLimited(s) ==
    /\ mail[s].pc = "open" /\ ~KnownKey(s) /\ Cardinality(Counted) >= Cap
    /\ Goto(s, "limited")
    /\ UNCHANGED <<clock, memory, row, breaker, ghosts, faults>>

\* The mail is handed to the transport.
Submit(s) ==
    /\ mail[s].pc = "open" /\ ~KnownKey(s) /\ Cardinality(Counted) < Cap
    /\ mail' = [mail EXCEPT ![s] = [pc |-> "sending", left |-> clock]]
    /\ overlaps' = IF InFlight # {} THEN overlaps + 1 ELSE overlaps
    /\ UNCHANGED <<clock, memory, row, breaker, forgotten, faults>>

\* Mutant: an accepted mail is not recorded.
RecordedNever(s) == hits

RecordedOnAccept(s) == hits \cup {s}

\* The transport has taken the mail: record and set in one synchronous step.
Accept(s) ==
    /\ mail[s].pc = "sending"
    /\ mail' = [mail EXCEPT ![s] = [pc |-> "left", left |-> clock]]
    /\ hits' = RecordedOnAccept(s)
    /\ dedup' = IF s \in Keyed THEN clock + DedupWindow ELSE dedup
    /\ UNCHANGED <<clock, row, breaker, ghosts, faults>>

\* The transport throws and the call answers that it failed: the server has refused the
\* mail or was not reached, ...
TransportFails(s) ==
    /\ mail[s].pc = "sending" /\ Fault
    /\ Goto(s, "failed")
    /\ UNCHANGED <<clock, memory, row, breaker, ghosts>>

\* ... or it has taken the mail and its answer did not arrive (socketTimeout): the mail
\* is gone, and nothing remembers it.
AnswerLost(s) ==
    /\ mail[s].pc = "sending" /\ Fault
    /\ mail' = [mail EXCEPT ![s] = [pc |-> "lost", left |-> clock]]
    /\ UNCHANGED <<clock, memory, row, breaker, ghosts>>

\* logSend, whose error is swallowed.
LogSend(s) ==
    /\ mail[s].pc = "left"
    /\ Goto(s, "answered")
    /\ \/ row' = [row EXCEPT ![s] = [at |-> clock, marks |-> {}]] /\ UNCHANGED faults
       \/ UNCHANGED row /\ Fault
    /\ UNCHANGED <<clock, memory, breaker, ghosts>>

\* The provider's webhook: markSendFailure finds the row by the message's id, or
\* else the latest row of the address, if there is one that is not too old.
RecentRows == {s \in Stored : row[s].at >= clock - FallbackWindow}
LatestRows == {s \in RecentRows : \A t \in Stored : row[t].at <= row[s].at}

Marks == {"bounced", "complained"}

MarkFailure(s, mark) ==
    /\ s \in Gone
    /\ \E t \in IF s \in Stored THEN {s} ELSE LatestRows :
          row' = [row EXCEPT ![t].marks = @ \cup {mark}]
    /\ UNCHANGED <<clock, mail, memory, breaker, ghosts, faults>>

\* The process restarts: calls in flight end, the server has their mails or has not, and
\* the cap and the keys are forgotten.
Restart ==
    /\ Fault
    /\ \E taken \in SUBSET InFlight :
          mail' = [s \in Sends |->
                      IF s \in taken THEN [pc |-> "lost", left |-> clock]
                      ELSE [mail[s] EXCEPT !.pc =
                              CASE @ \in {"open", "sending"} -> "failed"
                                [] @ = "left" -> "answered"
                                [] OTHER -> @]]
    /\ hits' = {} /\ dedup' = 0
    /\ forgotten' = TRUE
    /\ eval' = Resting
    /\ UNCHANGED <<clock, row, org, basis, audits, pauses, overlaps, raced, resumes>>

-----------------------------------------------------------------------------
(***************************************************************************)
(* evaluateEmailPause and the operator                                     *)
(***************************************************************************)
WindowStart == clock - PauseWindow

\* Mutant: rows from before a resume are counted.
SinceWindow == WindowStart

\* greatest(windowStart, email_resumed_at).
Since == IF org.resumed > WindowStart THEN org.resumed ELSE WindowStart

Rows == {s \in Stored : row[s].at >= Since}
Share(mark) == 1000 * Cardinality({s \in Rows : mark \in row[s].marks})

Breach ==
    /\ Cardinality(Rows) >= MinSample
    /\ \/ Share("bounced") > BounceLimit * Cardinality(Rows)
       \/ Share("complained") > ComplaintLimit * Cardinality(Rows)

\* The query over the log.
ReadLog ==
    /\ eval.pc = "resting" /\ Breach
    /\ eval' = [pc |-> "breach", rows |-> Rows]
    /\ UNCHANGED <<clock, mail, memory, row, org, basis, audits, pauses, ghosts, raced,
                   resumes, faults>>

\* Mutant: a paused tenant is paused again every hour.
NotLeftAlone == FALSE

\* Mutant: a tenant whose pause was audited before is left alone.
AuditedBefore == audits > 0

\* Already paused: the tenant is left alone.
LeftAlone == org.paused

AskPaused ==
    /\ eval.pc = "breach"
    /\ eval' = IF LeftAlone THEN Resting ELSE [eval EXCEPT !.pc = "clear"]
    /\ UNCHANGED <<clock, mail, memory, row, org, basis, audits, pauses, ghosts, raced,
                   resumes, faults>>

\* Mutant: an audit row that cannot be written does not stop the pause.
AfterAuditError == [eval EXCEPT !.pc = "audited"]

ThrownOut == Resting

\* The audit row is written first; an error ends the evaluation.
WriteAudit ==
    /\ eval.pc = "clear"
    /\ \/ audits' = audits + 1 /\ eval' = [eval EXCEPT !.pc = "audited"] /\ UNCHANGED faults
       \/ Fault /\ eval' = ThrownOut /\ UNCHANGED audits
    /\ UNCHANGED <<clock, mail, memory, row, org, basis, pauses, ghosts, raced, resumes>>

PauseTenant ==
    /\ eval.pc = "audited"
    /\ org' = [org EXCEPT !.paused = TRUE]
    /\ basis' = eval.rows
    /\ pauses' = pauses + 1
    /\ eval' = Resting
    /\ UNCHANGED <<clock, mail, memory, row, audits, ghosts, raced, resumes, faults>>

\* The UPDATE fails and the error ends the evaluation: an audit row without its pause.
PauseFails ==
    /\ eval.pc = "audited" /\ Fault
    /\ eval' = Resting
    /\ UNCHANGED <<clock, mail, memory, row, org, basis, audits, pauses, ghosts, raced,
                   resumes>>

\* POST /admin/email-pause/:orgId/resume, whoever asks and in whatever state.
Resume ==
    /\ resumes < MaxResumes /\ resumes' = resumes + 1
    /\ org' = [paused |-> FALSE, resumed |-> clock]
    /\ raced' = (raced \/ eval.pc # "resting")
    /\ UNCHANGED <<clock, mail, memory, row, eval, basis, audits, pauses, ghosts, faults>>

Tick ==
    /\ clock < MaxClock /\ clock' = clock + 1
    /\ UNCHANGED <<mail, memory, row, breaker, ghosts, faults>>

-----------------------------------------------------------------------------
Init ==
    /\ clock = 1
    /\ mail = [s \in Sends |-> Unsent]
    /\ hits = {} /\ dedup = 0
    /\ row = [s \in Sends |-> NoRow]
    /\ org = [paused |-> FALSE, resumed |-> 0]
    /\ eval = Resting /\ basis = {}
    /\ audits = 0 /\ pauses = 0
    /\ overlaps = 0 /\ forgotten = FALSE /\ raced = FALSE
    /\ resumes = 0 /\ faults = 0

Evaluate == ReadLog \/ AskPaused \/ WriteAudit \/ PauseTenant

Next ==
    \/ \E s \in Sends :
          \/ ReadBreaker(s) \/ Deduped(s) \/ RateLimited(s) \/ Submit(s)
          \/ Accept(s) \/ TransportFails(s) \/ AnswerLost(s) \/ LogSend(s)
          \/ \E mark \in Marks : MarkFailure(s, mark)
    \/ Evaluate \/ PauseFails \/ Resume \/ Restart \/ Tick

Spec == Init /\ [][Next]_vars

\* The evaluator's job comes back every hour.
FairSpec == Spec /\ WF_vars(Evaluate)

-----------------------------------------------------------------------------
(***************************************************************************)
(* Properties                                                              *)
(***************************************************************************)
\* Every variable stays in its domain.
TypeOK ==
    /\ clock \in 1..MaxClock
    /\ mail \in [Sends -> [pc : {"new", "open", "sending", "left", "answered", "refused",
                                 "limited", "failed", "lost"}, left : 0..MaxClock]]
    /\ hits \subseteq Sends /\ dedup \in 0..(MaxClock + DedupWindow)
    /\ row \in [Sends -> [at : 0..MaxClock, marks : SUBSET Marks]]
    /\ org \in [paused : BOOLEAN, resumed : 0..MaxClock]
    /\ eval \in [pc : {"resting", "breach", "clear", "audited"}, rows : SUBSET Sends]
    /\ basis \subseteq Sends
    /\ audits \in 0..(MaxResumes + MaxFaults + 1) /\ pauses \in 0..(MaxResumes + 1)
    /\ overlaps \in Nat /\ forgotten \in BOOLEAN /\ raced \in BOOLEAN
    /\ resumes \in 0..MaxResumes /\ faults \in 0..MaxFaults

\* Of the mails that leave for an address within the window, those beyond the cap are
\* paid for one by one: each was submitted while another was in flight, or its server's
\* answer was lost (check and record are apart by that answer).  Only a restart forgets
\* more than that.
CapHolds ==
    LET FreshOf(S) == {s \in S : Fresh(s, CapWindow)}
    IN  ~forgotten =>
            Cardinality(FreshOf(Gone)) <= Cap + overlaps + Cardinality(FreshOf(Lost))

\* Every pause has its audit row, and an audit row without a pause costs an error,
\* in whatever order errors, crashes and resumes fall (the audit row goes first).
PauseAudited ==
    /\ pauses <= audits
    /\ audits <= pauses + faults + (IF eval.pc = "audited" THEN 1 ELSE 0)

\* No row that was written before the last resume is behind a pause, unless the resume
\* falls into an evaluation (email_resumed_at).  This is about rows: a mail that left
\* before the resume and was logged after it counts, and so does the failure of an older
\* mail without a row, which is put on the latest row of the address.
FreshStart == org.paused /\ ~raced => \A s \in basis : row[s].at >= org.resumed

\* A tenant whose mail goes on bouncing is paused, whatever evaluations fail.
BreachPauses == Breach ~> org.paused \/ ~Breach

(***************************************************************************)
(* Statements of the repository that the code does not keep.               *)
(***************************************************************************)
\* "rows predating an operator's resume never count toward a fresh breach"
\* (jobs/email-pause-evaluator.ts:24): a resume between the query and the look at
\* email_paused_at is followed by a pause for those rows.
ResumeHolds == org.paused => \A s \in basis : row[s].at >= org.resumed

(***************************************************************************)
(* What the dedup store does keep, of the "mid-flight duplicate POSTs" it  *)
(* is to stop (services/email/idempotency.ts:7): two calls with one key in *)
(* flight at once both find no entry.                                      *)
(***************************************************************************)
LostBefore(s, t) == s \in Lost /\ mail[s].left <= mail[t].left
Apart(s, t) == mail[s].left + DedupWindow <= mail[t].left

\* As long as no two mails were in flight at once and the process has not restarted, a
\* mail leaves within the window of another one with its key only if the server's answer
\* to the earlier was lost.
KeyRepeatedOnLoss ==
    overlaps = 0 /\ ~forgotten =>
        \A s, t \in Keyed \cap Gone :
           s # t => Apart(s, t) \/ Apart(t, s) \/ LostBefore(s, t) \/ LostBefore(t, s)

=============================================================================
