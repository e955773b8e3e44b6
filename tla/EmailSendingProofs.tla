--------------------------- MODULE EmailSendingProofs ---------------------------
(***************************************************************************)
(* Proofs about EmailSending for any calls, limits, windows and faults.    *)
(***************************************************************************)
EXTENDS EmailSending, FiniteSetTheorems, TLAPS

MailType ==
    [pc : {"new", "open", "sending", "left", "answered", "refused", "limited", "failed",
           "lost"},
     left : 0..MaxClock]
RowType == [at : 0..MaxClock, marks : SUBSET Marks]
OrgType == [paused : BOOLEAN, resumed : 0..MaxClock]
EvalType == [pc : {"resting", "breach", "clear", "audited"}, rows : SUBSET Sends]

\* The part of the state that sendEmail and the provider write.
MailOK ==
    /\ clock \in 1..MaxClock
    /\ mail \in [Sends -> MailType]
    /\ hits \subseteq Sends /\ dedup \in 0..(MaxClock + DedupWindow)
    /\ row \in [Sends -> RowType]
    /\ overlaps \in Nat /\ forgotten \in BOOLEAN /\ faults \in 0..MaxFaults

\* The part of the state that the evaluator and the operator write.  An evaluation that
\* has asked finds the tenant unpaused until it pauses it; each pause has been audited,
\* and each but the present one resumed.
BreakerOK ==
    /\ org \in OrgType /\ eval \in EvalType /\ basis \subseteq Sends
    /\ audits \in Nat /\ pauses \in Nat /\ raced \in BOOLEAN /\ resumes \in 0..MaxResumes
    /\ eval.pc \in {"clear", "audited"} => ~org.paused
    /\ pauses <= resumes + (IF org.paused THEN 1 ELSE 0)
    /\ pauses + (IF eval.pc = "audited" THEN 1 ELSE 0) <= audits
    /\ audits <= pauses + faults + (IF eval.pc = "audited" THEN 1 ELSE 0)

Inv == MailOK /\ BreakerOK

LEMMA Constants ==
  /\ Cap \in Nat \ {0} /\ CapWindow \in Nat \ {0} /\ DedupWindow \in Nat \ {0}
  /\ PauseWindow \in Nat \ {0} /\ MaxClock \in Nat \ {0}
  /\ MaxResumes \in Nat /\ MaxFaults \in Nat
  BY EmailConstants

LEMMA InvTypeOK == Inv => TypeOK
<1> SUFFICES ASSUME Inv PROVE TypeOK
  OBVIOUS
<1>1. faults \in Nat /\ faults <= MaxFaults /\ resumes \in Nat /\ resumes <= MaxResumes
  BY Constants DEF Inv, MailOK, BreakerOK
<1>2. pauses <= MaxResumes + 1
  BY <1>1, Constants DEF Inv, BreakerOK
<1>3. audits <= MaxResumes + MaxFaults + 1
  <2>1. CASE eval.pc = "audited"
    <3>1. pauses <= resumes
      BY <2>1 DEF Inv, BreakerOK
    <3> QED BY <1>1, <2>1, <3>1, Constants DEF Inv, BreakerOK
  <2>2. CASE eval.pc # "audited"
    <3>1. pauses <= resumes + 1
      BY <1>1 DEF Inv, BreakerOK
    <3> QED BY <1>1, <2>2, <3>1, Constants DEF Inv, BreakerOK
  <2> QED BY <2>1, <2>2
<1>4. audits \in 0..(MaxResumes + MaxFaults + 1) /\ pauses \in 0..(MaxResumes + 1)
  BY <1>1, <1>2, <1>3, Constants DEF Inv, BreakerOK
<1> QED BY <1>4 DEF Inv, MailOK, BreakerOK, TypeOK, MailType, RowType, OrgType, EvalType

LEMMA InitInv == Init => Inv
<1> SUFFICES ASSUME Init PROVE Inv
  OBVIOUS
<1>1. {} \in SUBSET Marks /\ {} \in SUBSET Sends /\ 0 \in 0..MaxClock /\ 1 \in 1..MaxClock
  BY Constants
<1>2. mail \in [Sends -> MailType] /\ row \in [Sends -> RowType]
  BY <1>1 DEF Init, Unsent, NoRow, MailType, RowType
<1>3. org \in OrgType /\ eval \in EvalType /\ eval.pc = "resting" /\ org.paused = FALSE
  BY <1>1 DEF Init, Resting, OrgType, EvalType
<1>4. 0 \in 0..(MaxClock + DedupWindow) /\ 0 \in 0..MaxFaults /\ 0 \in 0..MaxResumes
  BY Constants
<1>5. MailOK
  <2>1. clock = 1 /\ hits = {} /\ dedup = 0 /\ overlaps = 0 /\ forgotten = FALSE /\ faults = 0
    BY DEF Init
  <2>2. overlaps \in Nat /\ forgotten \in BOOLEAN /\ hits \subseteq Sends
    BY <2>1
  <2> QED BY <1>1, <1>2, <1>4, <2>1, <2>2 DEF MailOK
<1>6. BreakerOK
  <2>1. audits = 0 /\ pauses = 0 /\ resumes = 0 /\ faults = 0 /\ raced = FALSE /\ basis = {}
    BY DEF Init
  <2>2. raced \in BOOLEAN /\ basis \subseteq Sends /\ 0 \in Nat
    BY <2>1
  <2>3. /\ pauses <= resumes + (IF org.paused THEN 1 ELSE 0)
        /\ pauses + (IF eval.pc = "audited" THEN 1 ELSE 0) <= audits
        /\ audits <= pauses + faults + (IF eval.pc = "audited" THEN 1 ELSE 0)
    BY <1>3, <2>1
  <2> QED BY <1>3, <1>4, <2>1, <2>2, <2>3 DEF BreakerOK
<1> QED BY <1>5, <1>6 DEF Inv

LEMMA FaultType ==
  ASSUME Inv, Fault PROVE faults' \in 0..MaxFaults /\ faults' = faults + 1
  BY Constants DEF Fault, Inv, MailOK

LEMMA FaultsOnlyHelp ==
  ASSUME NEW a \in Nat, NEW p \in Nat, NEW f \in Nat, NEW g \in Nat, NEW B,
         f <= g, a <= p + f + (IF B THEN 1 ELSE 0)
  PROVE  a <= p + g + (IF B THEN 1 ELSE 0)
<1>1. CASE B
  BY <1>1
<1>2. CASE ~B
  BY <1>2
<1> QED BY <1>1, <1>2

\* A step of sendEmail or of the provider leaves the breaker alone.
LEMMA BreakerKept ==
  ASSUME Inv, UNCHANGED breaker, faults' = faults \/ faults' = faults + 1
  PROVE  BreakerOK'
<1>1. faults \in Nat /\ faults' \in Nat /\ faults <= faults'
  BY Constants DEF Inv, MailOK
<1>2. /\ org' = org /\ eval' = eval /\ basis' = basis /\ audits' = audits
      /\ pauses' = pauses /\ raced' = raced /\ resumes' = resumes
  BY DEF breaker
<1>3. /\ audits \in Nat /\ pauses \in Nat
      /\ audits <= pauses + faults + (IF eval.pc = "audited" THEN 1 ELSE 0)
  BY DEF Inv, BreakerOK
<1>4. audits <= pauses + faults' + (IF eval.pc = "audited" THEN 1 ELSE 0)
  BY <1>1, <1>3, FaultsOnlyHelp
<1> QED BY <1>2, <1>4 DEF Inv, BreakerOK

\* A call that moves on.
LEMMA GotoType ==
  ASSUME Inv, NEW s \in Sends, NEW pc \in {"open", "refused", "limited", "failed", "answered"},
         Goto(s, pc)
  PROVE  /\ mail' \in [Sends -> MailType]
         /\ mail'[s].pc = pc /\ mail'[s].left = mail[s].left
         /\ \A t \in Sends : t # s => mail'[t] = mail[t]
  BY DEF Goto, Inv, MailOK, MailType

LEMMA MailStep ==
  ASSUME Inv, NEW s \in Sends, NEW mark \in Marks,
         \/ ReadBreaker(s) \/ Deduped(s) \/ RateLimited(s) \/ Submit(s)
         \/ Accept(s) \/ TransportFails(s) \/ AnswerLost(s) \/ LogSend(s) \/ MarkFailure(s, mark)
  PROVE  Inv'
<1>1. CASE ReadBreaker(s)
  <2>1. mail' \in [Sends -> MailType]
    BY <1>1, GotoType DEF ReadBreaker
  <2>2. faults' \in 0..MaxFaults /\ (faults' = faults \/ faults' = faults + 1)
    BY <1>1, FaultType DEF ReadBreaker, Inv, MailOK
  <2> QED BY <1>1, <2>1, <2>2, BreakerKept DEF ReadBreaker, memory, ghosts, Inv, MailOK
<1>2. CASE Deduped(s) \/ RateLimited(s)
  <2>1. mail' \in [Sends -> MailType]
    BY <1>2, GotoType DEF Deduped, RateLimited
  <2>2. UNCHANGED <<clock, memory, row, breaker, ghosts, faults>>
    BY <1>2 DEF Deduped, RateLimited
  <2> QED BY <2>1, <2>2, BreakerKept DEF memory, ghosts, Inv, MailOK
<1>3. CASE Submit(s)
  <2>1. [pc |-> "sending", left |-> clock] \in MailType
    BY Constants DEF MailType, Inv, MailOK
  <2>2. mail' \in [Sends -> MailType] /\ overlaps' \in Nat
    BY <1>3, <2>1 DEF Submit, Inv, MailOK
  <2> QED BY <1>3, <2>2, BreakerKept DEF Submit, memory, ghosts, Inv, MailOK
<1>4. CASE Accept(s)
  <2>1. [pc |-> "left", left |-> clock] \in MailType
    BY Constants DEF MailType, Inv, MailOK
  <2>2. mail' \in [Sends -> MailType] /\ hits' \subseteq Sends
    BY <1>4, <2>1 DEF Accept, RecordedOnAccept, Inv, MailOK
  <2>3. dedup' \in 0..(MaxClock + DedupWindow)
    BY <1>4, Constants DEF Accept, Inv, MailOK
  <2> QED BY <1>4, <2>2, <2>3, BreakerKept DEF Accept, ghosts, Inv, MailOK
<1>5. CASE TransportFails(s)
  <2>1. mail' \in [Sends -> MailType]
    BY <1>5, GotoType DEF TransportFails
  <2> QED BY <1>5, <2>1, FaultType, BreakerKept DEF TransportFails, memory, ghosts, Inv, MailOK
<1>6. CASE LogSend(s)
  <2>1. mail' \in [Sends -> MailType]
    BY <1>6, GotoType DEF LogSend
  <2>2. [at |-> clock, marks |-> {}] \in RowType
    <3>1. {} \in SUBSET Marks /\ clock \in 0..MaxClock
      BY Constants DEF Inv, MailOK
    <3> QED BY <3>1 DEF RowType
  <2>3. row' \in [Sends -> RowType]
    BY <1>6, <2>2 DEF LogSend, Inv, MailOK
  <2>4. faults' \in 0..MaxFaults /\ (faults' = faults \/ faults' = faults + 1)
    BY <1>6, FaultType DEF LogSend, Inv, MailOK
  <2> QED BY <1>6, <2>1, <2>3, <2>4, BreakerKept DEF LogSend, memory, ghosts, Inv, MailOK
<1>7. CASE AnswerLost(s)
  <2>1. [pc |-> "lost", left |-> clock] \in MailType
    BY Constants DEF MailType, Inv, MailOK
  <2>2. mail' \in [Sends -> MailType]
    BY <1>7, <2>1 DEF AnswerLost, Inv, MailOK
  <2> QED BY <1>7, <2>2, FaultType, BreakerKept DEF AnswerLost, memory, ghosts, Inv, MailOK
<1>8. CASE MarkFailure(s, mark)
  <2>1. PICK t \in Sends : row' = [row EXCEPT ![t].marks = @ \cup {mark}]
    BY <1>8 DEF MarkFailure, LatestRows, RecentRows, Stored
  <2>2. row[t] \in RowType /\ (row[t].marks \cup {mark}) \in SUBSET Marks
    BY DEF Inv, MailOK, RowType
  <2>3. [row[t] EXCEPT !.marks = @ \cup {mark}] \in RowType
    BY <2>2 DEF RowType
  <2>4. row' \in [Sends -> RowType]
    BY <2>1, <2>3 DEF Inv, MailOK
  <2> QED BY <1>8, <2>4, BreakerKept DEF MarkFailure, memory, ghosts, Inv, MailOK
<1> QED BY <1>1, <1>2, <1>3, <1>4, <1>5, <1>6, <1>7, <1>8

LEMMA RestartInv == ASSUME Inv, Restart PROVE Inv'
<1>1. /\ hits' = {} /\ dedup' = 0 /\ forgotten' = TRUE /\ eval' = Resting
      /\ faults' \in 0..MaxFaults /\ faults' = faults + 1
      /\ UNCHANGED <<clock, row, org, basis, audits, pauses, overlaps, raced, resumes>>
  BY FaultType DEF Restart
<1>2. PICK taken \in SUBSET InFlight :
         mail' = [s \in Sends |->
                     IF s \in taken THEN [pc |-> "lost", left |-> clock]
                     ELSE [mail[s] EXCEPT !.pc =
                             CASE @ \in {"open", "sending"} -> "failed"
                               [] @ = "left" -> "answered"
                               [] OTHER -> @]]
  BY DEF Restart
<1>3. mail' \in [Sends -> MailType]
  <2>1. [pc |-> "lost", left |-> clock] \in MailType
    BY Constants DEF MailType, Inv, MailOK
  <2>2. \A s \in Sends :
           [mail[s] EXCEPT !.pc = CASE @ \in {"open", "sending"} -> "failed"
                                    [] @ = "left" -> "answered"
                                    [] OTHER -> @] \in MailType
    BY DEF Inv, MailOK, MailType
  <2> QED BY <1>2, <2>1, <2>2
<1>4. MailOK'
  BY <1>1, <1>3, Constants DEF Inv, MailOK
<1>5. BreakerOK'
  <2>1. eval' \in EvalType /\ eval'.pc = "resting"
    BY <1>1 DEF Resting, EvalType
  <2>2. faults \in Nat
    BY Constants DEF Inv, MailOK
  <2>3. pauses' <= audits' /\ audits' <= pauses' + faults'
    BY <1>1, <2>2 DEF Inv, BreakerOK
  <2> QED BY <1>1, <2>1, <2>3 DEF Inv, BreakerOK
<1> QED BY <1>4, <1>5 DEF Inv

LEMMA EvaluateInv == ASSUME Inv, Evaluate PROVE Inv'
<1>1. faults \in Nat /\ resumes \in Nat
  BY Constants DEF Inv, MailOK, BreakerOK
<1>2. CASE ReadLog
  <2>1. Rows \subseteq Sends
    BY DEF Rows, Stored
  <2>2. eval' \in EvalType /\ eval'.pc = "breach"
    BY <1>2, <2>1 DEF ReadLog, EvalType
  <2> QED BY <1>2, <2>2 DEF ReadLog, memory, ghosts, Inv, MailOK, BreakerOK
<1>3. CASE AskPaused
  <2>1. /\ eval' \in EvalType /\ eval.pc = "breach"
        /\ \/ eval'.pc = "resting"
           \/ eval'.pc = "clear" /\ ~org.paused
    BY <1>3 DEF AskPaused, LeftAlone, Resting, EvalType, Inv, BreakerOK
  <2> QED BY <1>3, <2>1 DEF AskPaused, memory, ghosts, Inv, MailOK, BreakerOK
<1>4. CASE WriteAudit
  <2>1. eval.pc = "clear" /\ ~org.paused
    BY <1>4 DEF WriteAudit, Inv, BreakerOK
  <2>2. CASE audits' = audits + 1 /\ eval' = [eval EXCEPT !.pc = "audited"] /\ UNCHANGED faults
    <3>1. eval' \in EvalType /\ eval'.pc = "audited"
      BY <2>2 DEF EvalType, Inv, BreakerOK
    <3>2. /\ audits' \in Nat /\ pauses + 1 <= audits' /\ audits' <= pauses + faults + 1
      BY <1>1, <2>1, <2>2 DEF Inv, BreakerOK
    <3> QED BY <1>1, <1>4, <2>1, <2>2, <3>1, <3>2 DEF WriteAudit, memory, ghosts, Inv, MailOK, BreakerOK
  <2>3. CASE Fault /\ eval' = Resting /\ UNCHANGED audits
    <3>1. eval' \in EvalType /\ eval'.pc = "resting"
      BY <2>3 DEF Resting, EvalType
    <3>2. faults' \in 0..MaxFaults /\ faults' = faults + 1
      BY <2>3, FaultType
    <3>3. pauses <= audits /\ audits <= pauses + faults'
      BY <1>1, <2>1, <3>2 DEF Inv, BreakerOK
    <3> QED BY <1>4, <2>3, <3>1, <3>2, <3>3 DEF WriteAudit, memory, ghosts, Inv, MailOK, BreakerOK
  <2> QED BY <1>4, <2>2, <2>3 DEF WriteAudit, ThrownOut
<1>5. CASE PauseTenant
  <2>1. eval.pc = "audited" /\ ~org.paused
    BY <1>5 DEF PauseTenant, Inv, BreakerOK
  <2>2. /\ org' \in OrgType /\ org'.paused = TRUE
        /\ eval' \in EvalType /\ eval'.pc = "resting" /\ basis' \subseteq Sends
    BY <1>5 DEF PauseTenant, Resting, OrgType, EvalType, Inv, BreakerOK
  <2>3. /\ pauses' \in Nat /\ pauses' <= resumes + 1 /\ pauses' <= audits
        /\ audits <= pauses' + faults
    BY <1>1, <1>5, <2>1 DEF PauseTenant, Inv, BreakerOK
  <2> QED BY <1>5, <2>2, <2>3 DEF PauseTenant, memory, ghosts, Inv, MailOK, BreakerOK
<1> QED BY <1>2, <1>3, <1>4, <1>5 DEF Evaluate

LEMMA PauseFailsInv == ASSUME Inv, PauseFails PROVE Inv'
<1>1. faults \in Nat /\ faults' \in 0..MaxFaults /\ faults' = faults + 1
  BY FaultType, Constants DEF PauseFails, Inv, MailOK
<1>2. eval' \in EvalType /\ eval'.pc = "resting" /\ eval.pc = "audited"
  BY DEF PauseFails, Resting, EvalType
<1>3. UNCHANGED <<clock, mail, memory, row, org, basis, audits, pauses, ghosts, raced,
                  resumes>>
  BY DEF PauseFails
<1>4. audits \in Nat /\ pauses \in Nat /\ pauses <= audits /\ audits <= pauses + faults + 1
  BY <1>2 DEF Inv, BreakerOK
<1>5. audits <= pauses + faults'
  BY <1>1, <1>4
<1> QED BY <1>1, <1>2, <1>3, <1>4, <1>5 DEF memory, ghosts, Inv, MailOK, BreakerOK

LEMMA ResumeInv == ASSUME Inv, Resume PROVE Inv'
<1>1. clock \in 0..MaxClock /\ resumes \in Nat /\ pauses \in Nat
  BY Constants DEF Inv, MailOK, BreakerOK
<1>2. resumes' = resumes + 1 /\ resumes' \in 0..MaxResumes
  BY <1>1, Constants DEF Resume, Inv, BreakerOK
<1>3. org' \in OrgType /\ org'.paused = FALSE /\ raced' \in BOOLEAN
  BY <1>1 DEF Resume, OrgType
<1>4. pauses <= resumes'
  BY <1>1, <1>2 DEF Inv, BreakerOK
<1>5. UNCHANGED <<clock, mail, memory, row, eval, basis, audits, pauses, ghosts, faults>>
  BY DEF Resume
<1> QED BY <1>2, <1>3, <1>4, <1>5 DEF memory, ghosts, Inv, MailOK, BreakerOK

LEMMA NextInv == Inv /\ [Next]_vars => Inv'
<1> SUFFICES ASSUME Inv, [Next]_vars PROVE Inv'
  OBVIOUS
<1>1. CASE Tick
  <2>1. clock' \in 1..MaxClock
    BY <1>1, Constants DEF Tick, Inv, MailOK
  <2> QED BY <1>1, <2>1, BreakerKept DEF Tick, memory, ghosts, Inv, MailOK
<1>2. CASE UNCHANGED vars
  BY <1>2 DEF vars, Inv, MailOK, BreakerOK
<1>3. ASSUME NEW s \in Sends,
             \/ ReadBreaker(s) \/ Deduped(s) \/ RateLimited(s) \/ Submit(s)
             \/ Accept(s) \/ TransportFails(s) \/ AnswerLost(s) \/ LogSend(s)
      PROVE  Inv'
  <2>1. "bounced" \in Marks
    BY DEF Marks
  <2> QED BY <1>3, <2>1, MailStep
<1> QED BY <1>1, <1>2, <1>3, MailStep, RestartInv, EvaluateInv, PauseFailsInv, ResumeInv DEF Next

\* Every variable stays in its domain, for any calls, limits and faults.
THEOREM TypeCorrect == Spec => []TypeOK
  BY InitInv, NextInv, InvTypeOK, PTL DEF Spec

\* No pause without its audit row, and an audit row without a pause only for an error,
\* whatever crashes and resumes fall into an evaluation (WriteAudit before PauseTenant).
THEOREM PausesAudited == Spec => []PauseAudited
<1>1. Inv => PauseAudited
  BY DEF Inv, BreakerOK, PauseAudited
<1> QED BY <1>1, InitInv, NextInv, PTL DEF Spec

-----------------------------------------------------------------------------
\* Nothing the evaluator has in hand, or has paused for, is older than the last resume.
FreshOK ==
    /\ org.resumed <= clock
    /\ ~raced /\ eval.pc # "resting" => \A s \in eval.rows : row[s].at >= org.resumed
    /\ FreshStart

LEMMA RowsAge ==
  ASSUME Inv, FreshOK, UNCHANGED clock,
         NEW s \in Sends, row' = row \/ row' = [row EXCEPT ![s] = [at |-> clock, marks |-> {}]],
         NEW t \in Sends, row[t].at >= org.resumed
  PROVE  row'[t].at >= org.resumed
<1>1. CASE row' = row
  BY <1>1
<1>2. CASE row' = [row EXCEPT ![s] = [at |-> clock, marks |-> {}]]
  <2>1. row'[t] = IF t = s THEN [at |-> clock, marks |-> {}] ELSE row[t]
    BY <1>2 DEF Inv, MailOK
  <2> QED BY <2>1 DEF FreshOK
<1> QED BY <1>1, <1>2

\* A step that leaves the breaker alone and makes no row older.
LEMMA FreshKept ==
  ASSUME Inv, FreshOK, UNCHANGED breaker, clock' \in Nat, clock <= clock',
         \A t \in Sends : row[t].at >= org.resumed => row'[t].at >= org.resumed
  PROVE  FreshOK'
<1>1. /\ org' = org /\ eval' = eval /\ basis' = basis /\ raced' = raced
  BY DEF breaker
<1>2. org.resumed \in Nat /\ clock \in Nat
  BY Constants DEF Inv, MailOK, BreakerOK, OrgType
<1>3. org.resumed <= clock'
  BY <1>2 DEF FreshOK
<1>4. eval.rows \subseteq Sends /\ basis \subseteq Sends
  BY DEF Inv, BreakerOK, EvalType
<1> QED BY <1>1, <1>3, <1>4 DEF FreshOK, FreshStart

LEMMA FreshNext == Inv /\ FreshOK /\ [Next]_vars => FreshOK'
<1> SUFFICES ASSUME Inv, FreshOK, [Next]_vars PROVE FreshOK'
  OBVIOUS
<1>1. clock \in Nat /\ org.resumed \in Nat
  BY Constants DEF Inv, MailOK, BreakerOK, OrgType
<1>2. ASSUME NEW s \in Sends,
             \/ ReadBreaker(s) \/ Deduped(s) \/ RateLimited(s) \/ Submit(s)
             \/ Accept(s) \/ TransportFails(s) \/ AnswerLost(s)
      PROVE  FreshOK'
  <2>1. UNCHANGED <<clock, row, breaker>>
    BY <1>2 DEF ReadBreaker, Deduped, RateLimited, Submit, Accept, TransportFails,
               AnswerLost
  <2> QED BY <1>1, <2>1, FreshKept
<1>3. ASSUME NEW s \in Sends, LogSend(s) PROVE FreshOK'
  <2>1. /\ UNCHANGED <<clock, breaker>>
        /\ row' = row \/ row' = [row EXCEPT ![s] = [at |-> clock, marks |-> {}]]
    BY <1>3 DEF LogSend
  <2>2. \A t \in Sends : row[t].at >= org.resumed => row'[t].at >= org.resumed
    BY <2>1, RowsAge
  <2> QED BY <1>1, <2>1, <2>2, FreshKept
<1>4. ASSUME NEW s \in Sends, NEW mark \in Marks, MarkFailure(s, mark) PROVE FreshOK'
  <2>1. PICK t \in Sends : row' = [row EXCEPT ![t].marks = @ \cup {mark}]
    BY <1>4 DEF MarkFailure, LatestRows, RecentRows, Stored
  <2>2. \A u \in Sends : row'[u].at = row[u].at
    BY <2>1 DEF Inv, MailOK, RowType
  <2>3. UNCHANGED <<clock, breaker>>
    BY <1>4 DEF MarkFailure
  <2> QED BY <1>1, <2>2, <2>3, FreshKept
<1>5. CASE Restart \/ PauseFails
  <2>1. eval'.pc = "resting" /\ UNCHANGED <<clock, row, org, basis, raced>>
    BY <1>5 DEF Restart, PauseFails, Resting
  <2> QED BY <2>1 DEF FreshOK, FreshStart
<1>6. CASE Tick
  <2>1. UNCHANGED <<row, breaker>> /\ clock' \in Nat /\ clock <= clock'
    BY <1>1, <1>6 DEF Tick
  <2> QED BY <1>1, <2>1, FreshKept
<1>7. CASE ReadLog
  <2>1. eval'.rows = Rows /\ UNCHANGED <<clock, row, org, basis, raced>>
    BY <1>7 DEF ReadLog
  <2>2. Since >= org.resumed
    BY <1>1, Constants DEF Since, WindowStart
  <2>3. Since \in Int
    BY <1>1, Constants DEF Since, WindowStart
  <2>4. \A s \in Rows : row[s].at >= org.resumed
    <3>1. SUFFICES ASSUME NEW s \in Rows PROVE row[s].at >= org.resumed
      OBVIOUS
    <3>2. row[s].at \in Nat /\ row[s].at >= Since
      BY Constants DEF Rows, Stored, Inv, MailOK, RowType
    <3> QED BY <1>1, <2>2, <2>3, <3>2
  <2> QED BY <2>1, <2>4 DEF FreshOK, FreshStart
<1>8. CASE AskPaused \/ WriteAudit
  <2>1. /\ UNCHANGED <<clock, row, org, basis, raced>>
        /\ eval.pc # "resting"
        /\ eval'.pc = "resting" \/ eval'.rows = eval.rows
    BY <1>8 DEF AskPaused, WriteAudit, ThrownOut, Resting, Inv, BreakerOK, EvalType
  <2> QED BY <2>1 DEF FreshOK, FreshStart
<1>9. CASE PauseTenant
  <2>1. /\ eval.pc = "audited" /\ eval'.pc = "resting" /\ basis' = eval.rows
        /\ org'.resumed = org.resumed /\ UNCHANGED <<clock, row, raced>>
    BY <1>9 DEF PauseTenant, Resting, Inv, BreakerOK, OrgType
  <2> QED BY <2>1 DEF FreshOK, FreshStart
<1>10. CASE Resume
  <2>1. /\ org'.paused = FALSE /\ org'.resumed = clock
        /\ raced' = (raced \/ eval.pc # "resting") /\ UNCHANGED <<clock, row, eval, basis>>
    BY <1>10 DEF Resume
  <2>2. ~raced' => eval'.pc = "resting"
    BY <2>1
  <2> QED BY <1>1, <2>1, <2>2 DEF FreshOK, FreshStart
<1>11. CASE UNCHANGED vars
  BY <1>11 DEF vars, FreshOK, FreshStart
<1> QED BY <1>2, <1>3, <1>4, <1>5, <1>6, <1>7, <1>8, <1>9, <1>10, <1>11 DEF Next, Evaluate

\* No pause rests on a row of the log that was written before the last resume, unless the
\* resume fell into the evaluation: for any windows, rates and interleaving of sends,
\* failures and resumes.
THEOREM ResumesStartAfresh == Spec => []FreshStart
<1>1. Init => FreshOK
  BY DEF Init, Resting, FreshOK, FreshStart
<1>2. FreshOK => FreshStart
  BY DEF FreshOK
<1> QED BY <1>1, <1>2, InitInv, NextInv, FreshNext, PTL DEF Spec

-----------------------------------------------------------------------------
FreshIn(S) == {s \in S : Fresh(s, CapWindow)}

\* The places under the cap that are taken, by a mail that was counted or will be.
InUse == FreshIn(Left) \cup InFlight

\* Every mail that was answered has been counted, and each place beyond the cap was taken
\* while another mail was in flight.
CountOK ==
    /\ overlaps = 0 => \A s, t \in InFlight : s = t
    /\ ~forgotten => Left \subseteq hits /\ Cardinality(InUse) <= Cap + overlaps

LEMMA Subset ==
  ASSUME NEW A \in SUBSET Sends, NEW B \in SUBSET A
  PROVE  /\ Cardinality(A) \in Nat /\ Cardinality(B) \in Nat
         /\ Cardinality(B) <= Cardinality(A)
<1>1. IsFiniteSet(A)
  BY EmailConstants, FS_Subset
<1>2. IsFiniteSet(B) /\ Cardinality(B) <= Cardinality(A)
  BY <1>1, FS_Subset
<1> QED BY <1>1, <1>2, FS_CardinalityType

LEMMA OneMore ==
  ASSUME NEW A \in SUBSET Sends, NEW s \in Sends
  PROVE  /\ Cardinality(A) \in Nat /\ Cardinality(A \cup {s}) \in Nat
         /\ Cardinality(A \cup {s}) <= Cardinality(A) + 1
<1>1. IsFiniteSet(A)
  BY EmailConstants, FS_Subset
<1>2. Cardinality(A) \in Nat
  BY <1>1, FS_CardinalityType
<1>3. Cardinality(A \cup {s}) = IF s \in A THEN Cardinality(A) ELSE Cardinality(A) + 1
  BY <1>1, FS_AddElement
<1> QED BY <1>2, <1>3

LEMMA InUseType == InUse \in SUBSET Sends
  BY DEF InUse, FreshIn, Left, InFlight

\* A step that takes no further place.
LEMMA NoPlaceTaken ==
  ASSUME Inv, Inv', CountOK, UNCHANGED ghosts,
         ~forgotten => Left' \subseteq hits',
         InFlight' \subseteq InFlight, InUse' \subseteq InUse
  PROVE  CountOK'
<1>1. /\ Cardinality(InUse) \in Nat /\ Cardinality(InUse') \in Nat
      /\ Cardinality(InUse') <= Cardinality(InUse)
  BY InUseType, Subset
<1>2. Cap \in Nat /\ overlaps \in Nat /\ overlaps' = overlaps /\ forgotten' = forgotten
  BY Constants DEF Inv, MailOK, ghosts
<1> QED BY <1>1, <1>2 DEF CountOK

\* A step after which no more mails are in flight or were answered, and none later.
LEMMA CountKept ==
  ASSUME Inv, Inv', CountOK, UNCHANGED <<hits, ghosts>>, clock <= clock',
         Left' \subseteq Left, InFlight' \subseteq InFlight,
         \A t \in Left : mail'[t].left = mail[t].left
  PROVE  CountOK'
<1>1. FreshIn(Left)' \subseteq FreshIn(Left)
  <2>1. \A t \in Left : /\ mail[t].left \in Nat /\ mail'[t].left = mail[t].left
    BY Constants DEF Left, Inv, MailOK, MailType
  <2>2. clock \in Nat /\ clock' \in Nat /\ CapWindow \in Nat
    BY Constants DEF Inv, MailOK
  <2>3. \A t \in Left : mail[t].left >= clock' - CapWindow => mail[t].left >= clock - CapWindow
    BY <2>1, <2>2
  <2> QED BY <2>1, <2>3 DEF FreshIn, Fresh
<1>2. ~forgotten => Left' \subseteq hits'
  BY DEF CountOK
<1> QED BY <1>1, <1>2, NoPlaceTaken DEF InUse

\* The first place is taken under the cap, a further one at the cost of an overlap.
LEMMA CountSubmit ==
  ASSUME Inv, Inv', CountOK, NEW s \in Sends, Submit(s) PROVE CountOK'
<1>1. /\ mail[s].pc = "open" /\ Cardinality(Counted) < Cap
      /\ mail' = [mail EXCEPT ![s] = [pc |-> "sending", left |-> clock]]
      /\ overlaps' = IF InFlight # {} THEN overlaps + 1 ELSE overlaps
      /\ UNCHANGED <<clock, hits, forgotten>>
  BY DEF Submit, memory
<1>2. /\ mail'[s].pc = "sending" /\ \A t \in Sends : t # s => mail'[t] = mail[t]
  BY <1>1 DEF Inv, MailOK
<1>3. Left' = Left /\ InFlight' = InFlight \cup {s} /\ \A t \in Left : mail'[t] = mail[t]
  BY <1>1, <1>2 DEF Left, InFlight
<1>4. FreshIn(Left)' = FreshIn(Left)
  BY <1>1, <1>3 DEF FreshIn, Fresh
<1>5. InUse' = InUse \cup {s}
  BY <1>3, <1>4 DEF InUse
<1>6. overlaps \in Nat /\ Cap \in Nat
  BY Constants DEF Inv, MailOK
<1>7. overlaps' = 0 => \A t, u \in InFlight' : t = u
  BY <1>1, <1>3, <1>6
<1>8. ASSUME ~forgotten PROVE Left' \subseteq hits' /\ Cardinality(InUse') <= Cap + overlaps'
  <2>1. Left \subseteq hits /\ Cardinality(InUse) <= Cap + overlaps
    BY <1>8 DEF CountOK
  <2>3. /\ Cardinality(InUse) \in Nat /\ Cardinality(InUse') \in Nat
        /\ Cardinality(InUse') <= Cardinality(InUse) + 1
    BY <1>5, InUseType, OneMore
  <2>4. CASE InFlight # {}
    BY <1>1, <1>3, <1>6, <2>1, <2>3, <2>4
  <2>5. CASE InFlight = {}
    <3>1. InUse \subseteq Counted /\ Counted \in SUBSET Sends
      BY <2>1, <2>5 DEF InUse, FreshIn, Counted, Inv, MailOK
    <3>2. Cardinality(Counted) \in Nat /\ Cardinality(InUse) <= Cardinality(Counted)
      BY <3>1, Subset
    <3> QED BY <1>1, <1>3, <1>6, <2>1, <2>3, <2>5, <3>2
  <2> QED BY <2>4, <2>5
<1> QED BY <1>1, <1>7, <1>8 DEF CountOK

LEMMA CountAccept ==
  ASSUME Inv, Inv', CountOK, NEW s \in Sends, Accept(s) PROVE CountOK'
<1>1. /\ mail[s].pc = "sending" /\ UNCHANGED <<clock, ghosts>>
      /\ mail' = [mail EXCEPT ![s] = [pc |-> "left", left |-> clock]]
      /\ hits' = hits \cup {s}
  BY DEF Accept, RecordedOnAccept
<1>2. mail'[s].pc = "left" /\ \A t \in Sends : t # s => mail'[t] = mail[t]
  BY <1>1 DEF Inv, MailOK
<1>3. Left' = Left \cup {s} /\ s \in InFlight /\ InFlight' \subseteq InFlight
  BY <1>1, <1>2 DEF Left, InFlight
<1>4. ~forgotten => Left' \subseteq hits'
  BY <1>1, <1>3 DEF CountOK
<1>5. FreshIn(Left)' \subseteq FreshIn(Left) \cup {s}
  BY <1>1, <1>2, <1>3 DEF FreshIn, Fresh, Left
<1> QED BY <1>1, <1>3, <1>4, <1>5, NoPlaceTaken DEF InUse

LEMMA CountNext == Inv /\ CountOK /\ Inv' /\ [Next]_vars => CountOK'
<1> SUFFICES ASSUME Inv, CountOK, Inv', [Next]_vars PROVE CountOK'
  OBVIOUS
<1>1. clock \in Nat /\ clock' \in Nat
  BY Constants DEF Inv, MailOK
<1>2. ASSUME NEW s \in Sends,
             ReadBreaker(s) \/ Deduped(s) \/ RateLimited(s) \/ TransportFails(s) \/ LogSend(s)
      PROVE  CountOK'
  <2>1. PICK pc \in {"open", "refused", "limited", "failed", "answered"} : Goto(s, pc)
    BY <1>2 DEF ReadBreaker, Deduped, RateLimited, TransportFails, LogSend
  <2>2. UNCHANGED <<clock, hits, ghosts>>
    BY <1>2 DEF ReadBreaker, Deduped, RateLimited, TransportFails, LogSend, memory
  <2>3. \/ mail[s].pc = "left" /\ mail'[s].pc = "answered"
        \/ /\ mail[s].pc \in {"new", "open", "sending"}
           /\ mail'[s].pc \in {"open", "refused", "limited", "failed"}
    BY <1>2, GotoType DEF ReadBreaker, Deduped, RateLimited, TransportFails, LogSend
  <2>4. mail'[s].left = mail[s].left /\ \A t \in Sends : t # s => mail'[t] = mail[t]
    BY <2>1, GotoType
  <2>5. Left' \subseteq Left /\ InFlight' \subseteq InFlight
    BY <2>3, <2>4 DEF Left, InFlight
  <2>6. \A t \in Left : mail'[t].left = mail[t].left
    BY <2>4 DEF Left
  <2> QED BY <1>1, <2>2, <2>5, <2>6, CountKept
<1>3. ASSUME NEW s \in Sends, AnswerLost(s) PROVE CountOK'
  <2>1. /\ mail[s].pc = "sending" /\ UNCHANGED <<clock, hits, ghosts>>
        /\ mail' = [mail EXCEPT ![s] = [pc |-> "lost", left |-> clock]]
    BY <1>3 DEF AnswerLost, memory
  <2>2. mail'[s].pc = "lost" /\ \A t \in Sends : t # s => mail'[t] = mail[t]
    BY <2>1 DEF Inv, MailOK
  <2>3. Left' = Left /\ InFlight' \subseteq InFlight /\ \A t \in Left : mail'[t] = mail[t]
    BY <2>1, <2>2 DEF Left, InFlight
  <2> QED BY <1>1, <2>1, <2>3, CountKept
<1>4. CASE Restart
  <2>1. PICK taken \in SUBSET InFlight :
           mail' = [s \in Sends |->
                       IF s \in taken THEN [pc |-> "lost", left |-> clock]
                       ELSE [mail[s] EXCEPT !.pc =
                               CASE @ \in {"open", "sending"} -> "failed"
                                 [] @ = "left" -> "answered"
                                 [] OTHER -> @]]
    BY <1>4 DEF Restart
  <2>2. \A s \in Sends : mail'[s].pc # "sending"
    BY <2>1 DEF Inv, MailOK, MailType
  <2>3. InFlight' = {} /\ forgotten' = TRUE
    BY <1>4, <2>2 DEF InFlight, Restart
  <2> QED BY <2>3 DEF CountOK
<1>5. ASSUME UNCHANGED <<mail, hits, ghosts>>, clock <= clock' PROVE CountOK'
  <2>1. Left' = Left /\ InFlight' = InFlight
    BY <1>5 DEF Left, InFlight
  <2> QED BY <1>5, <2>1, CountKept
<1>6. CASE Evaluate \/ PauseFails \/ Resume \/ UNCHANGED vars
  <2>1. UNCHANGED <<clock, mail, hits, ghosts>>
    BY <1>6 DEF Evaluate, ReadLog, AskPaused, WriteAudit, PauseTenant, PauseFails, Resume,
               memory, ghosts, vars
  <2> QED BY <1>1, <1>5, <2>1
<1>7. CASE Tick \/ \E s \in Sends, mark \in Marks : MarkFailure(s, mark)
  <2>1. UNCHANGED <<mail, hits, ghosts>> /\ (clock' = clock \/ clock' = clock + 1)
    BY <1>7 DEF Tick, MarkFailure, memory
  <2> QED BY <1>1, <1>5, <2>1
<1> QED BY <1>2, <1>3, <1>4, <1>6, <1>7, CountSubmit, CountAccept DEF Next

\* However many calls are in flight at once and however many answers are lost, each mail
\* beyond the cap is paid for by one of these: for any cap and window, as long as the
\* process does not restart (check before the transport, record after its answer).
THEOREM CapIsKept == Spec => []CapHolds
<1>1. Init => CountOK
  <2> SUFFICES ASSUME Init PROVE CountOK
    OBVIOUS
  <2>1. \A s \in Sends : mail[s].pc = "new"
    BY DEF Init, Unsent
  <2>2. Left = {} /\ InFlight = {} /\ overlaps = 0
    BY <2>1 DEF Left, InFlight, Init
  <2>3. InUse = {}
    BY <2>2 DEF InUse, FreshIn
  <2> QED BY <2>2, <2>3, FS_EmptySet, Constants DEF CountOK
<1>2. Inv /\ CountOK => CapHolds
  <2> SUFFICES ASSUME Inv, CountOK, ~forgotten
               PROVE  Cardinality(FreshIn(Gone)) <= Cap + overlaps + Cardinality(FreshIn(Lost))
    BY DEF CapHolds, FreshIn
  <2>1. FreshIn(Gone) = FreshIn(Left) \cup FreshIn(Lost)
    BY DEF FreshIn, Gone
  <2>2. FreshIn(Left) \in SUBSET InUse /\ FreshIn(Lost) \in SUBSET Sends
    BY DEF FreshIn, InUse, Lost
  <2>3. /\ Cardinality(InUse) \in Nat /\ Cardinality(FreshIn(Left)) \in Nat
        /\ Cardinality(FreshIn(Left)) <= Cardinality(InUse)
    BY <2>2, InUseType, Subset
  <2>4. IsFiniteSet(FreshIn(Left)) /\ IsFiniteSet(FreshIn(Lost))
    <3>1. FreshIn(Left) \subseteq Sends
      BY <2>2, InUseType
    <3> QED BY <2>2, <3>1, EmailConstants, FS_Subset
  <2>5. Cardinality(FreshIn(Lost)) \in Nat
    BY <2>4, FS_CardinalityType
  <2>6. Cardinality(FreshIn(Gone)) <= Cardinality(FreshIn(Left)) + Cardinality(FreshIn(Lost))
    <3>1. Cardinality(FreshIn(Gone))
             = Cardinality(FreshIn(Left)) + Cardinality(FreshIn(Lost))
                 - Cardinality(FreshIn(Left) \cap FreshIn(Lost))
      BY <2>1, <2>4, FS_Union
    <3>2. Cardinality(FreshIn(Left) \cap FreshIn(Lost)) \in Nat
      BY <2>4, FS_Intersection, FS_CardinalityType
    <3> QED BY <2>3, <2>5, <3>1, <3>2
  <2>7. Cardinality(InUse) <= Cap + overlaps /\ Cap \in Nat /\ overlaps \in Nat
    BY Constants DEF CountOK, Inv, MailOK
  <2>8. Cardinality(FreshIn(Gone)) \in Int
    <3>1. FreshIn(Gone) \subseteq Sends
      BY DEF FreshIn, Gone, Left, Lost
    <3>2. IsFiniteSet(FreshIn(Gone))
      BY <3>1, EmailConstants, FS_Subset
    <3> QED BY <3>2, FS_CardinalityType
  <2> QED BY <2>3, <2>5, <2>6, <2>7, <2>8
<1> QED BY <1>1, <1>2, InitInv, NextInv, CountNext, PTL DEF Spec

-----------------------------------------------------------------------------
KeyedLeft == Keyed \cap Left

\* A mail whose answer arrived, and any other mail with its key.
ApartOrLost ==
    \A s \in KeyedLeft, t \in Keyed \cap Gone :
       s # t => Apart(s, t) \/ Apart(t, s) \/ LostBefore(t, s)

\* The store knows the key until the window of the last answered mail has passed, a keyed
\* mail is in flight only after that, and no mail was lost in the future.
KeyOK ==
    overlaps = 0 /\ ~forgotten =>
        /\ \A s \in KeyedLeft : mail[s].left + DedupWindow <= dedup
        /\ \A s \in Keyed \cap InFlight : dedup <= clock
        /\ \A s \in Lost : mail[s].left <= clock
        /\ ApartOrLost

\* The mails that matter are those that were there, and left when they did.
LEMMA SameMails ==
  ASSUME ApartOrLost, Left' \subseteq Left, Lost' = Lost,
         \A t \in Gone : mail'[t].left = mail[t].left
  PROVE  ApartOrLost'
<1>1. KeyedLeft' \subseteq KeyedLeft /\ Gone' \subseteq Gone /\ KeyedLeft \subseteq Gone
  BY DEF KeyedLeft, Gone
<1> SUFFICES ASSUME NEW s \in KeyedLeft', NEW t \in Keyed \cap Gone', s # t
             PROVE  Apart(s, t)' \/ Apart(t, s)' \/ LostBefore(t, s)'
  BY DEF ApartOrLost
<1>2. /\ s \in KeyedLeft /\ t \in Keyed \cap Gone
      /\ mail'[s].left = mail[s].left /\ mail'[t].left = mail[t].left
  BY <1>1
<1>3. Apart(s, t) \/ Apart(t, s) \/ LostBefore(t, s)
  BY <1>2 DEF ApartOrLost
<1> QED BY <1>2, <1>3 DEF Apart, LostBefore

\* A step after which no more mails are in flight or were answered, and none later.
LEMMA KeyKept ==
  ASSUME Inv, Inv', KeyOK, UNCHANGED <<dedup, ghosts>>, clock <= clock',
         Left' \subseteq Left, Lost' = Lost, InFlight' \subseteq InFlight,
         \A t \in Gone : mail'[t].left = mail[t].left
  PROVE  KeyOK'
<1> SUFFICES ASSUME overlaps' = 0 /\ ~forgotten' PROVE KeyOK'
  BY DEF KeyOK
<1>1. /\ \A s \in KeyedLeft : mail[s].left + DedupWindow <= dedup
      /\ \A s \in Keyed \cap InFlight : dedup <= clock
      /\ \A s \in Lost : mail[s].left <= clock
      /\ ApartOrLost
  BY DEF KeyOK, ghosts
<1>2. clock \in Nat /\ clock' \in Nat /\ dedup \in Nat
  BY Constants DEF Inv, MailOK
<1>3. \A s \in Lost : mail[s].left \in Nat
  BY Constants DEF Lost, Inv, MailOK, MailType
<1>4. KeyedLeft' \subseteq KeyedLeft /\ KeyedLeft \subseteq Gone /\ Lost \subseteq Gone
  BY DEF KeyedLeft, Gone
<1>5. \A s \in KeyedLeft' : mail'[s].left + DedupWindow <= dedup'
  BY <1>1, <1>4
<1>6. \A s \in Keyed \cap InFlight' : dedup' <= clock'
  BY <1>1, <1>2
<1>7. \A s \in Lost' : mail'[s].left <= clock'
  BY <1>1, <1>2, <1>3, <1>4
<1> QED BY <1>1, <1>5, <1>6, <1>7, SameMails DEF KeyOK

\* The mail in flight leaves after the window of every mail that was answered, and later
\* than every mail that was lost; it is answered or lost itself.
LEMMA KeyLeaves ==
  ASSUME Inv, Inv', CountOK, KeyOK, NEW s \in Sends, overlaps' = 0 /\ ~forgotten',
         Accept(s) \/ AnswerLost(s)
  PROVE  /\ InFlight' = {} /\ clock' = clock
         /\ mail'[s].left = clock /\ \A t \in Sends : t # s => mail'[t] = mail[t]
         /\ s \notin Gone /\ Gone' = Gone \cup {s}
         /\ \A t \in Lost : mail[t].left <= clock
         /\ s \in Keyed => \A t \in KeyedLeft : mail[t].left + DedupWindow <= clock
         /\ s \in Keyed => dedup <= clock
         /\ \A t \in KeyedLeft : mail[t].left + DedupWindow <= dedup
         /\ ApartOrLost
<1>1. /\ mail[s].pc = "sending" /\ overlaps = 0 /\ ~forgotten /\ clock' = clock
      /\ \/ mail' = [mail EXCEPT ![s] = [pc |-> "left", left |-> clock]]
         \/ mail' = [mail EXCEPT ![s] = [pc |-> "lost", left |-> clock]]
  BY DEF Accept, AnswerLost, ghosts
<1>2. /\ mail'[s].left = clock /\ mail'[s].pc \in {"left", "lost"}
      /\ \A t \in Sends : t # s => mail'[t] = mail[t]
  BY <1>1 DEF Inv, MailOK
<1>3. s \in InFlight /\ \A t \in InFlight : t = s
  BY <1>1 DEF CountOK, InFlight
<1>4. InFlight' = {}
  BY <1>2, <1>3 DEF InFlight
<1>5. s \notin Gone /\ Gone' = Gone \cup {s}
  BY <1>1, <1>2 DEF Gone, Left, Lost
<1>6. /\ \A t \in KeyedLeft : mail[t].left + DedupWindow <= dedup
      /\ s \in Keyed => dedup <= clock
      /\ \A t \in Lost : mail[t].left <= clock
      /\ ApartOrLost
  BY <1>1, <1>3 DEF KeyOK
<1>7. s \in Keyed => \A t \in KeyedLeft : mail[t].left + DedupWindow <= clock
  <2>1. clock \in Nat /\ dedup \in Nat /\ DedupWindow \in Nat
    BY Constants DEF Inv, MailOK
  <2>2. \A t \in KeyedLeft : mail[t].left \in Nat
    BY Constants DEF KeyedLeft, Left, Inv, MailOK, MailType
  <2> QED BY <1>6, <2>1, <2>2
<1> QED BY <1>1, <1>2, <1>4, <1>5, <1>6, <1>7

LEMMA KeyAccept ==
  ASSUME Inv, Inv', CountOK, KeyOK, NEW s \in Sends, Accept(s) PROVE KeyOK'
<1> SUFFICES ASSUME overlaps' = 0 /\ ~forgotten' PROVE KeyOK'
  BY DEF KeyOK
<1>1. /\ mail'[s].pc = "left"
      /\ dedup' = IF s \in Keyed THEN clock + DedupWindow ELSE dedup
  BY DEF Accept, Inv, MailOK
<1>2. /\ InFlight' = {} /\ clock' = clock
      /\ mail'[s].left = clock /\ \A t \in Sends : t # s => mail'[t] = mail[t]
      /\ s \notin Gone /\ Gone' = Gone \cup {s}
      /\ \A t \in Lost : mail[t].left <= clock
      /\ s \in Keyed => \A t \in KeyedLeft : mail[t].left + DedupWindow <= clock
      /\ s \in Keyed => dedup <= clock
      /\ \A t \in KeyedLeft : mail[t].left + DedupWindow <= dedup
      /\ ApartOrLost
  BY KeyLeaves
<1>3. /\ Left' = Left \cup {s} /\ Lost' = Lost /\ Gone \subseteq Sends
      /\ \A t \in Gone : t # s /\ mail'[t] = mail[t]
  BY <1>1, <1>2 DEF Left, Lost, Gone
<1>4. KeyedLeft' = KeyedLeft \cup (Keyed \cap {s}) /\ KeyedLeft \subseteq Gone /\ Lost \subseteq Gone
  BY <1>3 DEF KeyedLeft, Gone
<1>5. clock \in Nat /\ dedup \in Nat /\ DedupWindow \in Nat
  BY Constants DEF Inv, MailOK
<1>6. \A t \in KeyedLeft' : mail'[t].left + DedupWindow <= dedup'
  <2>1. \A t \in KeyedLeft : mail[t].left \in Nat
    BY Constants DEF KeyedLeft, Left, Inv, MailOK, MailType
  <2>2. CASE s \in Keyed
    <3>1. \A t \in KeyedLeft : mail'[t].left + DedupWindow <= clock + DedupWindow
      BY <1>2, <1>3, <1>4, <1>5, <2>1, <2>2
    <3> QED BY <1>1, <1>2, <1>4, <1>5, <2>2, <3>1
  <2>3. CASE s \notin Keyed
    BY <1>1, <1>2, <1>3, <1>4, <2>3
  <2> QED BY <2>2, <2>3
<1>7. \A t \in Lost' : mail'[t].left <= clock'
  BY <1>2, <1>3, <1>4
<1>8. ApartOrLost'
  <2> SUFFICES ASSUME NEW t \in KeyedLeft', NEW u \in Keyed \cap Gone', t # u
               PROVE  Apart(t, u)' \/ Apart(u, t)' \/ LostBefore(u, t)'
    BY DEF ApartOrLost
  <2>1. CASE t = s
    <3>1. u \in Keyed \cap Gone /\ s \in Keyed
      BY <1>2, <1>4, <2>1
    <3>2. mail'[u] = mail[u] /\ (u \in KeyedLeft \/ u \in Lost)
      BY <1>3, <3>1 DEF KeyedLeft, Gone
    <3> QED BY <1>2, <1>3, <2>1, <3>1, <3>2 DEF Apart, LostBefore
  <2>2. CASE u = s
    <3>1. t \in KeyedLeft /\ s \in Keyed
      BY <1>4, <2>2
    <3> QED BY <1>2, <1>3, <1>4, <2>2, <3>1 DEF Apart
  <2>3. CASE t # s /\ u # s
    <3>1. t \in KeyedLeft /\ u \in Keyed \cap Gone /\ mail'[t] = mail[t] /\ mail'[u] = mail[u]
      BY <1>2, <1>3, <1>4, <2>3
    <3>2. Apart(t, u) \/ Apart(u, t) \/ LostBefore(u, t)
      BY <1>2, <3>1 DEF ApartOrLost
    <3> QED BY <1>3, <3>1, <3>2 DEF Apart, LostBefore
  <2> QED BY <2>1, <2>2, <2>3
<1> QED BY <1>2, <1>6, <1>7, <1>8 DEF KeyOK

LEMMA KeyAnswerLost ==
  ASSUME Inv, Inv', CountOK, KeyOK, NEW s \in Sends, AnswerLost(s) PROVE KeyOK'
<1> SUFFICES ASSUME overlaps' = 0 /\ ~forgotten' PROVE KeyOK'
  BY DEF KeyOK
<1>1. mail'[s].pc = "lost" /\ dedup' = dedup
  BY DEF AnswerLost, memory, Inv, MailOK
<1>2. /\ InFlight' = {} /\ clock' = clock
      /\ mail'[s].left = clock /\ \A t \in Sends : t # s => mail'[t] = mail[t]
      /\ s \notin Gone /\ Gone' = Gone \cup {s}
      /\ \A t \in Lost : mail[t].left <= clock
      /\ s \in Keyed => \A t \in KeyedLeft : mail[t].left + DedupWindow <= clock
      /\ \A t \in KeyedLeft : mail[t].left + DedupWindow <= dedup
      /\ ApartOrLost
  BY KeyLeaves
<1>3. /\ Left' = Left /\ Lost' = Lost \cup {s}
      /\ \A t \in Gone : t # s /\ mail'[t] = mail[t]
  BY <1>1, <1>2 DEF Left, Lost, Gone
<1>4. KeyedLeft' = KeyedLeft /\ KeyedLeft \subseteq Gone /\ Lost \subseteq Gone
  BY <1>3 DEF KeyedLeft, Gone
<1>5. \A t \in KeyedLeft' : mail'[t].left + DedupWindow <= dedup'
  BY <1>1, <1>2, <1>3, <1>4
<1>6. \A t \in Lost' : mail'[t].left <= clock'
  <2>1. clock \in Nat
    BY Constants DEF Inv, MailOK
  <2> QED BY <1>2, <1>3, <1>4, <2>1
<1>7. ApartOrLost'
  <2> SUFFICES ASSUME NEW t \in KeyedLeft', NEW u \in Keyed \cap Gone', t # u
               PROVE  Apart(t, u)' \/ Apart(u, t)' \/ LostBefore(u, t)'
    BY DEF ApartOrLost
  <2>1. t \in KeyedLeft /\ mail'[t] = mail[t]
    BY <1>3, <1>4
  <2>2. CASE u = s
    BY <1>2, <2>1, <2>2 DEF Apart
  <2>3. CASE u # s
    <3>1. u \in Keyed \cap Gone /\ mail'[u] = mail[u]
      BY <1>2, <1>3, <2>3
    <3>2. Apart(t, u) \/ Apart(u, t) \/ LostBefore(u, t)
      BY <1>2, <2>1, <3>1 DEF ApartOrLost
    <3> QED BY <1>3, <2>1, <3>1, <3>2 DEF Apart, LostBefore
  <2> QED BY <2>2, <2>3
<1> QED BY <1>2, <1>5, <1>6, <1>7 DEF KeyOK

\* A mail is submitted when none is in flight and the store does not know its key.
LEMMA KeySubmit ==
  ASSUME Inv, Inv', KeyOK, NEW s \in Sends, Submit(s) PROVE KeyOK'
<1> SUFFICES ASSUME overlaps' = 0 /\ ~forgotten' PROVE KeyOK'
  BY DEF KeyOK
<1>1. /\ mail[s].pc = "open" /\ ~KnownKey(s)
      /\ mail' = [mail EXCEPT ![s] = [pc |-> "sending", left |-> clock]]
      /\ UNCHANGED <<clock, dedup, forgotten>>
      /\ overlaps' = IF InFlight # {} THEN overlaps + 1 ELSE overlaps
  BY DEF Submit, memory
<1>2. clock \in Nat /\ dedup \in Nat /\ overlaps \in Nat
  BY Constants DEF Inv, MailOK
<1>3. InFlight = {} /\ overlaps = 0 /\ ~forgotten
  BY <1>1, <1>2
<1>4. /\ \A t \in KeyedLeft : mail[t].left + DedupWindow <= dedup
      /\ \A t \in Lost : mail[t].left <= clock
      /\ ApartOrLost
  BY <1>3 DEF KeyOK
<1>5. mail'[s].pc = "sending" /\ \A t \in Sends : t # s => mail'[t] = mail[t]
  BY <1>1 DEF Inv, MailOK
<1>6. /\ Left' = Left /\ Lost' = Lost /\ InFlight' = {s}
      /\ \A t \in Gone : mail'[t] = mail[t]
  BY <1>1, <1>3, <1>5 DEF Left, Lost, Gone, InFlight
<1>7. KeyedLeft' = KeyedLeft /\ KeyedLeft \subseteq Gone /\ Lost \subseteq Gone
  BY <1>6 DEF KeyedLeft, Gone
<1>8. \A t \in Keyed \cap InFlight' : dedup' <= clock'
  BY <1>1, <1>2, <1>6 DEF KnownKey
<1>9. ApartOrLost'
  BY <1>4, <1>6, SameMails
<1> QED BY <1>1, <1>4, <1>6, <1>7, <1>8, <1>9 DEF KeyOK

LEMMA KeyNext == Inv /\ CountOK /\ KeyOK /\ Inv' /\ [Next]_vars => KeyOK'
<1> SUFFICES ASSUME Inv, CountOK, KeyOK, Inv', [Next]_vars PROVE KeyOK'
  OBVIOUS
<1>1. clock \in Nat /\ clock' \in Nat
  BY Constants DEF Inv, MailOK
<1>2. ASSUME NEW s \in Sends,
             ReadBreaker(s) \/ Deduped(s) \/ RateLimited(s) \/ TransportFails(s) \/ LogSend(s)
      PROVE  KeyOK'
  <2>1. PICK pc \in {"open", "refused", "limited", "failed", "answered"} : Goto(s, pc)
    BY <1>2 DEF ReadBreaker, Deduped, RateLimited, TransportFails, LogSend
  <2>2. UNCHANGED <<clock, dedup, ghosts>>
    BY <1>2 DEF ReadBreaker, Deduped, RateLimited, TransportFails, LogSend, memory
  <2>3. \/ mail[s].pc = "left" /\ mail'[s].pc = "answered"
        \/ /\ mail[s].pc \in {"new", "open", "sending"}
           /\ mail'[s].pc \in {"open", "refused", "limited", "failed"}
    BY <1>2, GotoType DEF ReadBreaker, Deduped, RateLimited, TransportFails, LogSend
  <2>4. mail'[s].left = mail[s].left /\ \A t \in Sends : t # s => mail'[t] = mail[t]
    BY <2>1, GotoType
  <2>5. Left' \subseteq Left /\ Lost' = Lost /\ InFlight' \subseteq InFlight
    BY <2>3, <2>4 DEF Left, Lost, InFlight
  <2>6. \A t \in Gone : mail'[t].left = mail[t].left
    BY <2>4 DEF Gone, Left, Lost
  <2> QED BY <1>1, <2>2, <2>5, <2>6, KeyKept
<1>3. CASE Restart
  BY <1>3 DEF Restart, KeyOK
<1>4. ASSUME UNCHANGED <<mail, dedup, ghosts>>, clock <= clock' PROVE KeyOK'
  <2>1. Left' = Left /\ Lost' = Lost /\ InFlight' = InFlight
    BY <1>4 DEF Left, Lost, InFlight
  <2> QED BY <1>4, <2>1, KeyKept
<1>5. CASE Evaluate \/ PauseFails \/ Resume \/ UNCHANGED vars
  <2>1. UNCHANGED <<clock, mail, dedup, ghosts>>
    BY <1>5 DEF Evaluate, ReadLog, AskPaused, WriteAudit, PauseTenant, PauseFails, Resume,
               memory, ghosts, vars
  <2> QED BY <1>1, <1>4, <2>1
<1>6. CASE Tick \/ \E s \in Sends, mark \in Marks : MarkFailure(s, mark)
  <2>1. UNCHANGED <<mail, dedup, ghosts>> /\ (clock' = clock \/ clock' = clock + 1)
    BY <1>6 DEF Tick, MarkFailure, memory
  <2> QED BY <1>1, <1>4, <2>1
<1> QED BY <1>2, <1>3, <1>5, <1>6, KeySubmit, KeyAccept, KeyAnswerLost DEF Next

\* As long as no two mails are in flight at once and the process does not restart, a mail
\* is repeated within the window of its key only after a lost answer: the dedup store
\* fails its callers in no other way, for any calls, cap and windows (check before the
\* transport, set after its answer).
THEOREM KeysKeptApart == Spec => []KeyRepeatedOnLoss
<1>1. Init => CountOK /\ KeyOK
  <2> SUFFICES ASSUME Init PROVE CountOK /\ KeyOK
    OBVIOUS
  <2>1. \A s \in Sends : mail[s].pc = "new"
    BY DEF Init, Unsent
  <2>2. Left = {} /\ Lost = {} /\ InFlight = {} /\ overlaps = 0
    BY <2>1 DEF Left, Lost, InFlight, Init
  <2>3. InUse = {} /\ KeyedLeft = {}
    BY <2>2 DEF InUse, FreshIn, KeyedLeft
  <2> QED BY <2>2, <2>3, FS_EmptySet, Constants DEF CountOK, KeyOK, ApartOrLost
<1>2. Inv /\ KeyOK => KeyRepeatedOnLoss
  <2> SUFFICES ASSUME Inv, KeyOK, overlaps = 0 /\ ~forgotten,
                      NEW s \in Keyed \cap Gone, NEW t \in Keyed \cap Gone, s # t
               PROVE  Apart(s, t) \/ Apart(t, s) \/ LostBefore(s, t) \/ LostBefore(t, s)
    BY DEF KeyRepeatedOnLoss
  <2>1. ApartOrLost
    BY DEF KeyOK
  <2>2. CASE s \in KeyedLeft \/ t \in KeyedLeft
    BY <2>1, <2>2 DEF ApartOrLost
  <2>3. CASE s \in Lost /\ t \in Lost
    <3>1. mail[s].left \in Nat /\ mail[t].left \in Nat
      BY <2>3, Constants DEF Lost, Inv, MailOK, MailType
    <3> QED BY <2>3, <3>1 DEF LostBefore
  <2> QED BY <2>2, <2>3 DEF KeyedLeft, Gone
<1> QED BY <1>1, <1>2, InitInv, NextInv, CountNext, KeyNext, PTL DEF Spec

=============================================================================
