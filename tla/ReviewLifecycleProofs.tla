----------------------- MODULE ReviewLifecycleProofs -----------------------
(***************************************************************************)
(* Proofs about ReviewLifecycle for every value of its constants.          *)
(***************************************************************************)
EXTENDS ReviewLifecycle, TLAPS

\* What a handler carries from one statement to the next is fit for the next:
\* a loaded request holds an action, a committed one a decision, a tick about to
\* promote a rung that has a successor.
CarriedOK ==
    /\ \A r \in Requests :
         /\ req[r].pc = "loaded" => req[r].action \in Preset \cup Custom
         /\ req[r].pc = "committed" => req[r].decision # "none"
    /\ \A w \in Workers :
         /\ worker[w].pc = "claimed" /\ worker[w].sweep = "ladder" =>
              worker[w].rung < MaxLadder
         /\ worker[w].pc = "committed" => worker[w].outcome # "none"

TypeInv == TypeOK /\ CarriedOK

\* The configuration tables map action ids into the sets they should.
LEMMA KindType == \A a \in Preset \cup Custom :
         Kind[a] = "decision" => a \in {"approve", "reject", "reject_from_iteration"}
  BY DEF Kind, Preset, Custom

LEMMA DecisionValueType ==
         \A a \in {"approve", "reject", "reject_from_iteration"} :
             DecisionValue[a] \in {"approved", "rejected"}
  BY DEF DecisionValue

LEMMA AbsentType == Absent \in ReviewType
  BY ConstantsAssumption DEF Absent, ReviewType, Status, TimeoutAction, Decision, Decider

LEMMA IdleType == IdleRequest \in RequestType /\ IdleWorker \in WorkerType
  BY ConstantsAssumption
  DEF IdleRequest, RequestType, IdleWorker, WorkerType, Preset, Custom, Status,
      Decision, TimeoutAction, Outcome

LEMMA InitTypeInv == Init => TypeInv
<1> SUFFICES ASSUME Init PROVE TypeInv
  OBVIOUS
<1>1. TypeOK
  <2>1. review \in ReviewType /\ due \in BOOLEAN
    BY AbsentType DEF Init
  <2>2. req \in [Requests -> RequestType] /\ worker \in [Workers -> WorkerType]
    BY IdleType DEF Init
  <2>3. snoozes \in 0..MaxSnoozes /\ faults \in 0..MaxFaults
    BY ConstantsAssumption DEF Init
  <2> QED BY <2>1, <2>2, <2>3 DEF Init, TypeOK
<1>2. CarriedOK
  BY DEF Init, CarriedOK, IdleRequest, IdleWorker
<1> QED BY <1>1, <1>2 DEF TypeInv

LEMMA CreateStepType ==
  ASSUME TypeInv, CreateStep PROVE TypeInv'
<1>1. ASSUME NEW oversight \in {"blocking", "monitoring"}, NEW expires \in BOOLEAN,
             NEW auto \in BOOLEAN, NEW action \in TimeoutAction,
             Create(oversight, expires, action, auto)
      PROVE  TypeInv'
  <2>1. review' \in ReviewType
    BY <1>1, AbsentType DEF Create, Absent, ReviewType, Status
  <2> QED BY <1>1, <2>1 DEF Create, TypeInv, TypeOK, CarriedOK
<1>2. CASE AutoApprove
  <2>1. review' \in ReviewType
    BY <1>2 DEF AutoApprove, TypeInv, TypeOK, ReviewType, Status, Decision, Decider
  <2> QED BY <1>2, <2>1 DEF AutoApprove, TypeInv, TypeOK, CarriedOK
<1>3. CASE CreatorCrash
  BY <1>3, ConstantsAssumption DEF CreatorCrash, TypeInv, TypeOK, CarriedOK
<1> QED BY <1>1, <1>2, <1>3, ConstantsAssumption DEF CreateStep

LEMMA RequestStepType ==
  ASSUME TypeInv, NEW r \in Requests, RequestStep(r) PROVE TypeInv'
<1> USE ConstantsAssumption
<1>1. CASE OpenPage(r)
  <2>1. req'[r] \in RequestType
    BY <1>1, IdleType DEF OpenPage, TypeInv, TypeOK, IdleRequest, RequestType, ReviewType
  <2> QED BY <1>1, <2>1 DEF OpenPage, TypeInv, TypeOK, CarriedOK, IdleRequest
<1>2. CASE LeavePage(r)
  BY <1>2, IdleType DEF LeavePage, TypeInv, TypeOK, CarriedOK, IdleRequest
<1>3. ASSUME NEW a \in OfferedActions, LoadReview(r, a) PROVE TypeInv'
  <2>1. req'[r] \in RequestType /\ req'[r].action \in Preset \cup Custom
    BY <1>3 DEF LoadReview, TypeInv, TypeOK, RequestType, ReviewType, Decision
  <2> QED BY <1>3, <2>1 DEF LoadReview, TypeInv, TypeOK, CarriedOK
<1>4. CASE CommitAction(r)
  <2> DEFINE q == req[r]
  <2>1. q \in RequestType /\ q.action \in Preset \cup Custom
    BY <1>4 DEF CommitAction, TypeInv, TypeOK, CarriedOK
  <2>2. StateUpdate(review, q) \in ReviewType
    BY <2>1, KindType, DecisionValueType
    DEF StateUpdate, TypeInv, TypeOK, RequestType, ReviewType, Status, Decision, Decider
  <2>3. /\ req'[r] \in RequestType
        /\ req'[r].pc \in {"idle", "committed"}
        /\ req'[r].pc = "committed" => req'[r].decision # "none"
    BY <1>4, <2>1, KindType, DecisionValueType, IdleType
    DEF CommitAction, TypeInv, TypeOK, RequestType, IdleRequest, Decision
  <2> QED BY <1>4, <2>2, <2>3 DEF CommitAction, TypeInv, TypeOK, CarriedOK
<1>5. CASE CommitConflict(r)
  BY <1>5, IdleType DEF CommitConflict, TypeInv, TypeOK, CarriedOK, IdleRequest
<1>6. CASE Announce(r)
  <2>1. req[r].decision \in Outcome
    BY <1>6 DEF Announce, TypeInv, TypeOK, CarriedOK, RequestType, Outcome
  <2> QED BY <1>6, <2>1, IdleType DEF Announce, TypeInv, TypeOK, CarriedOK, IdleRequest
<1>7. CASE RequestCrash(r)
  BY <1>7, IdleType DEF RequestCrash, TypeInv, TypeOK, CarriedOK, IdleRequest
<1>8. ASSUME NEW d \in {"vetoed", "confirmed"}, ResolveMonitoring(r, d) PROVE TypeInv'
  <2>1. review' \in ReviewType
    BY <1>8 DEF ResolveMonitoring, TypeInv, TypeOK, ReviewType, Status, Decision, Decider
  <2>2. req'[r] \in RequestType /\ req'[r].pc = "committed" /\ req'[r].decision = d
    BY <1>8 DEF ResolveMonitoring, TypeInv, TypeOK, RequestType, IdleRequest, Status, Decision
  <2> QED BY <1>8, <2>1, <2>2 DEF ResolveMonitoring, TypeInv, TypeOK, CarriedOK
<1> QED BY <1>1, <1>2, <1>3, <1>4, <1>5, <1>6, <1>7, <1>8 DEF RequestStep

\* The four claims write the same snapshot; only the ladder's rung needs a bound.
LEMMA ClaimType ==
  ASSUME TypeInv, NEW w \in Workers,
         NEW sweep \in {"expire", "max_iterations", "monitoring", "ladder"},
         sweep = "ladder" => review.ladder_index < MaxLadder,
         Claim(w, sweep)
  PROVE  TypeInv'
<1>1. review' \in ReviewType
  BY DEF Claim, TypeInv, TypeOK, ReviewType
<1>2. /\ worker'[w] \in WorkerType
      /\ worker'[w].pc = "claimed"
      /\ worker'[w].sweep = "ladder" => worker'[w].rung < MaxLadder
  BY DEF Claim, TypeInv, TypeOK, ReviewType, WorkerType
<1> QED BY <1>1, <1>2 DEF Claim, TypeInv, TypeOK, CarriedOK

\* Finish keeps the invariant when the row and the outcome it is given are typed.
LEMMA FinishType ==
  ASSUME TypeInv, NEW w \in Workers, NEW guard, NEW row \in ReviewType,
         NEW outcome \in Outcome \cup {"none"},
         Finish(w, guard, row, outcome)
  PROVE  TypeInv'
<1>1. review' \in ReviewType
  BY DEF Finish, Unclaimed, TypeInv, TypeOK, ReviewType
<1>2. /\ worker'[w] \in WorkerType
      /\ worker'[w].pc # "claimed"
      /\ worker'[w].pc = "committed" => worker'[w].outcome # "none"
  <2>1. CASE outcome = "none" \/ ~guard
    BY <2>1, IdleType DEF Finish, TypeInv, TypeOK, IdleWorker
  <2>2. CASE outcome # "none" /\ guard
    <3> DEFINE done == [IdleWorker EXCEPT !.pc = "committed", !.outcome = outcome]
    <3>1. worker'[w] = done
      BY <2>2 DEF Finish, TypeInv, TypeOK
    <3>2. done \in WorkerType
      BY <2>2, IdleType DEF WorkerType
    <3>3. done.pc = "committed" /\ done.outcome = outcome
      BY DEF IdleWorker
    <3> QED BY <2>2, <3>1, <3>2, <3>3
  <2> QED BY <2>1, <2>2
<1>3. \A x \in Workers : x # w => worker'[x] = worker[x]
  BY DEF Finish, TypeInv, TypeOK
<1>4. worker' \in [Workers -> WorkerType]
  BY <1>2 DEF Finish, TypeInv, TypeOK
<1> QED BY <1>1, <1>2, <1>3, <1>4 DEF Finish, TypeInv, TypeOK, CarriedOK

LEMMA ProcessStepType ==
  ASSUME TypeInv, NEW w \in Workers, ProcessStep(w) PROVE TypeInv'
<1>0. review \in ReviewType /\ worker[w] \in WorkerType
  BY DEF TypeInv, TypeOK
<1>1. CASE ProcessOne(w)
  <2> DEFINE decision == IF worker[w].action = "auto_approve" THEN "approved" ELSE "rejected"
  <2>1. [review EXCEPT !.status = "expired"] \in ReviewType
    BY <1>0 DEF ReviewType, Status
  <2>2. [review EXCEPT !.status = "decided", !.decision = decision,
             !.decided_by = "system:timeout",
             !.approved_value = worker[w].payload] \in ReviewType
    BY <1>0 DEF ReviewType, WorkerType, Status, Decision, Decider
  <2>3. decision \in Outcome /\ "expired" \in Outcome
    BY DEF Outcome, Decision
  <2> QED BY <1>1, <2>1, <2>2, <2>3, FinishType DEF ProcessOne
<1>2. CASE CloseMaxIterations(w)
  <2>1. [review EXCEPT !.status = "decided", !.decision = "max_iterations_reached",
             !.decided_by = "system:max_iterations"] \in ReviewType
    BY <1>0 DEF ReviewType, Status, Decision, Decider
  <2> QED BY <1>2, <2>1, FinishType DEF CloseMaxIterations, Outcome, Decision
<1>3. CASE ConfirmOne(w)
  <2>1. [review EXCEPT !.status = "decided", !.decision = "confirmed",
             !.decided_by = "system:monitoring_window"] \in ReviewType
    BY <1>0 DEF ReviewType, Status, Decision, Decider
  <2> QED BY <1>3, <2>1, FinishType DEF ConfirmOne, Outcome, Decision
<1>4. CASE PromoteOne(w)
  <2>1. worker[w].rung + 1 \in 0..MaxLadder
    BY <1>0, <1>4, ConstantsAssumption DEF PromoteOne, Doing, TypeInv, CarriedOK, WorkerType
  <2>2. [review EXCEPT !.ladder_index = worker[w].rung + 1] \in ReviewType
    BY <1>0, <2>1 DEF ReviewType
  <2> QED BY <1>4, <2>2, FinishType DEF PromoteOne
<1> QED BY <1>1, <1>2, <1>3, <1>4 DEF ProcessStep

LEMMA WorkerStepType ==
  ASSUME TypeInv, NEW w \in Workers, WorkerStep(w) PROVE TypeInv'
<1> USE ConstantsAssumption
<1>1. CASE ClaimExpired(w)
  BY <1>1, ClaimType DEF ClaimExpired
<1>2. CASE ClaimMaxIterations(w)
  BY <1>2, ClaimType DEF ClaimMaxIterations
<1>3. CASE ClaimMonitoring(w)
  BY <1>3, ClaimType DEF ClaimMonitoring
<1>4. CASE ClaimLadder(w)
  BY <1>4, ClaimType DEF ClaimLadder
<1>5. CASE ProcessStep(w)
  BY <1>5, ProcessStepType
<1>6. CASE WorkerAnnounce(w)
  <2>1. worker[w].outcome \in Outcome
    BY <1>6 DEF WorkerAnnounce, TypeInv, TypeOK, CarriedOK, WorkerType
  <2> QED BY <1>6, <2>1, IdleType DEF WorkerAnnounce, TypeInv, TypeOK, CarriedOK, IdleWorker
<1>7. CASE WorkerFails(w)
  <2>1. review' \in ReviewType
    BY <1>7 DEF WorkerFails, Unclaimed, TypeInv, TypeOK, ReviewType
  <2> QED BY <1>7, <2>1, IdleType DEF WorkerFails, TypeInv, TypeOK, CarriedOK, IdleWorker
<1>8. CASE WorkerCrash(w)
  BY <1>8, IdleType DEF WorkerCrash, TypeInv, TypeOK, CarriedOK, IdleWorker
<1> QED BY <1>1, <1>2, <1>3, <1>4, <1>5, <1>6, <1>7, <1>8 DEF WorkerStep

LEMMA RowStepType ==
  ASSUME TypeInv, RowStep PROVE TypeInv'
<1> USE ConstantsAssumption
<1>0. review \in ReviewType
  BY DEF TypeInv, TypeOK
<1>1. review' \in ReviewType
  <2>1. CASE UpdateVersion
    <3>1. review.current_version + 1 \in Nat
      BY <1>0 DEF ReviewType
    <3>2. review' = [[[review EXCEPT !.status = "pending"]
                        EXCEPT !.current_version = review.current_version + 1]
                        EXCEPT !.payload = review.current_version + 1]
      BY <2>1, <1>0 DEF UpdateVersion, ReviewType
    <3>3. \A row \in ReviewType, n \in Nat :
            /\ [row EXCEPT !.status = "pending"] \in ReviewType
            /\ [row EXCEPT !.current_version = n] \in ReviewType
            /\ [row EXCEPT !.payload = n] \in ReviewType
      BY DEF ReviewType, Status
    <3> QED BY <1>0, <3>1, <3>2, <3>3
  <2>2. CASE Archive
    BY <1>0, <2>2 DEF Archive, ReviewType, Status
  <2>3. CASE Unarchive
    BY <1>0, <2>3 DEF Unarchive, ReviewType, Status
  <2>4. CASE Delete
    BY <2>4, AbsentType DEF Delete
  <2>5. ASSUME NEW on \in BOOLEAN, Snooze(on) PROVE review' \in ReviewType
    BY <1>0, <2>5 DEF Snooze, ReviewType
  <2>6. CASE RevertChanges
    BY <1>0, <2>6 DEF RevertChanges, ReviewType, Status
  <2> QED BY <2>1, <2>2, <2>3, <2>4, <2>5, <2>6 DEF RowStep
<1>2. snoozes' \in 0..MaxSnoozes
  BY DEF RowStep, UpdateVersion, Archive, Unarchive, Delete, Snooze, RevertChanges,
         TypeInv, TypeOK
<1>3. UNCHANGED <<due, creator, req, worker, told, faults>>
  BY DEF RowStep, UpdateVersion, Archive, Unarchive, Delete, Snooze, RevertChanges
<1> QED BY <1>1, <1>2, <1>3 DEF TypeInv, TypeOK, CarriedOK

LEMMA TimeStepType ==
  ASSUME TypeInv, TimeStep PROVE TypeInv'
<1>1. review' \in ReviewType
  BY DEF TimeStep, DeadlinePasses, SnoozeElapses, ClaimAges, TypeInv, TypeOK, ReviewType
<1>2. due' \in BOOLEAN
  BY DEF TimeStep, DeadlinePasses, SnoozeElapses, ClaimAges, TypeInv, TypeOK
<1>3. faults' \in 0..MaxFaults
  <2>1. CASE DeadlinePasses \/ SnoozeElapses
    BY <2>1 DEF DeadlinePasses, SnoozeElapses, TypeInv, TypeOK
  <2>2. CASE ClaimAges
    <3>1. faults \in 0..MaxFaults /\ MaxFaults \in Nat
      BY ConstantsAssumption DEF TypeInv, TypeOK
    <3>2. CASE HolderAtWork
      BY <2>2, <3>1, <3>2 DEF ClaimAges
    <3>3. CASE ~HolderAtWork
      BY <2>2, <3>1, <3>3 DEF ClaimAges
    <3> QED BY <3>2, <3>3
  <2> QED BY <2>1, <2>2 DEF TimeStep
<1>4. UNCHANGED <<creator, req, worker, told, snoozes>>
  BY DEF TimeStep, DeadlinePasses, SnoozeElapses, ClaimAges
<1> QED BY <1>1, <1>2, <1>3, <1>4 DEF TypeInv, TypeOK, CarriedOK

LEMMA NextTypeInv == TypeInv /\ [Next]_vars => TypeInv'
<1> SUFFICES ASSUME TypeInv, [Next]_vars PROVE TypeInv'
  OBVIOUS
<1>1. CASE Next
  BY <1>1, CreateStepType, RequestStepType, WorkerStepType, RowStepType, TimeStepType
  DEF Next
<1>2. CASE UNCHANGED vars
  BY <1>2 DEF vars, TypeInv, TypeOK, CarriedOK
<1> QED BY <1>1, <1>2

\* Every variable of the lifecycle stays in its domain, for any number of
\* requests and ticks and any ladder; in particular no promotion leaves the ladder.
THEOREM TypeCorrect == Spec => []TypeOK
<1>1. TypeInv => TypeOK
  BY DEF TypeInv
<1> QED BY <1>1, InitTypeInv, NextTypeInv, PTL DEF Spec

-----------------------------------------------------------------------------
(***************************************************************************)
(* Why a monitoring gate is decided once.  Each part is needed for the     *)
(* next: no handler can hold a snapshot from before the gate existed, so   *)
(* none that could write it ignores that it is a monitoring gate.          *)
(***************************************************************************)
\* Until the row is inserted nobody has read it.
NothingBeforeCreate ==
    creator = "idle" =>
        /\ review = Absent
        /\ \A r \in Requests : req[r].pc # "loaded"
        /\ \A w \in Workers : worker[w].pc # "claimed"

\* The status tells a gate in its window apart.
MonitoringStatus ==
    /\ review.status = "monitoring" => review.oversight = "monitoring"
    /\ review.oversight = "monitoring" =>
         /\ review.status \in {"monitoring", "decided", "archived"}
         /\ review.status = "monitoring" <=> review.decision = "none"

\* No action request, no auto-approval and no sweep but the window's own is under
\* way on a gate, and that one runs only after the deadline.
OnlyTheWindowSweep ==
    /\ review.oversight = "monitoring" =>
         /\ creator = "done"
         /\ \A r \in Requests : req[r].pc # "loaded"
         /\ \A w \in Workers :
              worker[w].pc = "claimed" => worker[w].sweep = "monitoring"
    /\ \A w \in Workers :
         worker[w].pc = "claimed" /\ worker[w].sweep = "monitoring" => due

\* A request in flight read an open review, so it restores no other status.
LoadedOpen ==
    \A r \in Requests : req[r].pc = "loaded" => req[r].status \in Open

MonitoringInv ==
    NothingBeforeCreate /\ MonitoringStatus /\ OnlyTheWindowSweep /\ LoadedOpen

\* The action of MonitoringDecidedOnce.
GateKept ==
    review.oversight = "monitoring" /\ review'.status # "absent" =>
        /\ review.status = "monitoring" /\ review'.status # "monitoring" =>
             /\ review'.status = "decided"
             /\ IF due THEN /\ review'.decided_by = "system:monitoring_window"
                           /\ review'.decision = "confirmed"
                      ELSE review'.decided_by = "human"
        /\ review.decision # "none" =>
             /\ review'.decision = review.decision
             /\ review'.decided_by = review.decided_by
\* A step that leaves the gate's columns alone and starts nothing but a window
\* sweep past the deadline.
LEMMA KeepStep ==
  ASSUME TypeInv, MonitoringInv,
         /\ review'.status = review.status /\ review'.oversight = review.oversight
         /\ review'.decision = review.decision /\ review'.decided_by = review.decided_by,
         creator' \in {creator, "done"},
         creator' = "idle" => review' = review,
         due => due',
         \A r \in Requests : req'[r].pc = "loaded" =>
             req[r].pc = "loaded" /\ req'[r].status = req[r].status,
         \A w \in Workers : worker'[w].pc = "claimed" =>
             \/ worker[w].pc = "claimed" /\ worker'[w].sweep = worker[w].sweep
             \/ worker'[w].sweep = "monitoring" /\ due /\ creator # "idle"
  PROVE  MonitoringInv' /\ GateKept
<1>1. NothingBeforeCreate'
  BY DEF MonitoringInv, NothingBeforeCreate
<1>2. MonitoringStatus'
  BY DEF MonitoringInv, MonitoringStatus
<1>3. OnlyTheWindowSweep'
  BY DEF MonitoringInv, OnlyTheWindowSweep
<1>4. LoadedOpen'
  BY DEF MonitoringInv, LoadedOpen, Open
<1>5. GateKept
  BY DEF GateKept
<1> QED BY <1>1, <1>2, <1>3, <1>4, <1>5 DEF MonitoringInv

\* A step on a blocking review that starts no window sweep.
LEMMA BlockingStep ==
  ASSUME TypeInv, MonitoringInv,
         review.oversight = "blocking", review'.oversight = "blocking",
         review'.status # "monitoring",
         creator' # "idle",
         due => due',
         \A r \in Requests : req'[r].pc = "loaded" =>
             \/ req[r].pc = "loaded" /\ req'[r].status = req[r].status
             \/ req'[r].status \in Open,
         \A w \in Workers : worker'[w].pc = "claimed" /\ worker'[w].sweep = "monitoring" =>
             worker[w].pc = "claimed" /\ worker[w].sweep = "monitoring"
  PROVE  MonitoringInv' /\ GateKept
<1>1. NothingBeforeCreate' /\ MonitoringStatus'
  BY DEF NothingBeforeCreate, MonitoringStatus
<1>2. OnlyTheWindowSweep'
  BY DEF MonitoringInv, OnlyTheWindowSweep
<1>3. LoadedOpen'
  BY DEF MonitoringInv, LoadedOpen, Open
<1>4. GateKept
  BY DEF GateKept
<1> QED BY <1>1, <1>2, <1>3, <1>4 DEF MonitoringInv

\* A row read in an open status is on a blocking review.
LEMMA OpenIsBlocking ==
  ASSUME TypeInv, MonitoringInv,
         review.status \in {"pending", "awaiting_iteration", "awaiting_external", "expired"}
  PROVE  review.oversight = "blocking" /\ creator # "idle"
<1>1. review.oversight \in {"blocking", "monitoring"}
  BY DEF TypeInv, TypeOK, ReviewType
<1>2. review.oversight # "monitoring"
  BY DEF MonitoringInv, MonitoringStatus
<1>3. creator # "idle"
  BY DEF MonitoringInv, NothingBeforeCreate, Absent
<1> QED BY <1>1, <1>2, <1>3

\* A review some request or sweep of the blocking kind works on.
LEMMA WorkedOnIsBlocking ==
  ASSUME TypeInv, MonitoringInv,
         \/ creator = "inserted"
         \/ \E r \in Requests : req[r].pc = "loaded"
         \/ \E w \in Workers : worker[w].pc = "claimed" /\ worker[w].sweep # "monitoring"
  PROVE  review.oversight = "blocking" /\ creator # "idle"
<1>1. review.oversight \in {"blocking", "monitoring"}
  BY DEF TypeInv, TypeOK, ReviewType
<1>2. review.oversight # "monitoring" /\ creator # "idle"
  BY DEF MonitoringInv, OnlyTheWindowSweep, NothingBeforeCreate
<1> QED BY <1>1, <1>2

LEMMA CreateStepKeepsGate ==
  ASSUME TypeInv, MonitoringInv, CreateStep PROVE MonitoringInv' /\ GateKept
<1>1. ASSUME NEW oversight \in {"blocking", "monitoring"}, NEW expires \in BOOLEAN,
             NEW auto \in BOOLEAN, NEW action \in TimeoutAction,
             Create(oversight, expires, action, auto)
      PROVE  MonitoringInv' /\ GateKept
  <2>1. /\ review.oversight = "blocking"
        /\ review'.oversight = oversight /\ review'.decision = "none"
        /\ review'.status = IF oversight = "monitoring" THEN "monitoring" ELSE "pending"
        /\ creator' \in {"inserted", "done"}
        /\ oversight = "monitoring" => creator' = "done"
        /\ due' = due /\ req' = req /\ worker' = worker
    BY <1>1 DEF Create, Absent
  <2>2. /\ \A r \in Requests : req'[r].pc # "loaded"
        /\ \A w \in Workers : worker'[w].pc # "claimed"
    BY <1>1, <2>1 DEF Create, MonitoringInv, NothingBeforeCreate
  <2>3. MonitoringInv'
    BY <2>1, <2>2
    DEF MonitoringInv, NothingBeforeCreate, MonitoringStatus, OnlyTheWindowSweep, LoadedOpen
  <2> QED BY <2>1, <2>3 DEF GateKept
<1>2. CASE AutoApprove
  <2>1. review.oversight = "blocking"
    BY <1>2, WorkedOnIsBlocking DEF AutoApprove
  <2>2. review'.oversight = "blocking" /\ review'.status # "monitoring"
    BY <1>2, <2>1 DEF AutoApprove, MonitoringInv, MonitoringStatus, TypeInv, TypeOK, ReviewType
  <2> QED BY <1>2, <2>1, <2>2, BlockingStep DEF AutoApprove
<1>3. CASE CreatorCrash
  BY <1>3, KeepStep DEF CreatorCrash
<1> QED BY <1>1, <1>2, <1>3, ConstantsAssumption DEF CreateStep

\* An action writes no status it did not read or configure, and never the
\* oversight mode.
LEMMA StateUpdateKeepsOversight ==
  ASSUME NEW row \in ReviewType, NEW q \in RequestType, q.status \in Open
  PROVE  /\ StateUpdate(row, q).oversight = row.oversight
         /\ StateUpdate(row, q).status # "monitoring"
  BY DEF StateUpdate, ReviewType, RequestType, Open

LEMMA EnabledWhenOpen ==
  ASSUME NEW row \in ReviewType, NEW a \in OfferedActions, AcceptsAction(row, a)
  PROVE  row.status \in Open
  BY ConstantsAssumption DEF AcceptsAction, EnabledForStatus, Open, Preset, Custom

LEMMA RequestStepKeepsGate ==
  ASSUME TypeInv, MonitoringInv, NEW r \in Requests, RequestStep(r)
  PROVE  MonitoringInv' /\ GateKept
<1>0. /\ review \in ReviewType /\ req \in [Requests -> RequestType]
      /\ creator \in {"idle", "inserted", "done"}
  BY DEF TypeInv, TypeOK
<1>1. CASE OpenPage(r) \/ LeavePage(r) \/ CommitConflict(r) \/ Announce(r) \/ RequestCrash(r)
  <2>1. \A x \in Requests : req'[x].pc = "loaded" => req'[x] = req[x]
    <3>1. \A x \in Requests : x # r => req'[x] = req[x]
      BY <1>0, <1>1 DEF OpenPage, LeavePage, CommitConflict, Announce, RequestCrash
    <3>2. CASE OpenPage(r)
      BY <1>0, <3>1, <3>2 DEF OpenPage, IdleRequest
    <3>3. CASE LeavePage(r) \/ CommitConflict(r)
      BY <1>0, <3>1, <3>3 DEF LeavePage, CommitConflict, IdleRequest
    <3>4. CASE Announce(r) \/ RequestCrash(r)
      BY <1>0, <3>1, <3>4 DEF Announce, RequestCrash, IdleRequest
    <3> QED BY <1>1, <3>2, <3>3, <3>4
  <2>2. UNCHANGED <<review, due, creator, worker>>
    BY <1>1 DEF OpenPage, LeavePage, CommitConflict, Announce, RequestCrash
  <2> QED BY <2>1, <2>2, KeepStep
<1>2. ASSUME NEW a \in OfferedActions, LoadReview(r, a) PROVE MonitoringInv' /\ GateKept
  <2>1. review.status \in Open
    BY <1>0, <1>2, EnabledWhenOpen DEF LoadReview
  <2>2. review.oversight = "blocking" /\ creator # "idle"
    BY <2>1, OpenIsBlocking DEF Open
  <2>3. UNCHANGED <<review, due, creator, worker>>
    BY <1>2 DEF LoadReview
  <2>4. \A x \in Requests : req'[x] = req[x] \/ req'[x].status \in Open
    BY <1>0, <1>2, <2>1 DEF LoadReview
  <2> QED BY <2>1, <2>2, <2>3, <2>4, BlockingStep DEF Open
<1>3. CASE CommitAction(r)
  <2>1. req[r].pc = "loaded" /\ req[r].status \in Open
    BY <1>3 DEF CommitAction, MonitoringInv, LoadedOpen
  <2>2. review.oversight = "blocking" /\ creator # "idle"
    BY <2>1, WorkedOnIsBlocking
  <2>3. review'.oversight = "blocking" /\ review'.status # "monitoring"
    BY <1>0, <1>3, <2>1, <2>2, StateUpdateKeepsOversight DEF CommitAction
  <2>4. UNCHANGED <<due, creator, worker>>
    BY <1>3 DEF CommitAction
  <2>5. \A x \in Requests : req'[x].pc = "loaded" => req'[x] = req[x]
    <3>1. \A x \in Requests : x # r => req'[x] = req[x]
      BY <1>0, <1>3 DEF CommitAction
    <3>2. CASE Kind[req[r].action] = "decision"
      BY <1>0, <1>3, <3>1, <3>2 DEF CommitAction, IdleRequest
    <3>3. CASE Kind[req[r].action] # "decision"
      BY <1>0, <1>3, <3>1, <3>3 DEF CommitAction, IdleRequest
    <3> QED BY <3>2, <3>3
  <2> QED BY <2>2, <2>3, <2>4, <2>5, BlockingStep
<1>4. ASSUME NEW d \in {"vetoed", "confirmed"}, ResolveMonitoring(r, d)
      PROVE  MonitoringInv' /\ GateKept
  <2>1. /\ review.status = "monitoring" /\ ~due
        /\ review'.status = "decided" /\ review'.decision = d
        /\ review'.decided_by = "human" /\ review'.oversight = review.oversight
        /\ UNCHANGED <<due, creator, worker>>
    BY <1>0, <1>4 DEF ResolveMonitoring, ReviewType
  <2>2. \A x \in Requests : req'[x].pc = "loaded" => req'[x] = req[x]
    BY <1>0, <1>4 DEF ResolveMonitoring, IdleRequest
  <2>3. creator # "idle" /\ review.decision = "none"
    BY <2>1 DEF MonitoringInv, NothingBeforeCreate, Absent, MonitoringStatus
  <2>4. MonitoringInv'
    BY <2>1, <2>2, <2>3
    DEF MonitoringInv, NothingBeforeCreate, MonitoringStatus, OnlyTheWindowSweep, LoadedOpen
  <2> QED BY <2>1, <2>3, <2>4 DEF GateKept
<1> QED BY <1>1, <1>2, <1>3, <1>4 DEF RequestStep

\* Claims of the three sweeps that look for an open review.
LEMMA ClaimOpenKeepsGate ==
  ASSUME TypeInv, MonitoringInv, NEW w \in Workers,
         NEW sweep \in {"expire", "max_iterations", "ladder"},
         review.status \in Open, Claim(w, sweep)
  PROVE  MonitoringInv' /\ GateKept
<1>1. review.oversight = "blocking" /\ creator # "idle"
  BY OpenIsBlocking DEF Open
<1>2. review'.oversight = "blocking" /\ review'.status \in Open
  BY <1>1 DEF Claim, TypeInv, TypeOK, ReviewType
<1>3. UNCHANGED <<due, creator, req>>
  BY DEF Claim
<1>4. \A x \in Workers : worker'[x] = worker[x] \/ worker'[x].sweep = sweep
  BY DEF Claim, TypeInv, TypeOK
<1> QED BY <1>1, <1>2, <1>3, <1>4, BlockingStep DEF Open

\* A sweep that finds its guard false, or that works on a blocking review.
LEMMA FinishKeepsGate ==
  ASSUME TypeInv, MonitoringInv, NEW w \in Workers, NEW guard, NEW row, NEW outcome,
         Finish(w, guard, row, outcome),
         guard => /\ worker[w].pc = "claimed" /\ worker[w].sweep # "monitoring"
                  /\ Unclaimed(row).oversight = review.oversight
                  /\ Unclaimed(row).status # "monitoring"
  PROVE  MonitoringInv' /\ GateKept
<1>1. UNCHANGED <<due, creator, req>>
  BY DEF Finish
<1>2. \A x \in Workers : worker'[x].pc = "claimed" => worker'[x] = worker[x]
  <2>1. \A x \in Workers : x # w => worker'[x] = worker[x]
    BY DEF Finish, TypeInv, TypeOK
  <2>2. worker'[w].pc # "claimed"
    <3>1. CASE ~guard \/ outcome = "none"
      BY <3>1 DEF Finish, TypeInv, TypeOK, IdleWorker
    <3>2. CASE guard /\ outcome # "none"
      BY <3>2 DEF Finish, TypeInv, TypeOK, IdleWorker
    <3> QED BY <3>1, <3>2
  <2> QED BY <2>1, <2>2
<1>3. CASE guard
  <2>1. review.oversight = "blocking" /\ creator # "idle"
    BY <1>3, WorkedOnIsBlocking
  <2>2. review' = Unclaimed(row)
    BY <1>3 DEF Finish
  <2> QED BY <1>1, <1>2, <1>3, <2>1, <2>2, BlockingStep
<1>4. CASE ~guard
  <2>1. review' = review
    BY <1>4 DEF Finish
  <2> QED BY <1>1, <1>2, <2>1, KeepStep
<1> QED BY <1>3, <1>4

LEMMA ProcessStepKeepsGate ==
  ASSUME TypeInv, MonitoringInv, NEW w \in Workers, ProcessStep(w)
  PROVE  MonitoringInv' /\ GateKept
<1>0. review \in ReviewType /\ worker \in [Workers -> WorkerType]
  BY DEF TypeInv, TypeOK
<1>1. \A row \in ReviewType :
        /\ Unclaimed(row).oversight = row.oversight
        /\ Unclaimed(row).status = row.status
  BY DEF Unclaimed, ReviewType
<1>2. CASE ProcessOne(w)
  <2> DEFINE decision == IF worker[w].action = "auto_approve" THEN "approved" ELSE "rejected"
             lapsed == [review EXCEPT !.status = "expired"]
             forced == [review EXCEPT !.status = "decided", !.decision = decision,
                            !.decided_by = "system:timeout",
                            !.approved_value = worker[w].payload]
  <2>1. /\ Unclaimed(lapsed).oversight = review.oversight
        /\ Unclaimed(lapsed).status = "expired"
    BY <1>0 DEF Unclaimed, ReviewType
  <2>2. /\ Unclaimed(forced).oversight = review.oversight
        /\ Unclaimed(forced).status = "decided"
    BY <1>0 DEF Unclaimed, ReviewType
  <2>3. worker[w].pc = "claimed" /\ worker[w].sweep # "monitoring"
    BY <1>2 DEF ProcessOne, Doing
  <2>4. \/ Finish(w, ProcessGuard(w), lapsed, "expired")
        \/ Finish(w, ProcessGuard(w), forced, decision)
    BY <1>2 DEF ProcessOne
  <2> HIDE DEF decision, lapsed, forced
  <2> QED BY <2>1, <2>2, <2>3, <2>4, FinishKeepsGate
<1>3. CASE CloseMaxIterations(w)
  <2> DEFINE closed == [review EXCEPT !.status = "decided",
                            !.decision = "max_iterations_reached",
                            !.decided_by = "system:max_iterations"]
  <2>1. /\ Unclaimed(closed).oversight = review.oversight
        /\ Unclaimed(closed).status = "decided"
    BY <1>0 DEF Unclaimed, ReviewType
  <2>2. worker[w].pc = "claimed" /\ worker[w].sweep # "monitoring"
    BY <1>3 DEF CloseMaxIterations, Doing
  <2>3. Finish(w, CloseGuard, closed, "max_iterations_reached")
    BY <1>3 DEF CloseMaxIterations
  <2> HIDE DEF closed
  <2> QED BY <2>1, <2>2, <2>3, FinishKeepsGate
<1>4. CASE PromoteOne(w)
  <2> DEFINE promoted == [review EXCEPT !.ladder_index = worker[w].rung + 1]
  <2>1. /\ Unclaimed(promoted).oversight = review.oversight
        /\ Unclaimed(promoted).status = review.status
    BY <1>0 DEF Unclaimed, ReviewType
  <2>2. worker[w].pc = "claimed" /\ worker[w].sweep # "monitoring"
    BY <1>4 DEF PromoteOne, Doing
  <2>3. review.status # "monitoring"
    BY <2>2, WorkedOnIsBlocking DEF MonitoringInv, MonitoringStatus
  <2>4. Finish(w, PromoteGuard(w), promoted, "none")
    BY <1>4 DEF PromoteOne
  <2> HIDE DEF promoted
  <2> QED BY <2>1, <2>2, <2>3, <2>4, FinishKeepsGate
<1>5. CASE ConfirmOne(w)
  <2> DEFINE confirmed == [review EXCEPT !.status = "decided", !.decision = "confirmed",
                               !.decided_by = "system:monitoring_window"]
  <2>0. Finish(w, ConfirmGuard(w), confirmed, "confirmed")
    BY <1>5 DEF ConfirmOne
  <2>1. CASE ~ConfirmGuard(w)
    BY <2>0, <2>1, FinishKeepsGate
  <2>2. CASE ConfirmGuard(w)
    <3>1. review.status = "monitoring" /\ due
      BY <1>5, <2>2 DEF ConfirmOne, Doing, ConfirmGuard, MonitoringInv, OnlyTheWindowSweep
    <3>2. review' = Unclaimed(confirmed) /\ UNCHANGED <<due, creator, req>>
      BY <2>0, <2>2 DEF Finish
    <3>3. /\ review'.status = "decided" /\ review'.decision = "confirmed"
          /\ review'.decided_by = "system:monitoring_window"
          /\ review'.oversight = review.oversight
      BY <1>0, <3>2 DEF Unclaimed, ReviewType
    <3>4. \A x \in Workers : worker'[x].pc = "claimed" => worker'[x] = worker[x]
      BY <1>0, <2>0, <2>2 DEF Finish, IdleWorker
    <3>5. creator # "idle" /\ review.decision = "none"
      BY <3>1 DEF MonitoringInv, NothingBeforeCreate, Absent, MonitoringStatus
    <3>6. MonitoringInv'
      BY <3>1, <3>2, <3>3, <3>4, <3>5
      DEF MonitoringInv, NothingBeforeCreate, MonitoringStatus, OnlyTheWindowSweep, LoadedOpen
    <3> QED BY <3>1, <3>3, <3>5, <3>6 DEF GateKept
  <2> QED BY <2>1, <2>2
<1> QED BY <1>2, <1>3, <1>4, <1>5 DEF ProcessStep

LEMMA WorkerStepKeepsGate ==
  ASSUME TypeInv, MonitoringInv, NEW w \in Workers, WorkerStep(w)
  PROVE  MonitoringInv' /\ GateKept
<1>0. review \in ReviewType /\ worker \in [Workers -> WorkerType]
  BY DEF TypeInv, TypeOK
<1>1. CASE ClaimExpired(w)
  BY <1>1, ClaimOpenKeepsGate DEF ClaimExpired, Open
<1>2. CASE ClaimMaxIterations(w)
  BY <1>2, ClaimOpenKeepsGate DEF ClaimMaxIterations, Iterating, Open
<1>3. CASE ClaimLadder(w)
  BY <1>3, ClaimOpenKeepsGate DEF ClaimLadder, Open
<1>4. CASE ClaimMonitoring(w)
  <2>1. creator # "idle" /\ due
    BY <1>4 DEF ClaimMonitoring, MonitoringInv, NothingBeforeCreate, Absent
  <2>2. /\ review'.status = review.status /\ review'.oversight = review.oversight
        /\ review'.decision = review.decision /\ review'.decided_by = review.decided_by
    BY <1>0, <1>4 DEF ClaimMonitoring, Claim, ReviewType
  <2>3. UNCHANGED <<due, creator, req>>
    BY <1>4 DEF ClaimMonitoring, Claim
  <2>4. \A x \in Workers : worker'[x] = worker[x] \/ worker'[x].sweep = "monitoring"
    BY <1>0, <1>4 DEF ClaimMonitoring, Claim
  <2> QED BY <2>1, <2>2, <2>3, <2>4, KeepStep
<1>5. CASE ProcessStep(w)
  BY <1>5, ProcessStepKeepsGate
<1>6. CASE WorkerAnnounce(w) \/ WorkerFails(w) \/ WorkerCrash(w)
  <2>1. \A x \in Workers : worker'[x].pc = "claimed" => worker'[x] = worker[x]
    BY <1>0, <1>6 DEF WorkerAnnounce, WorkerFails, WorkerCrash, IdleWorker
  <2>2. UNCHANGED <<due, creator, req>>
    BY <1>6 DEF WorkerAnnounce, WorkerFails, WorkerCrash
  <2>3. /\ review'.status = review.status /\ review'.oversight = review.oversight
        /\ review'.decision = review.decision /\ review'.decided_by = review.decided_by
    BY <1>0, <1>6 DEF WorkerAnnounce, WorkerFails, WorkerCrash, Unclaimed, ReviewType
  <2>4. creator' = "idle" => review' = review
    <3>1. ASSUME creator = "idle" PROVE ~WorkerFails(w)
      BY <3>1 DEF WorkerFails, MonitoringInv, NothingBeforeCreate
    <3> QED BY <1>6, <2>2, <3>1 DEF WorkerAnnounce, WorkerCrash
  <2> QED BY <2>1, <2>2, <2>3, <2>4, KeepStep
<1> QED BY <1>1, <1>2, <1>3, <1>4, <1>5, <1>6 DEF WorkerStep

LEMMA RowStepKeepsGate ==
  ASSUME TypeInv, MonitoringInv, RowStep PROVE MonitoringInv' /\ GateKept
<1>0. review \in ReviewType
  BY DEF TypeInv, TypeOK
<1>1. UNCHANGED <<due, creator, req, worker>>
  BY DEF RowStep, UpdateVersion, Archive, Unarchive, Delete, Snooze, RevertChanges
<1>2. review.status # "absent"
  BY DEF RowStep, UpdateVersion, Archive, Unarchive, Delete, Snooze, RevertChanges, Iterating
<1>3. creator # "idle"
  BY <1>2 DEF MonitoringInv, NothingBeforeCreate, Absent
<1>4. CASE UpdateVersion \/ RevertChanges
  <2>1. review.oversight = "blocking"
    BY <1>4, OpenIsBlocking DEF UpdateVersion, RevertChanges, Iterating
  <2>2. review'.oversight = "blocking" /\ review'.status = "pending"
    BY <1>0, <1>4, <2>1 DEF UpdateVersion, RevertChanges, ReviewType
  <2> QED BY <1>1, <1>3, <2>1, <2>2, BlockingStep
<1>5. CASE Archive \/ Unarchive
  <2>1. /\ review'.oversight = review.oversight /\ review'.decision = review.decision
        /\ review'.decided_by = review.decided_by
        /\ review.status # "monitoring" /\ review'.status # "monitoring"
        /\ \/ review'.status = "archived"
           \/ review'.status = "decided"
           \/ review'.status = "expired" /\ review.decision = "none"
    BY <1>0, <1>5 DEF Archive, Unarchive, ReviewType
  <2>2. MonitoringInv'
    BY <1>1, <1>3, <2>1
    DEF MonitoringInv, NothingBeforeCreate, MonitoringStatus, OnlyTheWindowSweep, LoadedOpen
  <2> QED BY <2>1, <2>2 DEF GateKept
<1>6. CASE Delete
  <2>1. review'.status = "absent" /\ review'.oversight = "blocking"
    BY <1>6 DEF Delete, Absent
  <2>2. MonitoringInv'
    BY <1>1, <1>3, <2>1
    DEF MonitoringInv, NothingBeforeCreate, MonitoringStatus, OnlyTheWindowSweep, LoadedOpen
  <2> QED BY <2>1, <2>2 DEF GateKept
<1>7. ASSUME NEW on \in BOOLEAN, Snooze(on) PROVE MonitoringInv' /\ GateKept
  <2>1. /\ review'.status = review.status /\ review'.oversight = review.oversight
        /\ review'.decision = review.decision /\ review'.decided_by = review.decided_by
    BY <1>0, <1>7 DEF Snooze, ReviewType
  <2> QED BY <1>1, <1>3, <2>1, KeepStep
<1> QED BY <1>4, <1>5, <1>6, <1>7 DEF RowStep

LEMMA TimeStepKeepsGate ==
  ASSUME TypeInv, MonitoringInv, TimeStep PROVE MonitoringInv' /\ GateKept
<1>0. review \in ReviewType
  BY DEF TypeInv, TypeOK
<1>1. (due => due') /\ UNCHANGED <<creator, req, worker>>
  BY DEF TimeStep, DeadlinePasses, SnoozeElapses, ClaimAges
<1>2. /\ review'.status = review.status /\ review'.oversight = review.oversight
      /\ review'.decision = review.decision /\ review'.decided_by = review.decided_by
  BY <1>0 DEF TimeStep, DeadlinePasses, SnoozeElapses, ClaimAges, ReviewType
<1>3. creator # "idle"
  BY DEF TimeStep, DeadlinePasses, SnoozeElapses, ClaimAges, MonitoringInv,
         NothingBeforeCreate, Absent
<1> QED BY <1>1, <1>2, <1>3, KeepStep

LEMMA StepKeepsGate ==
  ASSUME TypeInv, MonitoringInv, [Next]_vars
  PROVE  MonitoringInv' /\ [GateKept]_vars
<1>1. CASE Next
  BY <1>1, CreateStepKeepsGate, RequestStepKeepsGate, WorkerStepKeepsGate,
     RowStepKeepsGate, TimeStepKeepsGate DEF Next
<1>2. CASE UNCHANGED vars
  BY <1>2 DEF vars, MonitoringInv, NothingBeforeCreate, MonitoringStatus,
              OnlyTheWindowSweep, LoadedOpen
<1> QED BY <1>1, <1>2

\* A monitoring gate leaves its window once: by a human's decision before the
\* deadline or by the recorded lapse after it, and what was written stays, for any
\* number of reviewers and worker ticks.
THEOREM GateDecidedOnce == Spec => MonitoringDecidedOnce
<1>1. Init => TypeInv /\ MonitoringInv
  <2> SUFFICES ASSUME Init PROVE TypeInv /\ MonitoringInv
    OBVIOUS
  <2>1. MonitoringInv
    BY DEF Init, MonitoringInv, NothingBeforeCreate, MonitoringStatus, OnlyTheWindowSweep,
           LoadedOpen, Absent, IdleRequest, IdleWorker
  <2> QED BY <2>1, InitTypeInv
<1>2. TypeInv /\ MonitoringInv /\ [Next]_vars => (TypeInv /\ MonitoringInv)'
  BY StepKeepsGate, NextTypeInv
<1>3. TypeInv /\ MonitoringInv /\ [Next]_vars => [GateKept]_vars
  BY StepKeepsGate
<1>4. Spec => [][GateKept]_vars
  BY <1>1, <1>2, <1>3, PTL DEF Spec
<1> QED BY <1>4 DEF MonitoringDecidedOnce, GateKept

-----------------------------------------------------------------------------
(***************************************************************************)
(* Ticks.  The row is deleted once and never created again, so what a tick *)
(* has read of its configuration still holds as long as there is a row;    *)
(* what it has read of the ladder holds as long as its claim is on record. *)
(***************************************************************************)
GoneIsUnclaimed == review.status = "absent" => review.claimed_by = None

IdleSweepsNothing == \A w \in Workers : worker[w].pc # "claimed" => worker[w].sweep = "none"

SnapshotOK ==
    \A w \in Workers : worker[w].pc = "claimed" =>
        /\ Exists => worker[w].action = review.timeout_action
        /\ worker[w].sweep = "expire" => due
        /\ worker[w].sweep = "ladder" /\ review.claimed_by = w =>
             worker[w].rung = review.ladder_index

SweepInv == GoneIsUnclaimed /\ IdleSweepsNothing /\ SnapshotOK

\* What a step may do to the row without a tick noticing: keep the holder and its
\* rung or release the claim, and keep the configuration or delete the row.
RowKept ==
    /\ review'.status = "absent" => review'.claimed_by = None
    /\ review'.status # "absent" =>
         review.status # "absent" /\ review'.timeout_action = review.timeout_action
    /\ review'.claimed_by \in {review.claimed_by, None}
    /\ review'.claimed_by # None => review'.ladder_index = review.ladder_index

LEMMA RowKeptStep ==
  ASSUME SweepInv, RowKept, due => due',
         \A w \in Workers : \/ worker'[w] = worker[w]
                            \/ worker'[w].pc # "claimed" /\ worker'[w].sweep = "none"
  PROVE  SweepInv'
<1> USE ConstantsAssumption
<1>1. GoneIsUnclaimed' /\ IdleSweepsNothing'
  BY DEF SweepInv, GoneIsUnclaimed, IdleSweepsNothing, RowKept
<1>2. SnapshotOK'
  BY DEF SweepInv, SnapshotOK, RowKept, Exists
<1> QED BY <1>1, <1>2 DEF SweepInv

LEMMA RequestStepSweeps ==
  ASSUME TypeInv, MonitoringInv, SweepInv, NEW r \in Requests, RequestStep(r)
  PROVE  SweepInv'
<1>0. review \in ReviewType
  BY DEF TypeInv, TypeOK
<1>1. UNCHANGED <<due, worker>>
  BY DEF RequestStep, OpenPage, LeavePage, LoadReview, CommitAction, CommitConflict,
         Announce, RequestCrash, ResolveMonitoring
<1>2. CASE UNCHANGED review
  BY <1>1, <1>2, RowKeptStep DEF RowKept, SweepInv, GoneIsUnclaimed
<1>3. CASE CommitAction(r)
  <2>1. /\ review.status # "absent" /\ review'.status # "absent"
        /\ review'.timeout_action = review.timeout_action
        /\ review'.claimed_by = review.claimed_by
        /\ review'.ladder_index = review.ladder_index
    <3> DEFINE q == req[r]
    <3>1. review.status # "absent" /\ review' = StateUpdate(review, q)
      BY <1>3 DEF CommitAction, VersionStillCurrent, Exists
    <3>2. q.status # "absent"
      BY <1>3 DEF CommitAction, MonitoringInv, LoadedOpen, Open
    <3> HIDE DEF q
    <3> QED BY <1>0, <3>1, <3>2 DEF StateUpdate, ReviewType
  <2> QED BY <1>1, <2>1, RowKeptStep DEF RowKept
<1>4. ASSUME NEW d \in {"vetoed", "confirmed"}, ResolveMonitoring(r, d) PROVE SweepInv'
  <2>1. RowKept
    BY <1>0, <1>4 DEF ResolveMonitoring, ReviewType, RowKept
  <2> QED BY <1>1, <2>1, RowKeptStep
<1> QED BY <1>2, <1>3, <1>4
    DEF RequestStep, OpenPage, LeavePage, LoadReview, CommitConflict, Announce, RequestCrash

LEMMA CreateStepSweeps ==
  ASSUME TypeInv, MonitoringInv, SweepInv, CreateStep PROVE SweepInv'
<1>0. review \in ReviewType
  BY DEF TypeInv, TypeOK
<1>1. ASSUME NEW oversight \in {"blocking", "monitoring"}, NEW expires \in BOOLEAN,
             NEW auto \in BOOLEAN, NEW action \in Timeouts,
             Create(oversight, expires, action, auto)
      PROVE  SweepInv'
  <2>1. \A w \in Workers : worker[w].pc # "claimed"
    BY <1>1 DEF Create, MonitoringInv, NothingBeforeCreate
  <2>2. review'.status # "absent" /\ UNCHANGED <<due, worker>>
    BY <1>1 DEF Create, Absent
  <2> QED BY <2>1, <2>2 DEF SweepInv, GoneIsUnclaimed, IdleSweepsNothing, SnapshotOK
<1>2. CASE AutoApprove
  <2>1. RowKept
    BY <1>0, <1>2 DEF AutoApprove, RowKept, ReviewType, Exists, SweepInv, GoneIsUnclaimed
  <2> QED BY <1>2, <2>1, RowKeptStep DEF AutoApprove
<1>3. CASE CreatorCrash
  BY <1>3, RowKeptStep DEF CreatorCrash, RowKept, SweepInv, GoneIsUnclaimed
<1> QED BY <1>1, <1>2, <1>3 DEF CreateStep

\* A claim takes its snapshot from the row it claims.
LEMMA ClaimSweeps ==
  ASSUME TypeInv, SweepInv, NEW w \in Workers,
         NEW sweep \in {"expire", "max_iterations", "monitoring", "ladder"},
         Exists, sweep = "expire" => due, Claim(w, sweep)
  PROVE  SweepInv'
<1>0. review \in ReviewType /\ worker \in [Workers -> WorkerType]
  BY DEF TypeInv, TypeOK
<1>1. /\ review'.status = review.status /\ review'.claimed_by = w
      /\ review'.timeout_action = review.timeout_action
      /\ review'.ladder_index = review.ladder_index
  BY <1>0 DEF Claim, ReviewType
<1>2. /\ worker'[w].pc = "claimed" /\ worker'[w].sweep = sweep
      /\ worker'[w].action = review.timeout_action
      /\ worker'[w].rung = review.ladder_index
      /\ \A x \in Workers : x # w => worker'[x] = worker[x]
  BY <1>0 DEF Claim
<1>3. due' = due
  BY DEF Claim
<1>4. GoneIsUnclaimed' /\ IdleSweepsNothing'
  BY <1>1, <1>2 DEF SweepInv, GoneIsUnclaimed, IdleSweepsNothing, Exists
<1>5. SnapshotOK'
  BY <1>1, <1>2, <1>3 DEF SweepInv, SnapshotOK, Exists
<1> QED BY <1>4, <1>5 DEF SweepInv

\* The write of a tick; it releases the claim, so that the rung may change.
LEMMA FinishSweeps ==
  ASSUME TypeInv, SweepInv, NEW w \in Workers, NEW guard, NEW row, NEW outcome,
         Finish(w, guard, row, outcome),
         guard => /\ review.status # "absent"
                  /\ Unclaimed(row).status # "absent"
                  /\ Unclaimed(row).timeout_action = review.timeout_action
                  /\ Unclaimed(row).claimed_by = None
  PROVE  SweepInv'
<1>0. worker \in [Workers -> WorkerType]
  BY DEF TypeInv, TypeOK
<1>1. due' = due
  BY DEF Finish
<1>2. \A x \in Workers : x # w => worker'[x] = worker[x]
  BY <1>0 DEF Finish
<1>3. worker'[w].pc # "claimed" /\ worker'[w].sweep = "none"
  <2>1. CASE guard /\ outcome # "none"
    BY <1>0, <2>1 DEF Finish, IdleWorker
  <2>2. CASE ~(guard /\ outcome # "none")
    BY <1>0, <2>2 DEF Finish, IdleWorker
  <2> QED BY <2>1, <2>2
<1>4. RowKept
  <2>1. CASE guard
    <3>1. review' = Unclaimed(row)
      BY <2>1 DEF Finish
    <3> QED BY <2>1, <3>1 DEF RowKept
  <2>2. CASE ~guard
    <3>1. review' = review
      BY <2>2 DEF Finish
    <3> QED BY <3>1 DEF RowKept, SweepInv, GoneIsUnclaimed
  <2> QED BY <2>1, <2>2
<1> QED BY <1>1, <1>2, <1>3, <1>4, RowKeptStep

LEMMA HeldExists ==
  ASSUME SweepInv, NEW w \in Workers, review.claimed_by = w PROVE review.status # "absent"
  BY ConstantsAssumption DEF SweepInv, GoneIsUnclaimed, Absent

LEMMA ProcessStepSweeps ==
  ASSUME TypeInv, SweepInv, NEW w \in Workers, ProcessStep(w) PROVE SweepInv'
<1>0. review \in ReviewType /\ worker[w] \in WorkerType
  BY DEF TypeInv, TypeOK
<1>1. CASE ProcessOne(w)
  <2> DEFINE decision == IF worker[w].action = "auto_approve" THEN "approved" ELSE "rejected"
             lapsed == [review EXCEPT !.status = "expired"]
             forced == [review EXCEPT !.status = "decided", !.decision = decision,
                            !.decided_by = "system:timeout",
                            !.approved_value = worker[w].payload]
  <2>1. /\ Unclaimed(lapsed).status # "absent" /\ Unclaimed(lapsed).claimed_by = None
        /\ Unclaimed(lapsed).timeout_action = review.timeout_action
        /\ Unclaimed(forced).status # "absent" /\ Unclaimed(forced).claimed_by = None
        /\ Unclaimed(forced).timeout_action = review.timeout_action
    BY <1>0 DEF Unclaimed, ReviewType
  <2>2. ProcessGuard(w) => review.status # "absent"
    BY HeldExists DEF ProcessGuard
  <2>3. \/ Finish(w, ProcessGuard(w), lapsed, "expired")
        \/ Finish(w, ProcessGuard(w), forced, decision)
    BY <1>1 DEF ProcessOne
  <2> HIDE DEF decision, lapsed, forced
  <2> QED BY <2>1, <2>2, <2>3, FinishSweeps
<1>2. CASE CloseMaxIterations(w)
  <2> DEFINE closed == [review EXCEPT !.status = "decided",
                            !.decision = "max_iterations_reached",
                            !.decided_by = "system:max_iterations"]
  <2>1. /\ Unclaimed(closed).status # "absent" /\ Unclaimed(closed).claimed_by = None
        /\ Unclaimed(closed).timeout_action = review.timeout_action
    BY <1>0 DEF Unclaimed, ReviewType
  <2>2. CloseGuard => review.status # "absent"
    BY DEF CloseGuard, Iterating
  <2>3. Finish(w, CloseGuard, closed, "max_iterations_reached")
    BY <1>2 DEF CloseMaxIterations
  <2> HIDE DEF closed
  <2> QED BY <2>1, <2>2, <2>3, FinishSweeps
<1>3. CASE ConfirmOne(w)
  <2> DEFINE confirmed == [review EXCEPT !.status = "decided", !.decision = "confirmed",
                               !.decided_by = "system:monitoring_window"]
  <2>1. /\ Unclaimed(confirmed).status # "absent" /\ Unclaimed(confirmed).claimed_by = None
        /\ Unclaimed(confirmed).timeout_action = review.timeout_action
    BY <1>0 DEF Unclaimed, ReviewType
  <2>2. ConfirmGuard(w) => review.status # "absent"
    BY DEF ConfirmGuard
  <2>3. Finish(w, ConfirmGuard(w), confirmed, "confirmed")
    BY <1>3 DEF ConfirmOne
  <2> HIDE DEF confirmed
  <2> QED BY <2>1, <2>2, <2>3, FinishSweeps
<1>4. CASE PromoteOne(w)
  <2> DEFINE promoted == [review EXCEPT !.ladder_index = worker[w].rung + 1]
  <2>1. PromoteGuard(w) => review.status # "absent"
    BY HeldExists DEF PromoteGuard
  <2>2. /\ Unclaimed(promoted).status = review.status
        /\ Unclaimed(promoted).claimed_by = None
        /\ Unclaimed(promoted).timeout_action = review.timeout_action
    BY <1>0 DEF Unclaimed, ReviewType
  <2>3. Finish(w, PromoteGuard(w), promoted, "none")
    BY <1>4 DEF PromoteOne
  <2> HIDE DEF promoted
  <2> QED BY <2>1, <2>2, <2>3, FinishSweeps
<1> QED BY <1>1, <1>2, <1>3, <1>4 DEF ProcessStep

LEMMA WorkerStepSweeps ==
  ASSUME TypeInv, SweepInv, NEW w \in Workers, WorkerStep(w) PROVE SweepInv'
<1>0. review \in ReviewType /\ worker \in [Workers -> WorkerType]
  BY DEF TypeInv, TypeOK
<1>1. CASE ClaimExpired(w)
  BY <1>1, ClaimSweeps DEF ClaimExpired, Exists
<1>2. CASE ClaimMaxIterations(w)
  BY <1>2, ClaimSweeps DEF ClaimMaxIterations, Iterating, Exists
<1>3. CASE ClaimMonitoring(w)
  BY <1>3, ClaimSweeps DEF ClaimMonitoring, Exists
<1>4. CASE ClaimLadder(w)
  BY <1>4, ClaimSweeps DEF ClaimLadder, Exists
<1>5. CASE ProcessStep(w)
  BY <1>5, ProcessStepSweeps
<1>6. CASE WorkerAnnounce(w) \/ WorkerFails(w) \/ WorkerCrash(w)
  <2>1. \A x \in Workers : \/ worker'[x] = worker[x]
                           \/ worker'[x].pc # "claimed" /\ worker'[x].sweep = "none"
    BY <1>0, <1>6 DEF WorkerAnnounce, WorkerFails, WorkerCrash, IdleWorker
  <2>2. due' = due
    BY <1>6 DEF WorkerAnnounce, WorkerFails, WorkerCrash
  <2>3. RowKept
    <3>1. review' = review \/ review' = Unclaimed(review)
      BY <1>6 DEF WorkerAnnounce, WorkerFails, WorkerCrash
    <3>2. CASE review' = review
      BY <3>2 DEF RowKept, SweepInv, GoneIsUnclaimed
    <3>3. CASE review' = Unclaimed(review)
      BY <1>0, <3>3 DEF Unclaimed, ReviewType, RowKept
    <3> QED BY <3>1, <3>2, <3>3
  <2> QED BY <2>1, <2>2, <2>3, RowKeptStep
<1> QED BY <1>1, <1>2, <1>3, <1>4, <1>5, <1>6 DEF WorkerStep

LEMMA OtherStepSweeps ==
  ASSUME TypeInv, SweepInv, RowStep \/ TimeStep PROVE SweepInv'
<1>0. review \in ReviewType
  BY DEF TypeInv, TypeOK
<1>1. (due => due') /\ worker' = worker
  BY DEF RowStep, UpdateVersion, Archive, Unarchive, Delete, Snooze, RevertChanges,
         TimeStep, DeadlinePasses, SnoozeElapses, ClaimAges
<1>2. CASE RowStep
  <2>1. CASE Delete
    BY <1>1, <2>1, RowKeptStep DEF Delete, RowKept, Absent
  <2>2. CASE RowStep /\ ~Delete
    <3>1. /\ review.status # "absent" /\ review'.status # "absent"
          /\ review'.timeout_action = review.timeout_action
          /\ review'.claimed_by = review.claimed_by
          /\ review'.ladder_index = review.ladder_index
      BY <1>0, <2>2 DEF RowStep, UpdateVersion, Archive, Unarchive, Snooze,
         RevertChanges, Iterating, ReviewType
    <3> QED BY <1>1, <3>1, RowKeptStep DEF RowKept
  <2> QED BY <1>2, <2>1, <2>2
<1>3. CASE TimeStep
  <2>1. /\ review'.status = review.status
        /\ review'.timeout_action = review.timeout_action
        /\ review'.claimed_by = review.claimed_by
        /\ review'.ladder_index = review.ladder_index
    BY <1>0, <1>3 DEF TimeStep, DeadlinePasses, SnoozeElapses, ClaimAges, ReviewType
  <2> QED BY <1>1, <2>1, RowKeptStep DEF RowKept, SweepInv, GoneIsUnclaimed
<1> QED BY <1>2, <1>3

LEMMA NextSweepInv == TypeInv /\ MonitoringInv /\ SweepInv /\ [Next]_vars => SweepInv'
<1> SUFFICES ASSUME TypeInv, MonitoringInv, SweepInv, [Next]_vars PROVE SweepInv'
  OBVIOUS
<1>1. CASE Next
  BY <1>1, CreateStepSweeps, RequestStepSweeps, WorkerStepSweeps, OtherStepSweeps DEF Next
<1>2. CASE UNCHANGED vars
  BY <1>2 DEF vars, SweepInv, GoneIsUnclaimed, IdleSweepsNothing, SnapshotOK, Exists
<1> QED BY <1>1, <1>2

\* What the proofs below reason from, in one inductive invariant.
RowInv == TypeInv /\ MonitoringInv /\ SweepInv

LEMMA RowInvariant == Spec => []RowInv
<1>1. Init => RowInv
  <2> SUFFICES ASSUME Init PROVE RowInv
    OBVIOUS
  <2>1. MonitoringInv
    BY DEF Init, MonitoringInv, NothingBeforeCreate, MonitoringStatus, OnlyTheWindowSweep,
           LoadedOpen, Absent, IdleRequest, IdleWorker
  <2>2. SweepInv
    BY DEF Init, SweepInv, GoneIsUnclaimed, IdleSweepsNothing, SnapshotOK, IdleWorker, Absent
  <2> QED BY <2>1, <2>2, InitTypeInv DEF RowInv
<1>2. RowInv /\ [Next]_vars => RowInv'
  BY NextTypeInv, StepKeepsGate, NextSweepInv DEF RowInv
<1> QED BY <1>1, <1>2, PTL DEF Spec

\* The rung changes only by the promotion of the tick whose claim is on record, and
\* that tick read the rung it promotes from.
LEMMA StepClimbs ==
  ASSUME RowInv, [Next]_vars, review'.status # "absent"
  PROVE  review'.ladder_index \in {review.ladder_index, review.ladder_index + 1}
<1>0. review \in ReviewType /\ worker \in [Workers -> WorkerType]
  BY DEF RowInv, TypeInv, TypeOK
<1>1. CASE CreateStep
  <2>1. ASSUME NEW oversight \in {"blocking", "monitoring"}, NEW expires \in BOOLEAN,
               NEW auto \in BOOLEAN, NEW action \in Timeouts,
               Create(oversight, expires, action, auto)
        PROVE  review'.ladder_index = review.ladder_index
    <3>1. review = Absent /\ Absent \in ReviewType
      BY <2>1, AbsentType DEF Create
    <3>2. review'.ladder_index = Absent.ladder_index
      BY <2>1 DEF Create, Absent
    <3> QED BY <3>1, <3>2
  <2>2. CASE AutoApprove \/ CreatorCrash
    BY <1>0, <2>2 DEF AutoApprove, CreatorCrash, ReviewType
  <2> QED BY <1>1, <2>1, <2>2 DEF CreateStep
<1>2. ASSUME NEW r \in Requests, RequestStep(r) PROVE review'.ladder_index = review.ladder_index
  <2>1. CASE UNCHANGED review
    BY <2>1
  <2>2. CASE CommitAction(r)
    <3> DEFINE q == req[r]
    <3>1. review' = StateUpdate(review, q)
      BY <2>2 DEF CommitAction
    <3> HIDE DEF q
    <3> QED BY <1>0, <3>1 DEF StateUpdate, ReviewType
  <2>3. ASSUME NEW d \in {"vetoed", "confirmed"}, ResolveMonitoring(r, d)
        PROVE  review'.ladder_index = review.ladder_index
    BY <1>0, <2>3 DEF ResolveMonitoring, ReviewType
  <2> QED BY <1>2, <2>1, <2>2, <2>3
      DEF RequestStep, OpenPage, LeavePage, LoadReview, CommitConflict, Announce, RequestCrash
<1>3. ASSUME NEW w \in Workers, WorkerStep(w)
      PROVE  review'.ladder_index \in {review.ladder_index, review.ladder_index + 1}
  <2>1. CASE PromoteOne(w)
    <3>1. CASE PromoteGuard(w)
      <4>1. worker[w].rung = review.ladder_index
        BY <2>1, <3>1 DEF PromoteOne, Doing, PromoteGuard, RowInv, SweepInv, SnapshotOK
      <4>2. review' = Unclaimed([review EXCEPT !.ladder_index = worker[w].rung + 1])
        BY <2>1, <3>1 DEF PromoteOne, Finish
      <4> QED BY <1>0, <4>1, <4>2 DEF Unclaimed, ReviewType
    <3>2. CASE ~PromoteGuard(w)
      BY <2>1, <3>2 DEF PromoteOne, Finish
    <3> QED BY <3>1, <3>2
  <2>2. CASE ProcessOne(w)
    <3>1. CASE worker[w].action = "expire"
      BY <1>0, <2>2, <3>1 DEF ProcessOne, Finish, Unclaimed, ReviewType
    <3>2. CASE worker[w].action # "expire"
      BY <1>0, <2>2, <3>2 DEF ProcessOne, Finish, Unclaimed, ReviewType
    <3> QED BY <3>1, <3>2
  <2>3. CASE CloseMaxIterations(w) \/ ConfirmOne(w)
    BY <1>0, <2>3 DEF CloseMaxIterations, ConfirmOne, Finish, Unclaimed, ReviewType
  <2>4. CASE ClaimExpired(w) \/ ClaimMaxIterations(w) \/ ClaimMonitoring(w) \/ ClaimLadder(w)
    BY <1>0, <2>4
    DEF ClaimExpired, ClaimMaxIterations, ClaimMonitoring, ClaimLadder, Claim, ReviewType
  <2>5. CASE WorkerAnnounce(w) \/ WorkerFails(w) \/ WorkerCrash(w)
    BY <1>0, <2>5 DEF WorkerAnnounce, WorkerFails, WorkerCrash, Unclaimed, ReviewType
  <2> QED BY <1>3, <2>1, <2>2, <2>3, <2>4, <2>5 DEF WorkerStep, ProcessStep
<1>4. CASE RowStep
  <2>1. ~Delete
    BY DEF Delete, Absent
  <2>2. review'.ladder_index = review.ladder_index
    BY <1>0, <1>4, <2>1 DEF RowStep, UpdateVersion, Archive, Unarchive, Snooze,
       RevertChanges, ReviewType
  <2> QED BY <2>2
<1>5. CASE TimeStep
  BY <1>0, <1>5 DEF TimeStep, DeadlinePasses, SnoozeElapses, ClaimAges, ReviewType
<1>6. CASE UNCHANGED vars
  BY <1>6 DEF vars
<1> QED BY <1>1, <1>2, <1>3, <1>4, <1>5, <1>6 DEF Next

\* However many ticks overlap, stall or crash, the ladder is climbed one rung at a
\* time and never down.
THEOREM OneRungAtATime == Spec => LadderClimbsOneRung
<1> DEFINE Climbs == review'.status # "absent" =>
               review'.ladder_index \in {review.ladder_index, review.ladder_index + 1}
<1>1. RowInv /\ [Next]_vars => [Climbs]_vars
  BY StepClimbs
<1> HIDE DEF Climbs
<1>2. Spec => [][Climbs]_vars
  BY <1>1, RowInvariant, PTL DEF Spec
<1> QED BY <1>2 DEF LadderClimbsOneRung, Climbs

-----------------------------------------------------------------------------
(***************************************************************************)
(* Decisions that nobody took.                                             *)
(***************************************************************************)
\* A step that leaves the outcome alone, or records one of somebody else.
OutcomeKept ==
    \/ review'.decided_by \notin {"system:timeout", "system:monitoring_window"}
    \/ /\ review'.decided_by = review.decided_by
       /\ review'.decision = review.decision
       /\ review'.oversight = review.oversight
       /\ review'.timeout_action = review.timeout_action

LEMMA OutcomeKeptStep ==
  ASSUME UnattendedAsConfigured, OutcomeKept, due => due' PROVE UnattendedAsConfigured'
  BY DEF UnattendedAsConfigured, OutcomeKept

LEMMA CreateStepUnattended ==
  ASSUME RowInv, UnattendedAsConfigured, CreateStep PROVE UnattendedAsConfigured'
<1>0. review \in ReviewType
  BY DEF RowInv, TypeInv, TypeOK
<1>1. due' = due
  BY DEF CreateStep, Create, AutoApprove, CreatorCrash
<1>2. ASSUME NEW oversight \in {"blocking", "monitoring"}, NEW expires \in BOOLEAN,
             NEW auto \in BOOLEAN, NEW action \in Timeouts,
             Create(oversight, expires, action, auto)
      PROVE  OutcomeKept
  BY <1>2 DEF Create, Absent, OutcomeKept
<1>3. CASE AutoApprove \/ CreatorCrash
  <2>1. OutcomeKept
    BY <1>0, <1>3 DEF AutoApprove, CreatorCrash, OutcomeKept, ReviewType
  <2> QED BY <1>1, <2>1, OutcomeKeptStep
<1> QED BY <1>1, <1>2, <1>3, OutcomeKeptStep DEF CreateStep

LEMMA RequestStepUnattended ==
  ASSUME RowInv, UnattendedAsConfigured, NEW r \in Requests, RequestStep(r)
  PROVE  UnattendedAsConfigured'
<1>0. review \in ReviewType
  BY DEF RowInv, TypeInv, TypeOK
<1>1. due' = due
  BY DEF RequestStep, OpenPage, LeavePage, LoadReview, CommitAction, CommitConflict,
         Announce, RequestCrash, ResolveMonitoring
<1>2. OutcomeKept
  <2>1. CASE UNCHANGED review
    BY <2>1 DEF OutcomeKept
  <2>2. CASE CommitAction(r)
    <3> DEFINE q == req[r]
    <3>1. review' = StateUpdate(review, q)
      BY <2>2 DEF CommitAction
    <3> HIDE DEF q
    <3> QED BY <1>0, <3>1 DEF StateUpdate, ReviewType, OutcomeKept
  <2>3. ASSUME NEW d \in {"vetoed", "confirmed"}, ResolveMonitoring(r, d) PROVE OutcomeKept
    BY <1>0, <2>3 DEF ResolveMonitoring, ReviewType, OutcomeKept
  <2> QED BY <2>1, <2>2, <2>3
      DEF RequestStep, OpenPage, LeavePage, LoadReview, CommitConflict, Announce, RequestCrash
<1> QED BY <1>1, <1>2, OutcomeKeptStep

\* The forced decision is the configured one because the tick still reads the
\* configuration of the row it claimed; the lapse needs an open window.
LEMMA ProcessStepUnattended ==
  ASSUME RowInv, UnattendedAsConfigured, NEW w \in Workers, ProcessStep(w)
  PROVE  UnattendedAsConfigured'
<1>0. review \in ReviewType /\ worker[w] \in WorkerType
  BY DEF RowInv, TypeInv, TypeOK
<1>1. due' = due
  BY DEF ProcessStep, ProcessOne, CloseMaxIterations, ConfirmOne, PromoteOne, Finish
<1>2. CASE review' = review
  BY <1>1, <1>2, OutcomeKeptStep DEF OutcomeKept
<1>3. CASE ProcessOne(w) /\ ProcessGuard(w)
  <2>1. CASE worker[w].action = "expire"
    <3>1. OutcomeKept
      BY <1>0, <1>3, <2>1 DEF ProcessOne, Finish, Unclaimed, ReviewType, OutcomeKept
    <3> QED BY <1>1, <3>1, OutcomeKeptStep
  <2>2. CASE worker[w].action # "expire"
    <3> DEFINE decision == IF worker[w].action = "auto_approve" THEN "approved" ELSE "rejected"
    <3>1. /\ review'.decision = decision /\ review'.decided_by = "system:timeout"
          /\ review'.oversight = review.oversight
          /\ review'.timeout_action = review.timeout_action
      BY <1>0, <1>3, <2>2 DEF ProcessOne, Finish, Unclaimed, ReviewType
    <3>2. worker[w].pc = "claimed" /\ worker[w].sweep = "expire" /\ review.claimed_by = w
      BY <1>3 DEF ProcessOne, Doing, ProcessGuard
    <3>3. worker[w].action = review.timeout_action /\ due
      BY <3>2, HeldExists DEF RowInv, SweepInv, SnapshotOK, Exists
    <3>4. worker[w].action \in {"auto_approve", "auto_reject"}
      BY <1>0, <2>2 DEF WorkerType, TimeoutAction
    <3>5. review.oversight = "blocking"
      BY <3>2, WorkedOnIsBlocking DEF RowInv
    <3> QED BY <1>1, <3>1, <3>3, <3>4, <3>5 DEF UnattendedAsConfigured
  <2> QED BY <2>1, <2>2
<1>4. CASE CloseMaxIterations(w) /\ CloseGuard
  <2>1. OutcomeKept
    BY <1>0, <1>4 DEF CloseMaxIterations, Finish, Unclaimed, ReviewType, OutcomeKept
  <2> QED BY <1>1, <2>1, OutcomeKeptStep
<1>5. CASE ConfirmOne(w) /\ ConfirmGuard(w)
  <2>1. /\ review'.decision = "confirmed" /\ review'.decided_by = "system:monitoring_window"
        /\ review'.oversight = review.oversight
    BY <1>0, <1>5 DEF ConfirmOne, Finish, Unclaimed, ReviewType
  <2>2. due /\ review.oversight = "monitoring"
    BY <1>5 DEF ConfirmOne, Doing, ConfirmGuard, RowInv, MonitoringInv, MonitoringStatus,
                OnlyTheWindowSweep
  <2> QED BY <1>1, <2>1, <2>2 DEF UnattendedAsConfigured
<1>6. CASE PromoteOne(w) /\ PromoteGuard(w)
  <2>1. OutcomeKept
    BY <1>0, <1>6 DEF PromoteOne, Finish, Unclaimed, ReviewType, OutcomeKept
  <2> QED BY <1>1, <2>1, OutcomeKeptStep
<1> QED BY <1>2, <1>3, <1>4, <1>5, <1>6
    DEF ProcessStep, ProcessOne, CloseMaxIterations, ConfirmOne, PromoteOne, Finish

LEMMA WorkerStepUnattended ==
  ASSUME RowInv, UnattendedAsConfigured, NEW w \in Workers, WorkerStep(w)
  PROVE  UnattendedAsConfigured'
<1>0. review \in ReviewType
  BY DEF RowInv, TypeInv, TypeOK
<1>1. CASE ProcessStep(w)
  BY <1>1, ProcessStepUnattended
<1>2. CASE ~ProcessStep(w)
  <2>1. OutcomeKept
    BY <1>0, <1>2
    DEF WorkerStep, ClaimExpired, ClaimMaxIterations, ClaimMonitoring, ClaimLadder, Claim,
        WorkerAnnounce, WorkerFails, WorkerCrash, Unclaimed, ReviewType, OutcomeKept
  <2>2. due' = due
    BY <1>2
    DEF WorkerStep, ClaimExpired, ClaimMaxIterations, ClaimMonitoring, ClaimLadder, Claim,
        WorkerAnnounce, WorkerFails, WorkerCrash
  <2> QED BY <2>1, <2>2, OutcomeKeptStep
<1> QED BY <1>1, <1>2

LEMMA OtherStepUnattended ==
  ASSUME RowInv, UnattendedAsConfigured, RowStep \/ TimeStep PROVE UnattendedAsConfigured'
<1>0. review \in ReviewType
  BY DEF RowInv, TypeInv, TypeOK
<1>1. due => due'
  BY DEF RowStep, UpdateVersion, Archive, Unarchive, Delete, Snooze, RevertChanges,
         TimeStep, DeadlinePasses, SnoozeElapses, ClaimAges
<1>2. OutcomeKept
  <2>1. CASE Delete
    BY <2>1 DEF Delete, Absent, OutcomeKept
  <2>2. CASE RowStep /\ ~Delete
    BY <1>0, <2>2 DEF RowStep, UpdateVersion, Archive, Unarchive, Snooze, RevertChanges,
       ReviewType, OutcomeKept
  <2>3. CASE TimeStep
    BY <1>0, <2>3 DEF TimeStep, DeadlinePasses, SnoozeElapses, ClaimAges, ReviewType, OutcomeKept
  <2> QED BY <2>1, <2>2, <2>3
<1> QED BY <1>1, <1>2, OutcomeKeptStep

LEMMA UnattendedStep ==
  ASSUME RowInv, UnattendedAsConfigured, [Next]_vars PROVE UnattendedAsConfigured'
<1>1. CASE UNCHANGED vars
  BY <1>1 DEF vars, UnattendedAsConfigured
<1> QED BY <1>1, CreateStepUnattended, RequestStepUnattended, WorkerStepUnattended,
           OtherStepUnattended DEF Next

\* Whatever reviewers, agents and overlapping ticks do, a decision that nobody took
\* is the one that was configured, and it is taken after the deadline.
THEOREM NobodyDecidesEarly == Spec => []UnattendedAsConfigured
<1>1. Init => UnattendedAsConfigured
  BY DEF Init, Absent, UnattendedAsConfigured
<1>2. RowInv /\ UnattendedAsConfigured /\ [Next]_vars => UnattendedAsConfigured'
  BY UnattendedStep
<1> QED BY <1>1, <1>2, RowInvariant, PTL DEF Spec

-----------------------------------------------------------------------------
(***************************************************************************)
(* What a decision is about.  Every payload comes with a version of its    *)
(* own, so a handler that finds its version current holds the payload that *)
(* is on record.                                                           *)
(***************************************************************************)
PayloadInv ==
    /\ review.payload = review.current_version
    /\ \A r \in Requests : req[r].pc = "loaded" => req[r].payload = req[r].version

LEMMA PayloadKept ==
  ASSUME PayloadInv, review'.payload = review'.current_version,
         \A r \in Requests : req'[r].pc = "loaded" => req'[r] = req[r]
  PROVE  PayloadInv'
  BY DEF PayloadInv

LEMMA RequestStepPayload ==
  ASSUME TypeInv, PayloadInv, NEW r \in Requests, RequestStep(r)
  PROVE  /\ PayloadInv'
         /\ \A x \in Requests : req[x].pc = "loaded" /\ req'[x].pc = "committed" =>
              review'.status = "decided" /\ review'.approved_value = review'.payload
<1>0. review \in ReviewType /\ req \in [Requests -> RequestType]
  BY DEF TypeInv, TypeOK
<1>1. \A x \in Requests : x # r => req'[x] = req[x]
  BY <1>0 DEF RequestStep, OpenPage, LeavePage, LoadReview, CommitAction, CommitConflict,
     Announce, RequestCrash, ResolveMonitoring
<1>2. CASE OpenPage(r) \/ LeavePage(r) \/ CommitConflict(r) \/ Announce(r) \/ RequestCrash(r)
  <2>1. review' = review
    BY <1>2 DEF OpenPage, LeavePage, CommitConflict, Announce, RequestCrash
  <2>2. req'[r].pc \notin {"loaded", "committed"}
    <3>1. CASE OpenPage(r)
      <4> DEFINE page == [IdleRequest EXCEPT !.pc = "open", !.version = review.current_version]
      <4>1. req'[r] = page
        BY <1>0, <3>1 DEF OpenPage
      <4>2. page.pc = "open"
        BY DEF IdleRequest
      <4> QED BY <4>1, <4>2
    <3>2. CASE ~OpenPage(r)
      BY <1>0, <1>2, <3>2 DEF LeavePage, CommitConflict, Announce, RequestCrash, IdleRequest
    <3> QED BY <3>1, <3>2
  <2> QED BY <1>1, <2>1, <2>2, PayloadKept DEF PayloadInv
<1>3. ASSUME NEW a \in OfferedActions, LoadReview(r, a)
      PROVE  /\ req'[r].pc = "loaded" /\ req'[r].payload = req'[r].version
             /\ review' = review
  BY <1>0, <1>3 DEF LoadReview, PayloadInv
<1>4. CASE CommitAction(r)
  <2> DEFINE q == req[r]
  <2>1. /\ q.pc = "loaded" /\ review' = StateUpdate(review, q)
        /\ review.current_version = q.version
    BY <1>4 DEF CommitAction, VersionStillCurrent
  <2>2. q.payload = review.payload
    BY <2>1 DEF PayloadInv
  <2>3. /\ req'[r].pc # "loaded"
        /\ req'[r].pc = "committed" => Kind[q.action] = "decision"
    BY <1>0, <1>4 DEF CommitAction, IdleRequest
  <2> HIDE DEF q
  <2>4. review'.payload = review.payload /\ review'.current_version = review.current_version
    BY <1>0, <2>1 DEF StateUpdate, ReviewType
  <2>5. Kind[q.action] = "decision" =>
          review'.status = "decided" /\ review'.approved_value = q.payload
    BY <1>0, <2>1 DEF StateUpdate, ReviewType
  <2> QED BY <1>1, <2>2, <2>3, <2>4, <2>5, PayloadKept DEF PayloadInv
<1>5. ASSUME NEW d \in {"vetoed", "confirmed"}, ResolveMonitoring(r, d)
      PROVE  /\ review'.payload = review'.current_version
             /\ req[r].pc = "idle" /\ req'[r].pc = "committed"
  <2>1. review'.payload = review'.current_version /\ req[r].pc = "idle"
    BY <1>0, <1>5 DEF ResolveMonitoring, ReviewType, PayloadInv
  <2> DEFINE done == [IdleRequest EXCEPT !.pc = "committed", !.decision = d]
  <2>2. req'[r] = done
    BY <1>0, <1>5 DEF ResolveMonitoring
  <2>3. done.pc = "committed"
    BY DEF IdleRequest
  <2> QED BY <2>1, <2>2, <2>3
<1>6. CASE \E a \in OfferedActions : LoadReview(r, a)
  <2>1. PayloadInv'
    BY <1>1, <1>3, <1>6 DEF PayloadInv
  <2> QED BY <1>1, <1>3, <1>6, <2>1
<1>7. CASE \E d \in {"vetoed", "confirmed"} : ResolveMonitoring(r, d)
  <2>1. PayloadInv'
    BY <1>1, <1>5, <1>7, PayloadKept
  <2> QED BY <1>1, <1>5, <1>7, <2>1
<1> QED BY <1>2, <1>4, <1>6, <1>7 DEF RequestStep

LEMMA OtherStepPayload ==
  ASSUME TypeInv, PayloadInv,
         CreateStep \/ RowStep \/ TimeStep \/ \E w \in Workers : WorkerStep(w)
  PROVE  PayloadInv' /\ req' = req
<1>0. review \in ReviewType /\ worker \in [Workers -> WorkerType]
  BY DEF TypeInv, TypeOK
<1>1. CASE CreateStep
  <2>1. ASSUME NEW oversight \in {"blocking", "monitoring"}, NEW expires \in BOOLEAN,
               NEW auto \in BOOLEAN, NEW action \in Timeouts,
               Create(oversight, expires, action, auto)
        PROVE  PayloadInv'
    <3>1. review'.payload = review'.current_version /\ req' = req
      BY <2>1 DEF Create, Absent
    <3> QED BY <3>1, PayloadKept
  <2>2. CASE AutoApprove \/ CreatorCrash
    <3>1. review'.payload = review'.current_version
      BY <1>0, <2>2 DEF AutoApprove, CreatorCrash, ReviewType, PayloadInv
    <3> QED BY <2>2, <3>1, PayloadKept DEF AutoApprove, CreatorCrash
  <2>3. req' = req
    BY <1>1 DEF CreateStep, Create, AutoApprove, CreatorCrash
  <2> QED BY <1>1, <2>1, <2>2, <2>3 DEF CreateStep
<1>2. CASE RowStep
  <2>1. req' = req
    BY <1>2 DEF RowStep, UpdateVersion, Archive, Unarchive, Delete, Snooze, RevertChanges
  <2>2. CASE UpdateVersion
    <3>1. review'.payload = review.current_version + 1
      BY <1>0, <2>2 DEF UpdateVersion, ReviewType
    <3>2. review'.current_version = review.current_version + 1
      BY <1>0, <2>2 DEF UpdateVersion, ReviewType
    <3> QED BY <2>1, <3>1, <3>2, PayloadKept
  <2>3. CASE Delete
    BY <2>1, <2>3, PayloadKept DEF Delete, Absent
  <2>4. CASE RowStep /\ ~UpdateVersion /\ ~Delete
    <3>1. review'.payload = review.payload /\ review'.current_version = review.current_version
      BY <1>0, <2>4 DEF RowStep, Archive, Unarchive, Snooze, RevertChanges, ReviewType
    <3> QED BY <2>1, <3>1, PayloadKept DEF PayloadInv
  <2> QED BY <1>2, <2>2, <2>3, <2>4
<1>3. CASE TimeStep
  <2>1. review'.payload = review.payload /\ review'.current_version = review.current_version
    BY <1>0, <1>3 DEF TimeStep, DeadlinePasses, SnoozeElapses, ClaimAges, ReviewType
  <2>2. req' = req
    BY <1>3 DEF TimeStep, DeadlinePasses, SnoozeElapses, ClaimAges
  <2> QED BY <2>1, <2>2, PayloadKept DEF PayloadInv
<1>4. ASSUME NEW w \in Workers, WorkerStep(w) PROVE PayloadInv' /\ req' = req
  <2>1. review'.payload = review.payload /\ review'.current_version = review.current_version
    <3>1. CASE ProcessOne(w)
      <4>1. CASE worker[w].action = "expire"
        BY <1>0, <3>1, <4>1 DEF ProcessOne, Finish, Unclaimed, ReviewType
      <4>2. CASE worker[w].action # "expire"
        BY <1>0, <3>1, <4>2 DEF ProcessOne, Finish, Unclaimed, ReviewType
      <4> QED BY <4>1, <4>2
    <3>2. CASE CloseMaxIterations(w) \/ ConfirmOne(w) \/ PromoteOne(w)
      BY <1>0, <3>2 DEF CloseMaxIterations, ConfirmOne, PromoteOne, Finish, Unclaimed, ReviewType
    <3>3. CASE ~ProcessStep(w)
      BY <1>0, <1>4, <3>3
      DEF WorkerStep, ClaimExpired, ClaimMaxIterations, ClaimMonitoring, ClaimLadder, Claim,
          WorkerAnnounce, WorkerFails, WorkerCrash, Unclaimed, ReviewType
    <3> QED BY <3>1, <3>2, <3>3 DEF ProcessStep
  <2>2. req' = req
    BY <1>4
    DEF WorkerStep, ClaimExpired, ClaimMaxIterations, ClaimMonitoring, ClaimLadder, Claim,
        ProcessStep, ProcessOne, CloseMaxIterations, ConfirmOne, PromoteOne, Finish,
        WorkerAnnounce, WorkerFails, WorkerCrash
  <2> QED BY <2>1, <2>2, PayloadKept DEF PayloadInv
<1> QED BY <1>1, <1>2, <1>3, <1>4

\* Nobody approves a payload they have not read: what a decision records is the
\* payload of the row it decides, for any number of requests and versions.
THEOREM DecisionsCoverPayload == Spec => DecisionCoversCurrentPayload
<1> DEFINE Covered == \A r \in Requests :
               req[r].pc = "loaded" /\ req'[r].pc = "committed" =>
                 /\ review'.status = "decided"
                 /\ review'.approved_value = review'.payload
<1>1. Init => TypeInv /\ PayloadInv
  BY InitTypeInv DEF Init, Absent, IdleRequest, PayloadInv
<1>2. TypeInv /\ PayloadInv /\ [Next]_vars => (TypeInv /\ PayloadInv)' /\ [Covered]_vars
  <2> SUFFICES ASSUME TypeInv, PayloadInv, [Next]_vars PROVE PayloadInv' /\ [Covered]_vars
    BY NextTypeInv
  <2>1. CASE UNCHANGED vars
    BY <2>1 DEF vars, PayloadInv
  <2>2. ASSUME NEW r \in Requests, RequestStep(r) PROVE PayloadInv' /\ Covered
    BY <2>2, RequestStepPayload
  <2>3. CASE CreateStep \/ RowStep \/ TimeStep \/ \E w \in Workers : WorkerStep(w)
    BY <2>3, OtherStepPayload
  <2> QED BY <2>1, <2>2, <2>3 DEF Next
<1> HIDE DEF Covered
<1>3. Spec => [][Covered]_vars
  BY <1>1, <1>2, PTL DEF Spec
<1> QED BY <1>3 DEF DecisionCoversCurrentPayload, Covered

-----------------------------------------------------------------------------
(***************************************************************************)
(* What the agent of a monitoring gate is told.  A write goes from an      *)
(* unresolved gate, of which nothing can have been said, to the outcome    *)
(* its writer will announce.                                               *)
(***************************************************************************)
SaysWhatIsRecorded ==
    /\ told \subseteq {review.decision}
    /\ \A r \in Requests : req[r].pc = "committed" => req[r].decision = review.decision
    /\ \A w \in Workers :
         worker[w].pc = "committed" => worker[w].outcome = review.decision

SaysNothing ==
    /\ told = {}
    /\ \A r \in Requests : req[r].pc # "committed"
    /\ \A w \in Workers : worker[w].pc # "committed"

ToldInv ==
    /\ creator = "idle" => SaysNothing
    /\ review.oversight = "monitoring" => SaysWhatIsRecorded

\* Nothing is announced that no statement has written.
TellsNoMore ==
    /\ told' \subseteq told \cup {req[r].decision : r \in {x \in Requests : req[x].pc = "committed"}}
                           \cup {worker[w].outcome : w \in {x \in Workers : worker[x].pc = "committed"}}
    /\ \A r \in Requests : req'[r].pc = "committed" => req'[r] = req[r]
    /\ \A w \in Workers : worker'[w].pc = "committed" => worker'[w] = worker[w]

LEMMA TellsNoMoreStep ==
  ASSUME ToldInv, TellsNoMore, creator' = "idle" => creator = "idle",
         review'.oversight = "monitoring" =>
             review.oversight = "monitoring" /\ review'.decision = review.decision
  PROVE  ToldInv'
<1>1. ASSUME SaysNothing PROVE SaysNothing'
  BY <1>1 DEF SaysNothing, TellsNoMore
<1>2. ASSUME SaysWhatIsRecorded, review'.decision = review.decision
      PROVE  SaysWhatIsRecorded'
  <2>1. told' \subseteq {review.decision}
    BY <1>2 DEF SaysWhatIsRecorded, TellsNoMore
  <2> QED BY <1>2, <2>1 DEF SaysWhatIsRecorded, TellsNoMore
<1> QED BY <1>1, <1>2 DEF ToldInv

LEMMA UnresolvedSaysNothing ==
  ASSUME TypeInv, MonitoringInv, ToldInv, review.status = "monitoring"
  PROVE  SaysNothing /\ review.oversight = "monitoring"
<1>1. review.oversight = "monitoring" /\ review.decision = "none"
  BY DEF MonitoringInv, MonitoringStatus
<1>2. told = {}
  BY <1>1 DEF ToldInv, SaysWhatIsRecorded, TypeInv, TypeOK, Outcome
<1> QED BY <1>1, <1>2 DEF ToldInv, SaysWhatIsRecorded, SaysNothing, TypeInv, CarriedOK

LEMMA RequestStepTells ==
  ASSUME RowInv, ToldInv, NEW r \in Requests, RequestStep(r) PROVE ToldInv'
<1>0. /\ review \in ReviewType /\ req \in [Requests -> RequestType]
      /\ TypeInv /\ MonitoringInv
  BY DEF RowInv, TypeInv, TypeOK
<1>1. CASE OpenPage(r) \/ LeavePage(r) \/ CommitConflict(r) \/ Announce(r) \/ RequestCrash(r)
  <2>1. UNCHANGED <<review, creator, worker>>
    BY <1>1 DEF OpenPage, LeavePage, CommitConflict, Announce, RequestCrash
  <2>2. req'[r].pc # "committed" /\ \A x \in Requests : x # r => req'[x] = req[x]
    <3>1. CASE OpenPage(r)
      <4> DEFINE page == [IdleRequest EXCEPT !.pc = "open", !.version = review.current_version]
      <4>1. req' = [req EXCEPT ![r] = page]
        BY <3>1 DEF OpenPage
      <4>2. page.pc = "open"
        BY DEF IdleRequest
      <4> HIDE DEF page
      <4> QED BY <1>0, <4>1, <4>2
    <3>2. CASE ~OpenPage(r)
      BY <1>0, <1>1, <3>2 DEF LeavePage, CommitConflict, Announce, RequestCrash, IdleRequest
    <3> QED BY <3>1, <3>2
  <2>3. \/ told' = told
        \/ req[r].pc = "committed" /\ told' = told \cup {req[r].decision}
    BY <1>1 DEF OpenPage, LeavePage, CommitConflict, Announce, RequestCrash
  <2>4. TellsNoMore
    BY <2>1, <2>2, <2>3 DEF TellsNoMore
  <2> QED BY <2>1, <2>4, TellsNoMoreStep
<1>2. CASE \E a \in OfferedActions : LoadReview(r, a)
  <2>1. UNCHANGED <<review, creator, worker, told>>
    BY <1>2 DEF LoadReview
  <2>2. req'[r].pc = "loaded" /\ \A x \in Requests : x # r => req'[x] = req[x]
    BY <1>0, <1>2 DEF LoadReview
  <2>3. TellsNoMore
    BY <2>1, <2>2 DEF TellsNoMore
  <2> QED BY <2>1, <2>3, TellsNoMoreStep
<1>3. CASE CommitAction(r)
  <2> DEFINE q == req[r]
  <2>1. q.pc = "loaded" /\ creator' = creator /\ review' = StateUpdate(review, q)
    BY <1>3 DEF CommitAction
  <2>2. review.oversight = "blocking" /\ creator # "idle"
    BY <1>0, <2>1, WorkedOnIsBlocking
  <2> HIDE DEF q
  <2>3. review'.oversight = review.oversight
    BY <1>0, <2>1 DEF StateUpdate, ReviewType
  <2> QED BY <2>1, <2>2, <2>3 DEF ToldInv
<1>4. ASSUME NEW d \in {"vetoed", "confirmed"}, ResolveMonitoring(r, d) PROVE ToldInv'
  <2>1. SaysNothing
    BY <1>0, <1>4, UnresolvedSaysNothing DEF ResolveMonitoring
  <2>2. creator # "idle"
    BY <1>0, <1>4 DEF ResolveMonitoring, MonitoringInv, NothingBeforeCreate, Absent
  <2> DEFINE done == [IdleRequest EXCEPT !.pc = "committed", !.decision = d]
  <2>3. /\ review'.decision = d /\ UNCHANGED <<creator, worker, told>>
        /\ req' = [req EXCEPT ![r] = done]
    BY <1>0, <1>4 DEF ResolveMonitoring, ReviewType
  <2>4. done.decision = d
    BY DEF IdleRequest
  <2> HIDE DEF done
  <2>5. \A x \in Requests : req'[x].pc = "committed" => req'[x].decision = d
    BY <1>0, <2>1, <2>3, <2>4 DEF SaysNothing
  <2> QED BY <2>1, <2>2, <2>3, <2>5 DEF ToldInv, SaysNothing, SaysWhatIsRecorded
<1> QED BY <1>1, <1>2, <1>3, <1>4 DEF RequestStep

\* A tick that writes nothing, or writes a review that is no gate.
LEMMA FinishTells ==
  ASSUME RowInv, ToldInv, NEW w \in Workers, NEW guard, NEW row, NEW outcome,
         Finish(w, guard, row, outcome),
         guard => /\ worker[w].pc = "claimed" /\ worker[w].sweep # "monitoring"
                  /\ Unclaimed(row).oversight = review.oversight
  PROVE  ToldInv'
<1>0. worker \in [Workers -> WorkerType] /\ TypeInv /\ MonitoringInv
  BY DEF RowInv, TypeInv, TypeOK
<1>1. CASE guard
  <2>1. review.oversight = "blocking" /\ creator # "idle"
    BY <1>0, <1>1, WorkedOnIsBlocking
  <2>2. review' = Unclaimed(row) /\ creator' = creator
    BY <1>1 DEF Finish
  <2> QED BY <1>1, <2>1, <2>2 DEF ToldInv
<1>2. CASE ~guard
  <2>1. worker' = [worker EXCEPT ![w] = IdleWorker] /\ UNCHANGED <<review, creator, req, told>>
    BY <1>2 DEF Finish
  <2>2. TellsNoMore
    BY <1>0, <2>1 DEF TellsNoMore, IdleWorker
  <2> QED BY <2>1, <2>2, TellsNoMoreStep
<1> QED BY <1>1, <1>2

LEMMA ProcessStepTells ==
  ASSUME RowInv, ToldInv, NEW w \in Workers, ProcessStep(w) PROVE ToldInv'
<1>0. /\ review \in ReviewType /\ worker \in [Workers -> WorkerType]
      /\ TypeInv /\ MonitoringInv
  BY DEF RowInv, TypeInv, TypeOK
<1>1. CASE ProcessOne(w)
  <2> DEFINE decision == IF worker[w].action = "auto_approve" THEN "approved" ELSE "rejected"
             lapsed == [review EXCEPT !.status = "expired"]
             forced == [review EXCEPT !.status = "decided", !.decision = decision,
                            !.decided_by = "system:timeout",
                            !.approved_value = worker[w].payload]
  <2>1. /\ Unclaimed(lapsed).oversight = review.oversight
        /\ Unclaimed(forced).oversight = review.oversight
    BY <1>0 DEF Unclaimed, ReviewType
  <2>2. worker[w].pc = "claimed" /\ worker[w].sweep # "monitoring"
    BY <1>1 DEF ProcessOne, Doing
  <2>3. \/ Finish(w, ProcessGuard(w), lapsed, "expired")
        \/ Finish(w, ProcessGuard(w), forced, decision)
    BY <1>1 DEF ProcessOne
  <2> HIDE DEF decision, lapsed, forced
  <2> QED BY <2>1, <2>2, <2>3, FinishTells
<1>2. CASE CloseMaxIterations(w)
  <2> DEFINE closed == [review EXCEPT !.status = "decided",
                            !.decision = "max_iterations_reached",
                            !.decided_by = "system:max_iterations"]
  <2>1. Unclaimed(closed).oversight = review.oversight
    BY <1>0 DEF Unclaimed, ReviewType
  <2>2. worker[w].pc = "claimed" /\ worker[w].sweep # "monitoring"
    BY <1>2 DEF CloseMaxIterations, Doing
  <2>3. Finish(w, CloseGuard, closed, "max_iterations_reached")
    BY <1>2 DEF CloseMaxIterations
  <2> HIDE DEF closed
  <2> QED BY <2>1, <2>2, <2>3, FinishTells
<1>3. CASE PromoteOne(w)
  <2> DEFINE promoted == [review EXCEPT !.ladder_index = worker[w].rung + 1]
  <2>1. Unclaimed(promoted).oversight = review.oversight
    BY <1>0 DEF Unclaimed, ReviewType
  <2>2. worker[w].pc = "claimed" /\ worker[w].sweep # "monitoring"
    BY <1>3 DEF PromoteOne, Doing
  <2>3. Finish(w, PromoteGuard(w), promoted, "none")
    BY <1>3 DEF PromoteOne
  <2> HIDE DEF promoted
  <2> QED BY <2>1, <2>2, <2>3, FinishTells
<1>4. CASE ConfirmOne(w)
  <2> DEFINE confirmed == [review EXCEPT !.status = "decided", !.decision = "confirmed",
                               !.decided_by = "system:monitoring_window"]
             done == [IdleWorker EXCEPT !.pc = "committed", !.outcome = "confirmed"]
  <2>1. Finish(w, ConfirmGuard(w), confirmed, "confirmed")
    BY <1>4 DEF ConfirmOne
  <2>2. CASE ~ConfirmGuard(w)
    BY <2>1, <2>2, FinishTells
  <2>3. CASE ConfirmGuard(w)
    <3>1. SaysNothing /\ review.status = "monitoring"
      BY <1>0, <2>3, UnresolvedSaysNothing DEF ConfirmGuard
    <3>2. creator # "idle"
      BY <1>0, <3>1 DEF MonitoringInv, NothingBeforeCreate, Absent
    <3>3. /\ worker' = [worker EXCEPT ![w] = done] /\ review' = Unclaimed(confirmed)
          /\ UNCHANGED <<creator, req, told>>
      BY <2>1, <2>3 DEF Finish
    <3>4. Unclaimed(confirmed).decision = "confirmed"
      BY <1>0 DEF Unclaimed, ReviewType
    <3>5. done.outcome = "confirmed"
      BY DEF IdleWorker
    <3> HIDE DEF done, confirmed
    <3>6. \A x \in Workers : worker'[x].pc = "committed" => worker'[x].outcome = "confirmed"
      BY <1>0, <3>1, <3>3, <3>5 DEF SaysNothing
    <3> QED BY <3>1, <3>2, <3>3, <3>4, <3>6 DEF ToldInv, SaysNothing, SaysWhatIsRecorded
  <2> QED BY <2>2, <2>3
<1> QED BY <1>1, <1>2, <1>3, <1>4 DEF ProcessStep

LEMMA WorkerStepTells ==
  ASSUME RowInv, ToldInv, NEW w \in Workers, WorkerStep(w) PROVE ToldInv'
<1>0. review \in ReviewType /\ worker \in [Workers -> WorkerType]
  BY DEF RowInv, TypeInv, TypeOK
<1>1. CASE ProcessStep(w)
  BY <1>1, ProcessStepTells
<1>2. CASE ~ProcessStep(w)
  <2>1. /\ review'.oversight = review.oversight /\ review'.decision = review.decision
        /\ UNCHANGED <<creator, req>>
    BY <1>0, <1>2
    DEF WorkerStep, ClaimExpired, ClaimMaxIterations, ClaimMonitoring, ClaimLadder, Claim,
        WorkerAnnounce, WorkerFails, WorkerCrash, Unclaimed, ReviewType
  <2>2. /\ worker'[w].pc # "committed"
        /\ \A x \in Workers : x # w => worker'[x] = worker[x]
    BY <1>0, <1>2
    DEF WorkerStep, ClaimExpired, ClaimMaxIterations, ClaimMonitoring, ClaimLadder, Claim,
        WorkerAnnounce, WorkerFails, WorkerCrash, IdleWorker
  <2>3. \/ told' = told
        \/ worker[w].pc = "committed" /\ told' = told \cup {worker[w].outcome}
    BY <1>2
    DEF WorkerStep, ClaimExpired, ClaimMaxIterations, ClaimMonitoring, ClaimLadder, Claim,
        WorkerAnnounce, WorkerFails, WorkerCrash
  <2>4. TellsNoMore
    BY <2>1, <2>2, <2>3 DEF TellsNoMore
  <2> QED BY <2>1, <2>4, TellsNoMoreStep
<1> QED BY <1>1, <1>2

LEMMA OtherStepTells ==
  ASSUME RowInv, ToldInv, CreateStep \/ RowStep \/ TimeStep PROVE ToldInv'
<1>0. review \in ReviewType /\ TypeInv /\ MonitoringInv
  BY DEF RowInv, TypeInv, TypeOK
<1>1. UNCHANGED <<req, worker, told>> /\ TellsNoMore
  <2>1. UNCHANGED <<req, worker, told>>
    BY DEF CreateStep, Create, AutoApprove, CreatorCrash,
           RowStep, UpdateVersion, Archive, Unarchive, Delete, Snooze, RevertChanges,
           TimeStep, DeadlinePasses, SnoozeElapses, ClaimAges
  <2> QED BY <2>1 DEF TellsNoMore
<1>2. ASSUME NEW oversight \in {"blocking", "monitoring"}, NEW expires \in BOOLEAN,
             NEW auto \in BOOLEAN, NEW action \in Timeouts,
             Create(oversight, expires, action, auto)
      PROVE  ToldInv'
  <2>1. SaysNothing /\ creator' # "idle"
    BY <1>2 DEF Create, ToldInv
  <2> QED BY <1>1, <2>1 DEF ToldInv, SaysNothing, SaysWhatIsRecorded
<1>3. CASE AutoApprove
  <2>1. review.oversight # "monitoring" /\ creator' # "idle"
    BY <1>0, <1>3 DEF AutoApprove, MonitoringInv, OnlyTheWindowSweep
  <2>2. review'.oversight = review.oversight
    BY <1>0, <1>3 DEF AutoApprove, ReviewType
  <2> QED BY <2>1, <2>2 DEF ToldInv
<1>4. CASE CreatorCrash
  BY <1>1, <1>4, TellsNoMoreStep DEF CreatorCrash
<1>5. CASE UpdateVersion \/ RevertChanges
  <2>1. review.oversight = "blocking"
    BY <1>0, <1>5, OpenIsBlocking DEF UpdateVersion, RevertChanges, Iterating
  <2>2. review'.oversight = review.oversight /\ creator' = creator
    BY <1>0, <1>5 DEF UpdateVersion, RevertChanges, ReviewType
  <2> QED BY <1>1, <2>1, <2>2, TellsNoMoreStep
<1>6. CASE Delete
  BY <1>1, <1>6, TellsNoMoreStep DEF Delete, Absent
<1>7. CASE Archive \/ Unarchive \/ (\E on \in BOOLEAN : Snooze(on)) \/ TimeStep
  <2>1. /\ review'.oversight = review.oversight /\ review'.decision = review.decision
        /\ creator' = creator
    BY <1>0, <1>7 DEF Archive, Unarchive, Snooze, TimeStep, DeadlinePasses, SnoozeElapses,
       ClaimAges, ReviewType
  <2> QED BY <1>1, <2>1, TellsNoMoreStep
<1> QED BY <1>2, <1>3, <1>4, <1>5, <1>6, <1>7 DEF CreateStep, RowStep

LEMMA ToldStep ==
  ASSUME RowInv, ToldInv, [Next]_vars PROVE ToldInv'
<1>1. CASE UNCHANGED vars
  BY <1>1 DEF vars, ToldInv, SaysNothing, SaysWhatIsRecorded
<1> QED BY <1>1, RequestStepTells, WorkerStepTells, OtherStepTells DEF Next

\* The agent of a monitoring gate hears the outcome on record and no other, however
\* late the human and the worker come to announce it.
THEOREM GateToldTruth == Spec => []MonitoringToldTruth
<1>1. Init => ToldInv
  BY DEF Init, Absent, IdleRequest, IdleWorker, ToldInv, SaysNothing
<1>2. RowInv /\ ToldInv /\ [Next]_vars => ToldInv'
  BY ToldStep
<1>3. ToldInv => MonitoringToldTruth
  BY DEF ToldInv, SaysWhatIsRecorded, MonitoringToldTruth
<1> QED BY <1>1, <1>2, <1>3, RowInvariant, PTL DEF Spec
=============================================================================
