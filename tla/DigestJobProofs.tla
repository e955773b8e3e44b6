---------------------------- MODULE DigestJobProofs ----------------------------
(***************************************************************************)
(* Proofs about DigestJob for any reviewers, runs, days and faults.        *)
(***************************************************************************)
EXTENDS DigestJob, TLAPS

JobType ==
    [state : {"none", "queued", "active", "done", "failed"}, tries : 0..RetryLimit]
RunType ==
    [pc : {"idle", "begun", "locked", "sending", "answer", "threw"},
     job : Days \cup {None}, now : 0..MaxDay, left : SUBSET Reviewers,
     attempt : 1..MaxAttempts, sent : SUBSET Reviewers]

\* What a run may rely on at each point.  A run that mails is of a later day than the
\* last committed one; one that answers has seen its job's day committed.
Sound(x) ==
    /\ run[x].pc \in {"begun", "locked", "sending"} =>
          run[x].now \in Days /\ (run[x].job # None => run[x].job <= run[x].now)
    /\ run[x].pc \in {"locked", "sending"} => rowlock = x
    /\ run[x].pc # "sending" => run[x].sent = {}
    /\ run[x].pc = "sending" => run[x].left \cap run[x].sent = {}
    /\ run[x].pc = "sending" /\ ~outrun => last < run[x].now
    /\ run[x].pc = "answer" /\ run[x].job # None /\ ~outrun => run[x].job <= last

\* No job is older than its day, and no run has a job of tomorrow.
JobsOK ==
    /\ \A d \in Days : job[d].state # "none" => d <= day
    /\ \A x \in Runs : run[x].job # None => run[x].job <= day

Inv ==
    /\ TypeOK
    /\ \A x \in Runs : Sound(x)
    /\ JobsOK
    /\ DoneMeansCommitted

LEMMA Constants ==
  /\ \A d \in Days : d \in Nat /\ d # None
  /\ 1 \in Days /\ Days \subseteq 0..MaxDay /\ 1 \in 1..MaxAttempts /\ 0 \in 0..RetryLimit
  BY DigestConstants DEF Days

LEMMA IdleType == Idle \in RunType
<1>1. {} \in SUBSET Reviewers /\ 0 \in 0..MaxDay
  BY DigestConstants
<1> QED BY <1>1, Constants DEF Idle, RunType

LEMMA InitInv == Init => Inv
<1> SUFFICES ASSUME Init PROVE Inv
  OBVIOUS
<1>1. TypeOK
  <2>1. run \in [Runs -> RunType]
    BY IdleType DEF Init
  <2>2. mails \in [Reviewers -> [Days -> Nat]]
    BY DEF Init
  <2>3. job \in [Days -> JobType] /\ day \in Days
    BY Constants DEF Init, JobType
  <2>4. last \in 0..MaxDay /\ faults \in 0..MaxFaults /\ undone \in Nat
    BY DigestConstants DEF Init
  <2>5. rowlock \in Runs \cup {None} /\ outrun \in BOOLEAN
    BY DEF Init
  <2> QED BY <2>1, <2>2, <2>3, <2>4, <2>5 DEF TypeOK, JobType, RunType
<1>2. \A x \in Runs : Sound(x)
  BY DEF Init, Sound, Idle
<1>3. JobsOK /\ DoneMeansCommitted
  BY DEF Init, JobsOK, DoneMeansCommitted, Idle
<1> QED BY <1>1, <1>2, <1>3 DEF Inv

\* A run that has nothing to do with the step stays sound.
LEMMA OtherSound ==
  ASSUME Inv, NEW x \in Runs, Sound(x), run'[x] = run[x],
         rowlock = x => rowlock' = x,
         outrun' \in BOOLEAN, outrun => outrun',
         \/ last' = last
         \/ run[x].pc # "sending" /\ last' \in Nat /\ (~outrun' => last <= last')
  PROVE  Sound(x)'
<1>1. last \in Nat /\ run[x].job \in Days \cup {None}
  BY DigestConstants DEF Inv, TypeOK
<1>2. run'[x].pc = "sending" /\ ~outrun' => last' < run'[x].now
  BY <1>1 DEF Sound
<1>3. ASSUME run'[x].pc = "answer", run'[x].job # None, ~outrun'
      PROVE  run'[x].job <= last'
  <2>1. run[x].job \in Nat /\ run[x].job <= last
    BY <1>1, <1>3, Constants DEF Sound
  <2> QED BY <1>1, <1>3, <2>1
<1> QED BY <1>2, <1>3 DEF Sound

\* A step of run x alone that leaves the jobs as they are.
LEMMA RunStep ==
  ASSUME Inv, NEW x \in Runs,
         run' \in [Runs -> RunType], \A y \in Runs : y # x => run'[y] = run[y],
         Sound(x)', UNCHANGED world, run'[x].job \in {run[x].job, None},
         rowlock' \in Runs \cup {None}, \A y \in Runs : y # x /\ rowlock = y => rowlock' = y,
         outrun' \in BOOLEAN, outrun => outrun',
         \/ last' = last
         \/ rowlock = x /\ last' \in Days /\ (~outrun' => last <= last'),
         mails' \in [Reviewers -> [Days -> Nat]], undone' \in Nat, faults' \in 0..MaxFaults
  PROVE  Inv'
<1>1. last \in Nat /\ last' \in Nat /\ last' \in 0..MaxDay /\ (~outrun' => last <= last')
  BY DigestConstants DEF Inv, TypeOK, Days
<1>2. TypeOK'
  BY <1>1 DEF Inv, TypeOK, RunType, world
<1>3. ASSUME NEW y \in Runs, y # x PROVE Sound(y)'
  <2>1. Sound(y) /\ run'[y] = run[y]
    BY <1>3 DEF Inv
  <2>2. rowlock = x => run[y].pc # "sending"
    BY <1>3, <2>1 DEF Sound
  <2> QED BY <1>1, <1>3, <2>1, <2>2, OtherSound
<1>4. JobsOK'
  BY DEF Inv, JobsOK, world
<1>5. DoneMeansCommitted'
  BY <1>1, Constants DEF Inv, DoneMeansCommitted, world
<1> QED BY <1>2, <1>3, <1>4, <1>5 DEF Inv

\* The mail that leaves is counted for a reviewer and the day of the run.
LEMMA MailType ==
  ASSUME Inv, NEW x \in Runs, Sending(x), MailLeaves(x)
  PROVE  /\ Batch(x) \in Reviewers /\ Batch(x) \in run[x].left /\ run[x].now \in Days
         /\ mails' \in [Reviewers -> [Days -> Nat]]
         /\ \A r \in Reviewers, d \in Days :
               mails'[r][d] = IF r = Batch(x) /\ d = run[x].now
                              THEN mails[r][d] + 1 ELSE mails[r][d]
<1>1. Batch(x) \in run[x].left
  BY DEF Batch, Sending
<1>2. Batch(x) \in Reviewers /\ run[x].now \in Days
  BY <1>1 DEF Inv, TypeOK, Sound, Sending
<1> QED BY <1>1, <1>2 DEF MailLeaves, Inv, TypeOK

LEMMA FaultType == ASSUME Inv, Fault PROVE faults' \in 0..MaxFaults
  BY DigestConstants DEF Fault, Inv, TypeOK

\* A run that ends, for whatever reason, has no mail to account for.
LEMMA EndType ==
  ASSUME Inv, NEW x \in Runs, NEW pc \in {"idle", "answer", "threw"}, End(x, pc)
  PROVE  /\ run' \in [Runs -> RunType] /\ \A y \in Runs : y # x => run'[y] = run[y]
         /\ run'[x].pc = pc /\ run'[x].sent = {} /\ run'[x].job = run[x].job
<1>1. [Idle EXCEPT !.pc = pc, !.job = run[x].job] \in RunType
  BY IdleType DEF RunType, Inv, TypeOK
<1>2. run' = [run EXCEPT ![x] = [Idle EXCEPT !.pc = pc, !.job = run[x].job]]
  BY DEF End
<1> QED BY <1>1, <1>2 DEF Inv, TypeOK, RunType, Idle

LEMMA TriggerInv == ASSUME Inv, NEW x \in Runs, Trigger(x) PROVE Inv'
<1> DEFINE begun == [Idle EXCEPT !.pc = "begun", !.now = day]
<1>1. begun \in RunType /\ day \in Days
  BY IdleType, Constants DEF RunType, Inv, TypeOK
<1>2. run' = [run EXCEPT ![x] = begun]
  BY DEF Trigger
<1>3. run' \in [Runs -> RunType] /\ run'[x] = begun /\ \A y \in Runs : y # x => run'[y] = run[y]
  BY <1>1, <1>2 DEF Inv, TypeOK, RunType
<1>4. Sound(x)' /\ run'[x].job = None
  BY <1>1, <1>3 DEF Sound, Idle
<1> QED BY <1>3, <1>4, RunStep DEF Trigger, Inv, TypeOK

LEMMA LockRowInv == ASSUME Inv, NEW x \in Runs, LockRow(x) PROVE Inv'
<1>1. /\ run' \in [Runs -> RunType] /\ run'[x] = [run[x] EXCEPT !.pc = "locked"]
      /\ \A y \in Runs : y # x => run'[y] = run[y]
  BY DEF LockRow, Goto, Inv, TypeOK, RunType
<1>2. run[x].pc = "begun" /\ rowlock = None /\ rowlock' = x /\ Sound(x)
  BY DEF LockRow, Inv
<1>3. /\ run'[x].pc = "locked" /\ run'[x].now = run[x].now /\ run'[x].job = run[x].job
      /\ run'[x].sent = run[x].sent
  BY <1>1 DEF Inv, TypeOK
<1>4. Sound(x)'
  BY <1>2, <1>3 DEF Sound
<1> QED BY <1>1, <1>2, <1>3, <1>4, RunStep, DigestConstants DEF LockRow, Inv, TypeOK

LEMMA SkipTodayInv == ASSUME Inv, NEW x \in Runs, SkipToday(x) PROVE Inv'
<1>1. /\ run[x].pc = "locked" /\ last = run[x].now /\ rowlock = x /\ rowlock' = None
      /\ Sound(x)
  BY DEF SkipToday, RanToday, Inv, Sound
<1>2. End(x, "answer")
  BY DEF SkipToday
<1>3. last' = last
  BY DEF SkipToday
<1>4. Sound(x)'
  BY <1>1, <1>2, <1>3, EndType DEF Sound
<1> QED BY <1>1, <1>2, <1>4, EndType, RunStep DEF SkipToday, Inv, TypeOK

LEMMA ComputeInv == ASSUME Inv, NEW x \in Runs, Compute(x) PROVE Inv'
<1>1. PICK due \in SUBSET Reviewers :
         run' = [run EXCEPT ![x].pc = "sending", ![x].left = due]
  BY DEF Compute
<1>2. /\ run' \in [Runs -> RunType]
      /\ run'[x] = [run[x] EXCEPT !.pc = "sending", !.left = due]
      /\ \A y \in Runs : y # x => run'[y] = run[y]
  <2>1. run[x] \in RunType /\ run \in [Runs -> RunType]
    BY DEF Inv, TypeOK, RunType
  <2>2. [run[x] EXCEPT !.pc = "sending", !.left = due] \in RunType
    BY <2>1 DEF RunType
  <2>3. run' = [run EXCEPT ![x] = [run[x] EXCEPT !.pc = "sending", !.left = due]]
    BY <1>1, <2>1
  <2> QED BY <2>1, <2>2, <2>3
<1>3. /\ run'[x].pc = "sending" /\ run'[x].left = due /\ run'[x].sent = run[x].sent
      /\ run'[x].now = run[x].now /\ run'[x].job = run[x].job
  BY <1>2 DEF Inv, TypeOK
<1>4. /\ run[x].pc = "locked" /\ last # run[x].now /\ Sound(x)
      /\ rowlock' = rowlock /\ last' = last
  BY DEF Compute, RanToday, Inv
<1>5. /\ outrun' = (outrun \/ run[x].now < last)
      /\ UNCHANGED <<world, mails, undone, faults>>
  BY DEF Compute
<1>6. run[x].now \in Nat /\ last \in Nat /\ outrun \in BOOLEAN
  BY DigestConstants DEF Inv, TypeOK
<1>7. ~outrun' => last < run[x].now
  <2>1. ~outrun' => ~(run[x].now < last)
    BY <1>5
  <2>2. ~(run[x].now < last) => last < run[x].now
    BY <1>4, <1>6
  <2> QED BY <2>1, <2>2
<1>8. Sound(x)'
  BY <1>3, <1>4, <1>7 DEF Sound
<1>9. outrun' \in BOOLEAN /\ (outrun => outrun')
  BY <1>5
<1> QED BY <1>2, <1>3, <1>4, <1>5, <1>8, <1>9, RunStep DEF Inv, TypeOK

\* The mailing of one batch: the run stays, with less to do.
LEMMA SendingStep ==
  ASSUME Inv, NEW x \in Runs, Sending(x), NEW v \in RunType, run' = [run EXCEPT ![x] = v],
         v.pc = "sending", v.job = run[x].job, v.now = run[x].now,
         v.left \cap v.sent = {}
  PROVE  /\ run' \in [Runs -> RunType] /\ run'[x] = v
         /\ \A y \in Runs : y # x => run'[y] = run[y]
         /\ UNCHANGED <<rowlock, last, outrun>> => Sound(x)'
<1>1. /\ run' \in [Runs -> RunType] /\ run'[x] = v
      /\ \A y \in Runs : y # x => run'[y] = run[y]
  BY DEF Inv, TypeOK, RunType
<1>2. Sound(x) /\ run[x].pc = "sending"
  BY DEF Inv, Sending
<1> QED BY <1>1, <1>2 DEF Sound

LEMMA NextBatchType ==
  ASSUME Inv, NEW x \in Runs, Sending(x)
  PROVE  /\ Batch(x) \in run[x].left /\ Batch(x) \in Reviewers /\ Batch(x) \notin run[x].sent
         /\ NextBatch(x) \in RunType
         /\ [NextBatch(x) EXCEPT !.sent = @ \cup {Batch(x)}] \in RunType
         /\ NextBatch(x).pc = "sending" /\ NextBatch(x).job = run[x].job
         /\ NextBatch(x).now = run[x].now /\ NextBatch(x).sent = run[x].sent
         /\ NextBatch(x).left = run[x].left \ {Batch(x)}
<1>1. run[x] \in RunType /\ Sound(x) /\ run[x].pc = "sending"
  BY DEF Inv, TypeOK, RunType, Sending
<1>2. Batch(x) \in run[x].left
  BY DEF Batch, Sending
<1>3. Batch(x) \in Reviewers /\ Batch(x) \notin run[x].sent
  BY <1>1, <1>2 DEF RunType, Sound
<1> HIDE DEF Batch
<1>4. (run[x].left \ {Batch(x)}) \in SUBSET Reviewers
      /\ (run[x].sent \cup {Batch(x)}) \in SUBSET Reviewers
  BY <1>1, <1>3 DEF RunType
<1> QED BY <1>1, <1>2, <1>3, <1>4, Constants DEF NextBatch, RunType

LEMMA SendMailInv == ASSUME Inv, NEW x \in Runs, SendMail(x) PROVE Inv'
<1> DEFINE v == [NextBatch(x) EXCEPT !.sent = @ \cup {Batch(x)}]
<1>1. Sending(x) /\ run' = [run EXCEPT ![x] = v] /\ MailLeaves(x)
      /\ UNCHANGED <<world, last, rowlock, outrun, undone, faults>>
  BY DEF SendMail
<1>2. /\ v \in RunType /\ v.pc = "sending" /\ v.job = run[x].job /\ v.now = run[x].now
      /\ v.left = run[x].left \ {Batch(x)} /\ v.sent = run[x].sent \cup {Batch(x)}
  BY <1>1, NextBatchType DEF RunType
<1>3. v.left \cap v.sent = {}
  BY <1>1, <1>2 DEF Inv, Sound, Sending
<1> HIDE DEF v
<1> QED BY <1>1, <1>2, <1>3, SendingStep, MailType, RunStep DEF Inv, TypeOK

\* After an attempt that failed the run tries again or takes the next batch.
LEMMA AfterFailedSendType ==
  ASSUME Inv, NEW x \in Runs, Sending(x), AfterFailedSend(x)
  PROVE  \E v \in RunType : /\ run' = [run EXCEPT ![x] = v] /\ v.pc = "sending"
                            /\ v.job = run[x].job /\ v.now = run[x].now
                            /\ v.left \cap v.sent = {} /\ v.sent = run[x].sent
<1>1. run[x] \in RunType /\ Sound(x) /\ run[x].pc = "sending"
  BY DEF Inv, TypeOK, RunType, Sending
<1>2. CASE AttemptsLeft(x)
  <2>1. run[x].attempt + 1 \in 1..MaxAttempts
    BY <1>1, <1>2, DigestConstants DEF AttemptsLeft, RunType
  <2>2. [run[x] EXCEPT !.attempt = @ + 1] \in RunType
    BY <1>1, <2>1 DEF RunType
  <2> QED BY <1>1, <1>2, <2>2 DEF AfterFailedSend, RunType, Sound
<1>3. CASE ~AttemptsLeft(x)
  BY <1>1, <1>3, NextBatchType DEF AfterFailedSend, Sound
<1> QED BY <1>2, <1>3

LEMMA PassOverInv == ASSUME Inv, NEW x \in Runs, PassOver(x) PROVE Inv'
<1>1. /\ Sending(x) /\ run' = [run EXCEPT ![x] = NextBatch(x)]
      /\ UNCHANGED <<world, last, rowlock, mails, outrun, undone, faults>>
  BY DEF PassOver
<1>2. NextBatch(x).left \cap NextBatch(x).sent = {}
  BY <1>1, NextBatchType DEF Inv, Sound, Sending
<1> QED BY <1>1, <1>2, NextBatchType, SendingStep, RunStep DEF Inv, TypeOK

LEMMA SendFailsInv == ASSUME Inv, NEW x \in Runs, SendFails(x) PROVE Inv'
<1>1. /\ Sending(x) /\ AfterFailedSend(x)
      /\ UNCHANGED <<world, last, rowlock, mails, outrun, undone, faults>>
  BY DEF SendFails
<1> QED BY <1>1, AfterFailedSendType, SendingStep, RunStep DEF Inv, TypeOK

LEMMA SendAnswerLostInv == ASSUME Inv, NEW x \in Runs, SendAnswerLost(x) PROVE Inv'
<1>1. /\ Sending(x) /\ AfterFailedSend(x) /\ Fault /\ MailLeaves(x)
      /\ undone' = undone + 1 /\ UNCHANGED <<world, last, rowlock, outrun>>
  BY DEF SendAnswerLost
<1>2. undone' \in Nat /\ faults' \in 0..MaxFaults
  BY <1>1, FaultType DEF Inv, TypeOK
<1>3. PICK v \in RunType :
         /\ run' = [run EXCEPT ![x] = v] /\ v.pc = "sending"
         /\ v.job = run[x].job /\ v.now = run[x].now
         /\ v.left \cap v.sent = {} /\ v.sent = run[x].sent
  BY <1>1, AfterFailedSendType
<1>4. /\ run' \in [Runs -> RunType] /\ \A y \in Runs : y # x => run'[y] = run[y]
      /\ Sound(x)' /\ run'[x].job = run[x].job
  BY <1>1, <1>3, SendingStep
<1>5. mails' \in [Reviewers -> [Days -> Nat]]
  BY <1>1, MailType
<1>6. rowlock \in Runs \cup {None} /\ outrun \in BOOLEAN
  BY DEF Inv, TypeOK
<1> QED BY <1>1, <1>2, <1>4, <1>5, <1>6, RunStep

\* A commit moves last_run_at forward, unless a run of a later day was first.
LEMMA CommitRunStep ==
  ASSUME Inv, NEW x \in Runs, CommitRun(x)
  PROVE  /\ rowlock = x /\ rowlock' = None /\ Sound(x) /\ run[x].pc = "sending"
         /\ last' = run[x].now /\ last' \in Days /\ (~outrun => last <= last' /\ last < last')
         /\ UNCHANGED <<world, mails, outrun, undone>>
<1>1. /\ run[x].pc = "sending" /\ Sound(x) /\ last' = run[x].now /\ rowlock' = None
      /\ UNCHANGED <<world, mails, outrun, undone>>
  BY DEF CommitRun, Inv
<1>2. last \in Int /\ last' \in Days /\ last' \in Int
  BY <1>1, DigestConstants DEF Sound, Inv, TypeOK, Days
<1>3. rowlock = x /\ (~outrun => last < last')
  BY <1>1 DEF Sound
<1> QED BY <1>1, <1>2, <1>3

LEMMA CommitInv ==
  ASSUME Inv, NEW x \in Runs, NEW pc \in {"answer", "threw"}, CommitRun(x), End(x, pc),
         faults' \in 0..MaxFaults
  PROVE  Inv'
<1>1. /\ rowlock = x /\ rowlock' = None /\ Sound(x) /\ run[x].pc = "sending"
      /\ last' = run[x].now /\ last' \in Days /\ (~outrun => last <= last')
      /\ UNCHANGED <<world, mails, outrun, undone>>
  BY CommitRunStep
<1>2. /\ run' \in [Runs -> RunType] /\ \A y \in Runs : y # x => run'[y] = run[y]
      /\ run'[x].pc = pc /\ run'[x].sent = {} /\ run'[x].job = run[x].job
  BY EndType
<1>3. Sound(x)'
  BY <1>1, <1>2 DEF Sound
<1>4. /\ outrun \in BOOLEAN /\ mails \in [Reviewers -> [Days -> Nat]] /\ undone \in Nat
  BY DEF Inv, TypeOK
<1>5. \A y \in Runs : y # x /\ rowlock = y => rowlock' = y
  BY <1>1
<1> QED BY <1>1, <1>2, <1>3, <1>4, <1>5, RunStep

\* A run that ends early gives the row back.
LEMMA EarlyEndInv ==
  ASSUME Inv, NEW x \in Runs, run' \in [Runs -> RunType],
         \A y \in Runs : y # x => run'[y] = run[y],
         run'[x].pc \in {"idle", "threw"}, run'[x].sent = {},
         run'[x].job \in {run[x].job, None},
         rowlock' = RowAfter(x), undone' = Undone(x), Fault,
         UNCHANGED <<world, last, mails, outrun>>
  PROVE  Inv'
<1>1. Sound(x)'
  BY DEF Sound
<1>2. rowlock' \in Runs \cup {None} /\ \A y \in Runs : y # x /\ rowlock = y => rowlock' = y
  BY DEF RowAfter, Inv, TypeOK
<1>3. undone' \in Nat
  BY DEF Undone, Inv, TypeOK
<1>4. outrun \in BOOLEAN /\ mails \in [Reviewers -> [Days -> Nat]]
  BY DEF Inv, TypeOK
<1> QED BY <1>1, <1>2, <1>3, <1>4, FaultType, RunStep

LEMMA ThrowInv == ASSUME Inv, NEW x \in Runs, Throw(x) PROVE Inv'
<1>1. /\ run' \in [Runs -> RunType] /\ \A y \in Runs : y # x => run'[y] = run[y]
      /\ run'[x].pc = "threw" /\ run'[x].sent = {} /\ run'[x].job = run[x].job
  BY EndType DEF Throw
<1> QED BY <1>1, EarlyEndInv DEF Throw

LEMMA CrashInv == ASSUME Inv, NEW x \in Runs, Crash(x) PROVE Inv'
<1>1. /\ run' \in [Runs -> RunType] /\ \A y \in Runs : y # x => run'[y] = run[y]
      /\ run'[x].pc = "idle" /\ run'[x].sent = {} /\ run'[x].job = None
  BY IdleType DEF Crash, Inv, TypeOK, RunType, Idle
<1> QED BY <1>1, EarlyEndInv DEF Crash

\* Steps of pg-boss, which reach the runs only by their jobs.
LEMMA ScheduleInv == ASSUME Inv, Schedule PROVE Inv'
<1>1. /\ job' = [job EXCEPT ![day].state = "queued"] /\ day \in Days /\ day \in Nat
      /\ UNCHANGED <<day, run, last, rowlock, mails, outrun, undone, faults>>
  BY Constants DEF Schedule, Inv, TypeOK
<1>2. /\ job' \in [Days -> JobType] /\ job'[day].state = "queued"
      /\ \A d \in Days : d # day => job'[d] = job[d]
  BY <1>1 DEF Inv, TypeOK, JobType
<1>3. TypeOK'
  BY <1>1, <1>2 DEF Inv, TypeOK, JobType
<1>4. JobsOK'
  BY <1>1, <1>2 DEF Inv, JobsOK
<1>5. DoneMeansCommitted'
  BY <1>1, <1>2 DEF Inv, DoneMeansCommitted
<1>6. \A x \in Runs : Sound(x)'
  BY <1>1 DEF Inv, Sound
<1> QED BY <1>3, <1>4, <1>5, <1>6 DEF Inv

LEMMA FetchInv == ASSUME Inv, NEW x \in Runs, NEW d \in Days, Fetch(x, d) PROVE Inv'
<1> DEFINE begun == [Idle EXCEPT !.pc = "begun", !.job = d, !.now = day]
<1>1. /\ job' = [job EXCEPT ![d].state = "active"] /\ run' = [run EXCEPT ![x] = begun]
      /\ job[d].state = "queued" /\ day \in Days
      /\ UNCHANGED <<day, last, rowlock, mails, outrun, undone, faults>>
  BY DEF Fetch, Inv, TypeOK
<1>2. begun \in RunType
  BY <1>1, IdleType, Constants DEF RunType
<1>3. /\ run' \in [Runs -> RunType] /\ run'[x] = begun
      /\ \A y \in Runs : y # x => run'[y] = run[y]
  BY <1>1, <1>2 DEF Inv, TypeOK, RunType
<1>4. /\ job' \in [Days -> JobType] /\ job'[d].state = "active"
      /\ \A e \in Days : e # d => job'[e] = job[e]
  BY <1>1 DEF Inv, TypeOK, JobType
<1>5. TypeOK'
  BY <1>1, <1>3, <1>4 DEF Inv, TypeOK, JobType, RunType
<1>6. d <= day
  BY <1>1 DEF Inv, JobsOK
<1>7. JobsOK' /\ DoneMeansCommitted'
  BY <1>1, <1>4, <1>6 DEF Inv, JobsOK, DoneMeansCommitted
<1>8. Sound(x)'
  BY <1>1, <1>3, <1>6 DEF Sound, Idle
<1>9. ASSUME NEW y \in Runs, y # x PROVE Sound(y)'
  BY <1>1, <1>3, <1>9 DEF Inv, Sound
<1> QED BY <1>5, <1>7, <1>8, <1>9 DEF Inv

LEMMA RetriedType ==
  ASSUME NEW j \in JobType
  PROVE  Retried(j) \in JobType /\ Retried(j).state \in {"queued", "failed"}
<1>1. j.tries < RetryLimit => j.tries + 1 \in 0..RetryLimit
  BY DigestConstants DEF JobType
<1> QED BY <1>1, Constants DEF Retried, JobType

LEMMA ExpireInv == ASSUME Inv, NEW d \in Days, Expire(d) PROVE Inv'
<1>1. /\ job' = [job EXCEPT ![d] = Retried(@)] /\ job[d].state = "active"
      /\ run' = [x \in Runs |-> IF run[x].job = d THEN [run[x] EXCEPT !.job = None]
                                ELSE run[x]]
      /\ UNCHANGED <<day, last, rowlock, mails, outrun, undone, faults>>
  BY DEF Expire
<1>2. /\ job' \in [Days -> JobType] /\ job'[d].state \in {"queued", "failed"}
      /\ \A e \in Days : e # d => job'[e] = job[e]
  BY <1>1, RetriedType DEF Inv, TypeOK, JobType
<1>3. ASSUME NEW x \in Runs
      PROVE  /\ run'[x] \in RunType /\ run'[x].pc = run[x].pc /\ run'[x].now = run[x].now
             /\ run'[x].left = run[x].left /\ run'[x].sent = run[x].sent
             /\ run'[x].job \in {run[x].job, None}
  BY <1>1 DEF Inv, TypeOK, RunType
<1>4. run' \in [Runs -> RunType]
  BY <1>1, <1>3
<1>5. TypeOK'
  BY <1>1, <1>2, <1>4 DEF Inv, TypeOK, JobType, RunType
<1>6. JobsOK' /\ DoneMeansCommitted'
  BY <1>1, <1>2 DEF Inv, JobsOK, DoneMeansCommitted
<1>7. ASSUME NEW x \in Runs PROVE Sound(x)'
  BY <1>1, <1>3 DEF Inv, Sound
<1> QED BY <1>5, <1>6, <1>7 DEF Inv

LEMMA AnswerInv == ASSUME Inv, NEW x \in Runs, Answer(x) PROVE Inv'
<1>1. /\ run[x].pc \in {"answer", "threw"} /\ run' = [run EXCEPT ![x] = Idle] /\ Sound(x)
      /\ UNCHANGED <<day, last, rowlock, mails, outrun, undone, faults>>
  BY DEF Answer, Inv
<1>2. /\ run' \in [Runs -> RunType] /\ run'[x] = Idle
      /\ \A y \in Runs : y # x => run'[y] = run[y]
  BY <1>1, IdleType DEF Inv, TypeOK, RunType
<1>3. \A y \in Runs : Sound(y)'
  BY <1>1, <1>2 DEF Inv, Sound, Idle
<1>4. \A y \in Runs : run'[y].job # None => run'[y].job <= day'
  BY <1>1, <1>2 DEF Inv, JobsOK, Idle
<1>5. CASE run[x].job = None
  <2>1. job' = job
    BY <1>5 DEF Answer
  <2>2. TypeOK'
    BY <1>1, <1>2, <2>1 DEF Inv, TypeOK, RunType
  <2> QED BY <1>1, <1>3, <1>4, <2>1, <2>2 DEF Inv, JobsOK, DoneMeansCommitted
<1>6. CASE run[x].job # None
  <2> DEFINE d == run[x].job
  <2>1. d \in Days /\ job' = [job EXCEPT ![d] = Reported(x)]
    BY <1>6 DEF Answer, Inv, TypeOK
  <2>2. /\ Reported(x) \in JobType
        /\ Reported(x).state = "done" => run[x].pc = "answer"
        /\ Reported(x).state # "none"
    <3>1. job[d] \in JobType
      BY <2>1 DEF Inv, TypeOK, JobType
    <3>2. Done \in JobType /\ Done.state = "done"
      BY Constants DEF Done, JobType
    <3> QED BY <1>1, <3>1, <3>2, RetriedType DEF Reported
  <2>3. /\ job' \in [Days -> JobType] /\ job'[d] = Reported(x)
        /\ \A e \in Days : e # d => job'[e] = job[e]
    BY <2>1, <2>2 DEF Inv, TypeOK, JobType
  <2>4. TypeOK'
    BY <1>1, <1>2, <2>3 DEF Inv, TypeOK, JobType, RunType
  <2>5. JobsOK'
    BY <1>1, <1>6, <1>4, <2>3 DEF Inv, JobsOK
  <2>6. DoneMeansCommitted'
    BY <1>1, <1>6, <2>1, <2>2, <2>3 DEF Inv, DoneMeansCommitted, Sound
  <2> QED BY <1>3, <2>4, <2>5, <2>6 DEF Inv
<1> QED BY <1>5, <1>6

LEMMA NextInv == Inv /\ [Next]_vars => Inv'
<1> SUFFICES ASSUME Inv, [Next]_vars PROVE Inv'
  OBVIOUS
<1>1. ASSUME NEW x \in Runs, CommitUnacknowledged(x) PROVE Inv'
  BY <1>1, FaultType, CommitInv DEF CommitUnacknowledged
<1>2. ASSUME NEW x \in Runs, Commit(x) PROVE Inv'
  BY <1>2, CommitInv DEF Commit, Inv, TypeOK
<1>3. CASE DayPasses
  <2>1. /\ day < MaxDay /\ day' = day + 1 /\ day \in Nat
        /\ UNCHANGED <<job, run, last, rowlock, mails, outrun, undone, faults>>
    BY <1>3, Constants DEF DayPasses, Inv, TypeOK
  <2>2. day' \in Days
    BY <2>1, DigestConstants DEF Days
  <2>3. TypeOK'
    BY <2>1, <2>2 DEF Inv, TypeOK
  <2>4. \A x \in Runs : run[x].job # None => run[x].job \in Nat
    BY Constants DEF Inv, TypeOK
  <2>5. JobsOK'
    BY <2>1, <2>4, Constants DEF Inv, JobsOK
  <2> QED BY <2>1, <2>3, <2>5 DEF Inv, Sound, DoneMeansCommitted
<1>4. CASE UNCHANGED vars
  BY <1>4 DEF vars, Inv, TypeOK, Sound, JobsOK, DoneMeansCommitted
<1> QED BY <1>1, <1>2, <1>3, <1>4, ScheduleInv, FetchInv, ExpireInv, AnswerInv, TriggerInv,
           LockRowInv, SkipTodayInv, ComputeInv, SendMailInv, PassOverInv, SendFailsInv,
           SendAnswerLostInv, ThrowInv, CrashInv DEF Next, Proceed, Disturb

\* Every variable stays in its domain, for any runs, reviewers, days and faults.
THEOREM TypeCorrect == Spec => []TypeOK
<1>1. Spec => []Inv
  BY InitInv, NextInv, PTL DEF Spec
<1>2. Inv => TypeOK
  BY DEF Inv
<1> QED BY <1>1, <1>2, PTL

\* No job is reported done before a run of its day or a later one has committed,
\* whatever retries, expiries and crashes do (RanToday, Reported, the row lock).
THEOREM DoneIsCommitted == Spec => []DoneMeansCommitted
<1>1. Spec => []Inv
  BY InitInv, NextInv, PTL DEF Spec
<1>2. Inv => DoneMeansCommitted
  BY DEF Inv
<1> QED BY <1>1, <1>2, PTL

-----------------------------------------------------------------------------
\* A run under way has mailed reviewer r for day d.
Mailed(r, d) ==
    \E x \in Runs : run[x].pc = "sending" /\ run[x].now = d /\ r \in run[x].sent

\* What has left for r on day d: what could not be taken back, and the one digest of
\* the run that has committed or is under way.
Accounted(r, d) ==
    \/ mails[r][d] <= undone
    \/ mails[r][d] <= undone + 1 /\ (d <= last \/ Mailed(r, d))

MailsOK == ~outrun => \A r \in Reviewers, d \in Days : Accounted(r, d)

\* A step that mails nothing, ends no mailing and moves last_run_at at most forward.
LEMMA QuietMails ==
  ASSUME Inv, MailsOK, mails' = mails, undone' = undone, outrun' \in BOOLEAN,
         outrun => outrun', last' \in Nat, ~outrun' => last <= last',
         \A x \in Runs : run[x].pc = "sending" =>
            \/ run'[x].pc = "sending" /\ run'[x].now = run[x].now /\ run'[x].sent = run[x].sent
            \/ run[x].now <= last'
  PROVE  MailsOK'
<1> SUFFICES ASSUME ~outrun', NEW r \in Reviewers, NEW d \in Days PROVE Accounted(r, d)'
  BY DEF MailsOK
<1>1. ~outrun /\ Accounted(r, d) /\ last <= last' /\ last \in Nat /\ d \in Nat
  BY Constants, DigestConstants DEF MailsOK, Inv, TypeOK
<1>2. d <= last => d <= last'
  BY <1>1
<1>3. Mailed(r, d) => Mailed(r, d)' \/ d <= last'
  BY DEF Mailed
<1> QED BY <1>1, <1>2, <1>3 DEF Accounted

LEMMA SendMailMails == ASSUME Inv, MailsOK, NEW x \in Runs, SendMail(x) PROVE MailsOK'
<1> SUFFICES ASSUME ~outrun', NEW r \in Reviewers, NEW d \in Days PROVE Accounted(r, d)'
  BY DEF MailsOK
<1>1. /\ Sending(x) /\ MailLeaves(x)
      /\ run' = [run EXCEPT ![x] = [NextBatch(x) EXCEPT !.sent = @ \cup {Batch(x)}]]
      /\ UNCHANGED <<last, rowlock, outrun, undone>>
  BY DEF SendMail
<1>2. /\ run'[x].pc = "sending" /\ run'[x].now = run[x].now
      /\ run'[x].sent = run[x].sent \cup {Batch(x)}
      /\ \A y \in Runs : y # x => run'[y] = run[y]
  BY <1>1, NextBatchType DEF Inv, TypeOK, RunType
<1>3. /\ Batch(x) \notin run[x].sent /\ run[x].pc = "sending" /\ Sound(x) /\ rowlock = x
      /\ last < run[x].now
  BY <1>1, NextBatchType DEF Inv, Sound, Sending
<1>4. Mailed(r, d) => Mailed(r, d)'
  BY <1>2 DEF Mailed
<1>5. Accounted(r, d)
  BY <1>1 DEF MailsOK
<1>6. CASE r = Batch(x) /\ d = run[x].now
  <2>1. ~Mailed(r, d)
    <3>1. \A y \in Runs : run[y].pc = "sending" => y = x
      BY <1>3 DEF Inv, Sound
    <3> QED BY <1>3, <1>6, <3>1 DEF Mailed
  <2>2. ~(d <= last)
    BY <1>3, <1>6, Constants, DigestConstants DEF Inv, TypeOK
  <2>3. mails[r][d] <= undone /\ mails[r][d] \in Nat /\ undone \in Nat
    BY <1>5, <2>1, <2>2 DEF Accounted, Inv, TypeOK
  <2>4. mails'[r][d] = mails[r][d] + 1
    BY <1>1, <1>6, MailType
  <2>5. Mailed(r, d)'
    BY <1>2, <1>6 DEF Mailed
  <2> QED BY <1>1, <2>3, <2>4, <2>5 DEF Accounted
<1>7. CASE ~(r = Batch(x) /\ d = run[x].now)
  <2>1. mails'[r][d] = mails[r][d]
    BY <1>1, <1>7, MailType
  <2> QED BY <1>1, <1>4, <1>5, <2>1 DEF Accounted
<1> QED BY <1>6, <1>7

LEMMA SendAnswerLostMails ==
  ASSUME Inv, MailsOK, NEW x \in Runs, SendAnswerLost(x) PROVE MailsOK'
<1> SUFFICES ASSUME ~outrun', NEW r \in Reviewers, NEW d \in Days PROVE Accounted(r, d)'
  BY DEF MailsOK
<1>1. /\ Sending(x) /\ MailLeaves(x) /\ AfterFailedSend(x)
      /\ undone' = undone + 1 /\ UNCHANGED <<last, outrun>>
  BY DEF SendAnswerLost
<1>2. /\ run'[x].pc = "sending" /\ run'[x].now = run[x].now /\ run'[x].sent = run[x].sent
      /\ \A y \in Runs : y # x => run'[y] = run[y]
  BY <1>1, AfterFailedSendType DEF Inv, TypeOK, RunType
<1>3. Mailed(r, d) => Mailed(r, d)'
  BY <1>2 DEF Mailed
<1>4. /\ mails[r][d] \in Nat /\ undone \in Nat
      /\ mails'[r][d] = mails[r][d] \/ mails'[r][d] = mails[r][d] + 1
  BY <1>1, MailType DEF Inv, TypeOK
<1>5. Accounted(r, d)
  BY <1>1 DEF MailsOK
<1> QED BY <1>1, <1>3, <1>4, <1>5 DEF Accounted

\* A run that ends early leaves its mails to undone.
LEMMA EarlyEndMails ==
  ASSUME Inv, MailsOK, NEW x \in Runs, Throw(x) \/ Crash(x) PROVE MailsOK'
<1> SUFFICES ASSUME ~outrun', NEW r \in Reviewers, NEW d \in Days PROVE Accounted(r, d)'
  BY DEF MailsOK
<1>1. undone' = Undone(x) /\ UNCHANGED <<last, mails, outrun>>
  BY DEF Throw, Crash
<1>2. \A y \in Runs : y # x => run'[y] = run[y]
  BY DEF Throw, Crash, End, Inv, TypeOK
<1>3. Accounted(r, d) /\ undone \in Nat /\ mails[r][d] \in Nat
  BY <1>1 DEF MailsOK, Inv, TypeOK
<1>4. CASE rowlock = x /\ run[x].sent # {}
  BY <1>1, <1>3, <1>4 DEF Accounted, Undone
<1>5. CASE ~(rowlock = x /\ run[x].sent # {})
  <2>1. run[x].pc = "sending" => run[x].sent = {}
    BY <1>5 DEF Inv, Sound
  <2>2. Mailed(r, d) => Mailed(r, d)'
    BY <1>2, <2>1 DEF Mailed
  <2>3. undone' = undone
    BY <1>1, <1>3, <1>5 DEF Undone
  <2> QED BY <1>1, <1>3, <2>2, <2>3 DEF Accounted
<1> QED BY <1>4, <1>5

LEMMA MailsStep == Inv /\ MailsOK /\ [Next]_vars => MailsOK'
<1> SUFFICES ASSUME Inv, MailsOK, [Next]_vars PROVE MailsOK'
  OBVIOUS
<1>1. last \in Nat /\ outrun \in BOOLEAN
  BY DigestConstants DEF Inv, TypeOK
\* Steps that leave every run that mails as it is.
<1>2. ASSUME UNCHANGED <<last, mails, undone>>, outrun' \in BOOLEAN, outrun => outrun',
             \A y \in Runs : run[y].pc = "sending" =>
                /\ run'[y].pc = "sending" /\ run'[y].now = run[y].now
                /\ run'[y].sent = run[y].sent
      PROVE  MailsOK'
  BY <1>1, <1>2, QuietMails
<1>3. CASE Schedule \/ DayPasses \/ UNCHANGED vars
  BY <1>1, <1>2, <1>3 DEF Schedule, DayPasses, vars
<1>4. ASSUME NEW x \in Runs, NEW d \in Days, Fetch(x, d) PROVE MailsOK'
  BY <1>1, <1>2, <1>4 DEF Fetch, Inv, TypeOK
<1>5. ASSUME NEW d \in Days, Expire(d) PROVE MailsOK'
  <2>1. ASSUME NEW y \in Runs
        PROVE  run'[y].pc = run[y].pc /\ run'[y].now = run[y].now /\ run'[y].sent = run[y].sent
    BY <1>5 DEF Expire, Inv, TypeOK
  <2> QED BY <1>1, <1>2, <1>5, <2>1 DEF Expire
<1>6. ASSUME NEW x \in Runs, Trigger(x) \/ LockRow(x) \/ SkipToday(x) \/ Answer(x)
      PROVE  MailsOK'
  <2>1. run[x].pc # "sending" /\ UNCHANGED <<last, mails, undone, outrun>>
    BY <1>6 DEF Trigger, LockRow, SkipToday, Answer
  <2>2. \A y \in Runs : y # x => run'[y] = run[y]
    BY <1>6 DEF Trigger, LockRow, Goto, SkipToday, End, Answer, Inv, TypeOK
  <2> QED BY <1>1, <1>2, <2>1, <2>2
<1>7. ASSUME NEW x \in Runs, Compute(x) PROVE MailsOK'
  <2>1. run[x].pc # "sending" /\ UNCHANGED <<last, mails, undone>>
    BY <1>7 DEF Compute
  <2>2. \A y \in Runs : y # x => run'[y] = run[y]
    BY <1>7 DEF Compute, Inv, TypeOK
  <2>3. outrun' \in BOOLEAN /\ (outrun => outrun')
    BY <1>7 DEF Compute
  <2> QED BY <1>2, <2>1, <2>2, <2>3
<1>8. ASSUME NEW x \in Runs, PassOver(x) PROVE MailsOK'
  <2>1. /\ Sending(x) /\ run' = [run EXCEPT ![x] = NextBatch(x)]
        /\ UNCHANGED <<last, mails, undone, outrun>>
    BY <1>8 DEF PassOver
  <2>2. /\ run'[x].pc = "sending" /\ run'[x].now = run[x].now /\ run'[x].sent = run[x].sent
        /\ \A y \in Runs : y # x => run'[y] = run[y]
    BY <2>1, NextBatchType DEF Inv, TypeOK, RunType
  <2> QED BY <1>1, <1>2, <2>1, <2>2
<1>9. ASSUME NEW x \in Runs, SendFails(x) PROVE MailsOK'
  <2>1. Sending(x) /\ AfterFailedSend(x) /\ UNCHANGED <<last, mails, undone, outrun>>
    BY <1>9 DEF SendFails
  <2>2. /\ run'[x].pc = "sending" /\ run'[x].now = run[x].now /\ run'[x].sent = run[x].sent
        /\ \A y \in Runs : y # x => run'[y] = run[y]
    BY <2>1, AfterFailedSendType DEF Inv, TypeOK, RunType
  <2> QED BY <1>1, <1>2, <2>1, <2>2
<1>10. ASSUME NEW x \in Runs, Commit(x) \/ CommitUnacknowledged(x) PROVE MailsOK'
  <2>1. PICK pc \in {"answer", "threw"} : CommitRun(x) /\ End(x, pc)
    BY <1>10 DEF Commit, CommitUnacknowledged
  <2>2. /\ last' = run[x].now /\ last' \in Days /\ (~outrun => last <= last')
        /\ UNCHANGED <<mails, outrun, undone>>
    BY <2>1, CommitRunStep
  <2>3. last' \in Nat /\ last' <= last'
    BY <2>2, Constants
  <2>4. \A y \in Runs : y # x => run'[y] = run[y]
    BY <2>1, EndType
  <2> QED BY <1>1, <2>2, <2>3, <2>4, QuietMails
<1> QED BY <1>3, <1>4, <1>5, <1>6, <1>7, <1>8, <1>9, <1>10, SendMailMails, EarlyEndMails,
           SendAnswerLostMails DEF Next, Proceed, Disturb

\* A reviewer gets one digest a day and one more for each mail that could not be taken
\* back, however many runs are started and retried side by side (the row lock, RanToday).
THEOREM OneDigest == Spec => []OneDigestADay
<1>1. Init => MailsOK
  BY DEF Init, MailsOK, Accounted
<1>2. Inv /\ MailsOK => OneDigestADay
  <2> SUFFICES ASSUME Inv, MailsOK, ~outrun, NEW r \in Reviewers, NEW d \in Days
               PROVE  mails[r][d] <= 1 + undone
    BY DEF OneDigestADay
  <2>1. Accounted(r, d) /\ mails[r][d] \in Nat /\ undone \in Nat
    BY DEF MailsOK, Inv, TypeOK
  <2> QED BY <2>1 DEF Accounted
<1> QED BY <1>1, <1>2, InitInv, NextInv, MailsStep, PTL DEF Spec

-----------------------------------------------------------------------------
\* Whoever has the singleton row is at work in its transaction.
RowMoves == rowlock # None => run[rowlock].pc \in {"locked", "sending"}

LEMMA RowMovesStep == Inv /\ RowMoves /\ [Next]_vars => RowMoves'
<1> SUFFICES ASSUME Inv, RowMoves, [Next]_vars, rowlock' # None
             PROVE  run'[rowlock'].pc \in {"locked", "sending"}
  BY DEF RowMoves
<1>1. /\ rowlock \in Runs \cup {None} /\ None \notin Runs
      /\ run \in [Runs -> RunType]
  BY DigestConstants DEF Inv, TypeOK, RunType
<1>2. ASSUME UNCHANGED <<run, rowlock>> PROVE run'[rowlock'].pc \in {"locked", "sending"}
  BY <1>2 DEF RowMoves
<1>3. CASE Schedule \/ DayPasses \/ UNCHANGED vars
  BY <1>2, <1>3 DEF Schedule, DayPasses, vars
<1>4. ASSUME NEW d \in Days, Expire(d) PROVE run'[rowlock'].pc \in {"locked", "sending"}
  <2>1. rowlock' = rowlock /\ \A x \in Runs : run'[x].pc = run[x].pc
    BY <1>1, <1>4 DEF Expire, RunType
  <2> QED BY <1>1, <2>1 DEF RowMoves
<1>5. ASSUME NEW x \in Runs, rowlock' = rowlock, run[x].pc \notin {"locked", "sending"},
             \A y \in Runs : y # x => run'[y] = run[y]
      PROVE  run'[rowlock'].pc \in {"locked", "sending"}
  BY <1>1, <1>5 DEF RowMoves
<1>6. ASSUME NEW x \in Runs, NEW d \in Days, Fetch(x, d) \/ Trigger(x) \/ Answer(x)
      PROVE  run'[rowlock'].pc \in {"locked", "sending"}
  <2>1. /\ rowlock' = rowlock /\ run[x].pc \notin {"locked", "sending"}
        /\ \A y \in Runs : y # x => run'[y] = run[y]
    BY <1>1, <1>6 DEF Fetch, Trigger, Answer
  <2> QED BY <1>5, <2>1
<1>7. ASSUME NEW x \in Runs, LockRow(x) PROVE run'[rowlock'].pc \in {"locked", "sending"}
  BY <1>1, <1>7 DEF LockRow, Goto, RunType
<1>8. ASSUME NEW x \in Runs, SkipToday(x) \/ CommitRun(x)
      PROVE  run'[rowlock'].pc \in {"locked", "sending"}
  BY <1>8 DEF SkipToday, CommitRun
<1>9. ASSUME NEW x \in Runs, Throw(x) \/ Crash(x)
      PROVE  run'[rowlock'].pc \in {"locked", "sending"}
  <2>1. rowlock # x /\ rowlock' = rowlock /\ \A y \in Runs : y # x => run'[y] = run[y]
    BY <1>1, <1>9 DEF Throw, Crash, RowAfter, End
  <2> QED BY <1>1, <2>1 DEF RowMoves
<1>10. ASSUME NEW x \in Runs, rowlock' = rowlock, run[x].pc \in {"locked", "sending"},
              run'[x].pc = "sending", \A y \in Runs : y # x => run'[y] = run[y]
       PROVE  run'[rowlock'].pc \in {"locked", "sending"}
  BY <1>1, <1>10 DEF RowMoves
<1>11. ASSUME NEW x \in Runs,
              Compute(x) \/ SendMail(x) \/ PassOver(x) \/ SendFails(x) \/ SendAnswerLost(x)
       PROVE  run'[rowlock'].pc \in {"locked", "sending"}
  <2>1. rowlock' = rowlock /\ run[x].pc \in {"locked", "sending"}
    BY <1>11 DEF Compute, SendMail, PassOver, SendFails, SendAnswerLost, Sending
  <2>2. run'[x].pc = "sending" /\ \A y \in Runs : y # x => run'[y] = run[y]
    BY <1>1, <1>11 DEF Compute, SendMail, PassOver, SendFails, SendAnswerLost, AfterFailedSend,
                       NextBatch, Sending, RunType
  <2> QED BY <1>10, <2>1, <2>2
<1> QED BY <1>3, <1>4, <1>6, <1>7, <1>8, <1>9, <1>11, Constants
        DEF Next, Proceed, Disturb, Commit, CommitUnacknowledged

\* The singleton row is never left locked by a run that has ended, however runs fail and
\* die: whoever waits for it waits for a run that is inside its transaction, which ends
\* and gives the row back (SELECT ... FOR UPDATE, COMMIT, ROLLBACK, a lost connection).
THEOREM RowGivenBack == Spec => []RowMoves
<1>1. Init => RowMoves
  BY DEF Init, RowMoves
<1> QED BY <1>1, InitInv, NextInv, RowMovesStep, PTL DEF Spec

=============================================================================
