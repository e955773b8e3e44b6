------------------------ MODULE WebhookDeliveryProofs ------------------------
(***************************************************************************)
(* Proofs about WebhookDelivery for any number of ticks, attempts, retries *)
(* and faults.                                                             *)
(***************************************************************************)
EXTENDS WebhookDelivery, TLAPS

PCs == {"idle", "claimed", "posting", "sent", "ok", "failed", "read", "alert", "release"}
PosterType == [pc : PCs, attempts : Nat]
RowType == [status : {"absent", "pending", "delivered", "failed", "suppressed"},
            withheld : BOOLEAN, attempts : Nat, due : BOOLEAN,
            claimed_by : Workers \cup {None}, claim_stale : BOOLEAN]

\* A withheld row is suppressed for ever, and nobody works on it or on no row at all.
QuietOK ==
    /\ delivery.withheld <=> delivery.status = "suppressed"
    /\ delivery.status \in {"absent", "suppressed"} =>
          ~posts /\ \A p \in Posters : poster[p].pc = "idle"
    /\ \A p \in Posters : poster[p].pc = "ok" => acked
    /\ poster[Sender].pc \notin {"claimed", "release"}

Inv == TypeOK /\ QuietOK

\* As long as no claim grew stale under a working tick, the tick at work holds the claim.
ClaimOK ==
    stalls = 0 =>
        \A w \in Workers : poster[w].pc # "idle" =>
            delivery.claimed_by = w /\ ~delivery.claim_stale

LEMMA Constants ==
  /\ Sender \notin Workers /\ None \notin Workers /\ None # Sender
  /\ MaxAttempts \in Nat /\ MaxAttempts >= 1
  /\ MaxManual \in Nat /\ MaxCrashes \in Nat /\ MaxStalls \in Nat
  BY WebhookConstants

LEMMA Types ==
  ASSUME TypeOK
  PROVE  /\ delivery \in RowType /\ poster \in [Posters -> PosterType]
         /\ manual \in Nat /\ crashes \in Nat /\ stalls \in Nat
         /\ delivery.attempts \in Nat
         /\ \A p \in Posters : poster[p].pc \in PCs /\ poster[p].attempts \in Nat
<1>1. delivery \in RowType /\ poster \in [Posters -> PosterType]
  BY DEF TypeOK, RowType, PosterType, PCs
<1>2. manual \in Nat /\ crashes \in Nat /\ stalls \in Nat
  BY Constants DEF TypeOK
<1> QED BY <1>1, <1>2 DEF RowType, PosterType

\* What a step of one poster leaves alone.
LEMMA GotoType ==
  ASSUME TypeOK, NEW p \in Posters, NEW pc \in PCs, Goto(p, pc)
  PROVE  /\ poster' \in [Posters -> PosterType]
         /\ poster'[p].pc = pc /\ poster'[p].attempts = poster[p].attempts
         /\ \A q \in Posters : q # p => poster'[q] = poster[q]
  BY Types DEF Goto, PosterType

LEMMA SetType ==
  ASSUME TypeOK, NEW p \in Posters, NEW r \in PosterType, poster' = [poster EXCEPT ![p] = r]
  PROVE  /\ poster' \in [Posters -> PosterType]
         /\ poster'[p] = r
         /\ \A q \in Posters : q # p => poster'[q] = poster[q]
  BY Types

LEMMA IdleType == Idle \in PosterType /\ Idle.pc = "idle"
  BY DEF Idle, PosterType, PCs

LEMMA InitInv == Init => Inv /\ ClaimOK
<1> SUFFICES ASSUME Init PROVE Inv /\ ClaimOK
  OBVIOUS
<1>1. delivery \in RowType /\ delivery.status = "absent" /\ delivery.withheld = FALSE
  BY DEF Init, NoRow, RowType
<1>2. poster \in [Posters -> PosterType] /\ \A p \in Posters : poster[p].pc = "idle"
  BY IdleType DEF Init
<1>3. acked \in BOOLEAN /\ posts \in BOOLEAN /\ alerted \in BOOLEAN
  BY DEF Init
<1>8. manual \in 0..MaxManual /\ crashes \in 0..MaxCrashes /\ stalls \in 0..MaxStalls
  BY Constants DEF Init
<1>4. TypeOK
  BY <1>1, <1>2, <1>3, <1>8 DEF TypeOK, RowType, PosterType, PCs
<1>5. Sender \in Posters /\ Workers \subseteq Posters
  BY DEF Posters
<1>6. ~posts
  BY DEF Init
<1>7. QuietOK
  BY <1>1, <1>2, <1>5, <1>6 DEF QuietOK
<1> QED BY <1>2, <1>4, <1>5, <1>7 DEF Inv, ClaimOK

-----------------------------------------------------------------------------
\* The type invariant, together with who may be at work on a suppressed row.

\* A step of poster p that leaves the row alone.
LEMMA PosterStep ==
  ASSUME Inv, NEW p \in Posters, delivery' = delivery,
         poster' \in [Posters -> PosterType],
         \A q \in Posters : q # p => poster'[q] = poster[q],
         poster[p].pc # "idle",
         poster'[p].pc = "ok" => acked', acked => acked',
         p = Sender => poster'[p].pc \notin {"claimed", "release"},
         acked' \in BOOLEAN, posts' \in BOOLEAN, alerted' \in BOOLEAN,
         UNCHANGED <<manual, stalls>>, crashes' \in 0..MaxCrashes
  PROVE  Inv'
<1>1. TypeOK'
  BY DEF Inv, TypeOK, PosterType, PCs
<1>2. delivery.status \notin {"absent", "suppressed"}
  BY DEF Inv, QuietOK
<1>3. Sender \in Posters
  BY DEF Posters
<1>4. poster'[Sender].pc \notin {"claimed", "release"}
  BY <1>3 DEF Inv, QuietOK
<1>5. \A q \in Posters : poster'[q].pc = "ok" => acked'
  BY DEF Inv, QuietOK
<1>6. QuietOK'
  BY <1>2, <1>4, <1>5 DEF Inv, QuietOK
<1> QED BY <1>1, <1>6 DEF Inv

\* A step of poster p that writes the row.
LEMMA RowStep ==
  ASSUME Inv, NEW p \in Posters, delivery' \in RowType,
         delivery'.withheld = delivery.withheld,
         delivery.status \notin {"absent", "suppressed"},
         delivery'.status \notin {"absent", "suppressed"},
         delivery'.status = "delivered" => acked,
         poster' \in [Posters -> PosterType],
         \A q \in Posters : q # p => poster'[q] = poster[q],
         poster'[p].pc # "ok",
         p = Sender => poster'[p].pc \notin {"claimed", "release"},
         UNCHANGED <<acked, posts, alerted, stalls>>,
         manual' \in 0..MaxManual, crashes' \in 0..MaxCrashes
  PROVE  Inv'
<1>1. TypeOK'
  BY DEF Inv, TypeOK, RowType, PosterType, PCs
<1>2. Sender \in Posters
  BY DEF Posters
<1>3. poster'[Sender].pc \notin {"claimed", "release"}
  BY <1>2 DEF Inv, QuietOK
<1>4. \A q \in Posters : poster'[q].pc = "ok" => acked'
  BY DEF Inv, QuietOK
<1>5. ~delivery.withheld
  BY DEF Inv, QuietOK
<1>6. QuietOK'
  BY <1>3, <1>4, <1>5 DEF Inv, QuietOK
<1> QED BY <1>1, <1>6 DEF Inv

LEMMA CrashesType ==
  ASSUME TypeOK, crashes < MaxCrashes, crashes' = crashes + 1
  PROVE  crashes' \in 0..MaxCrashes
  BY Constants DEF TypeOK

LEMMA CreateStep ==
  ASSUME Inv, NEW s \in BOOLEAN, CreateDelivery(s)
  PROVE  Inv'
<1>1. delivery.status = "absent" /\ Sender \in Posters
  BY DEF CreateDelivery, NoRow, Posters
<1>2. /\ delivery' \in RowType /\ delivery'.withheld = s
      /\ delivery'.status = (IF s THEN "suppressed" ELSE "pending")
      /\ s => delivery'.attempts = 0 /\ ~delivery'.due
  BY DEF CreateDelivery, InsertedRow, NoRow, RowType
<1>3. ~posts /\ \A p \in Posters : poster[p].pc = "idle"
  BY <1>1 DEF Inv, QuietOK
<1>4. CASE s
  <2>1. UNCHANGED <<poster, acked, posts, alerted, env>>
    BY <1>4 DEF CreateDelivery
  <2>2. TypeOK'
    BY <1>2, <1>4, <2>1 DEF Inv, TypeOK, RowType, env
  <2>3. QuietOK'
    BY <1>1, <1>2, <1>3, <1>4, <2>1 DEF QuietOK
  <2> QED BY <2>2, <2>3 DEF Inv
<1>5. CASE ~s
  <2>1. Goto(Sender, "posting") /\ UNCHANGED <<acked, posts, alerted, env>>
    BY <1>5 DEF CreateDelivery
  <2>2. /\ poster' \in [Posters -> PosterType] /\ poster'[Sender].pc = "posting"
        /\ \A q \in Posters : q # Sender => poster'[q] = poster[q]
    BY <1>1, <2>1, GotoType DEF Inv, PCs
  <2>3. TypeOK'
    BY <1>2, <1>5, <2>1, <2>2 DEF Inv, TypeOK, RowType, PosterType, PCs, env
  <2>4. QuietOK'
    BY <1>2, <1>3, <1>5, <2>2 DEF QuietOK
  <2> QED BY <2>3, <2>4 DEF Inv
<1> QED BY <1>4, <1>5

LEMMA ProceedStep ==
  ASSUME Inv, NEW p \in Posters, Proceed(p)
  PROVE  Inv'
<1> USE DEF Inv
<1>1. acked \in BOOLEAN /\ posts \in BOOLEAN /\ alerted \in BOOLEAN
  BY DEF TypeOK
<1>2. Done(p) \in PCs /\ Done(p) # "ok" /\ (p = Sender => Done(p) = "idle")
  BY DEF Done, PCs
<1>3. crashes \in 0..MaxCrashes /\ manual \in 0..MaxManual
  BY DEF TypeOK
<1>4. CASE Post(p)
  <2>1. Goto(p, "sent") /\ poster[p].pc = "posting"
    BY <1>4 DEF Post
  <2>2. /\ poster' \in [Posters -> PosterType] /\ poster'[p].pc = "sent"
        /\ \A q \in Posters : q # p => poster'[q] = poster[q]
    BY <2>1, GotoType DEF PCs
  <2>3. UNCHANGED <<delivery, acked, alerted, env>> /\ posts' \in BOOLEAN
    BY <1>4 DEF Post
  <2> QED BY <1>1, <1>3, <2>1, <2>2, <2>3, PosterStep DEF env
<1>5. CASE Accepted(p)
  <2>1. /\ poster[p].pc = "sent" /\ acked' = TRUE
        /\ UNCHANGED <<delivery, posts, alerted, env>>
    BY <1>5 DEF Accepted
  <2>2. PICK pc \in {"ok", "failed"} : Goto(p, pc)
    BY <1>5 DEF Accepted
  <2>3. /\ poster' \in [Posters -> PosterType] /\ poster'[p].pc = pc
        /\ \A q \in Posters : q # p => poster'[q] = poster[q]
    BY <2>2, GotoType DEF PCs
  <2> QED BY <1>1, <1>3, <2>1, <2>2, <2>3, PosterStep DEF env
<1>6. CASE NotAccepted(p)
  <2>1. /\ Goto(p, "failed") /\ poster[p].pc = "sent"
        /\ UNCHANGED <<delivery, acked, posts, alerted, env>>
    BY <1>6 DEF NotAccepted
  <2>2. /\ poster' \in [Posters -> PosterType] /\ poster'[p].pc = "failed"
        /\ \A q \in Posters : q # p => poster'[q] = poster[q]
    BY <2>1, GotoType DEF PCs
  <2> QED BY <1>1, <1>3, <2>1, <2>2, PosterStep DEF env
<1>7. CASE MarkDelivered(p)
  <2>1. /\ Goto(p, Done(p)) /\ poster[p].pc = "ok"
        /\ UNCHANGED <<acked, posts, alerted, env>>
    BY <1>7 DEF MarkDelivered, AnsweredOk
  <2>2. /\ poster' \in [Posters -> PosterType] /\ poster'[p].pc = Done(p)
        /\ \A q \in Posters : q # p => poster'[q] = poster[q]
    BY <1>2, <2>1, GotoType
  <2>3. acked /\ delivery.status \notin {"absent", "suppressed"}
    BY <2>1 DEF QuietOK
  <2>4. /\ delivery' \in RowType /\ delivery'.withheld = delivery.withheld
        /\ delivery'.status = "delivered"
    BY <1>7, Types DEF MarkDelivered, RowType
  <2> QED BY <1>2, <1>3, <2>1, <2>2, <2>3, <2>4, RowStep DEF env
<1>8. CASE ReadFailure(p)
  <2>1. /\ poster[p].pc = "failed" /\ UNCHANGED <<delivery, acked, posts, alerted, env>>
        /\ poster' = [poster EXCEPT ![p] = [pc |-> "read", attempts |-> delivery.attempts]]
    BY <1>8 DEF ReadFailure
  <2>2. [pc |-> "read", attempts |-> delivery.attempts] \in PosterType
    BY Types DEF PosterType, PCs
  <2>3. /\ poster' \in [Posters -> PosterType] /\ poster'[p].pc = "read"
        /\ \A q \in Posters : q # p => poster'[q] = poster[q]
    BY <2>1, <2>2, SetType
  <2> QED BY <1>1, <1>3, <2>1, <2>3, PosterStep DEF env
<1>9. CASE GiveUp(p)
  <2>1. /\ Goto(p, "alert") /\ poster[p].pc = "read"
        /\ UNCHANGED <<acked, posts, alerted, env>>
    BY <1>9 DEF GiveUp
  <2>2. /\ poster' \in [Posters -> PosterType] /\ poster'[p].pc = "alert"
        /\ \A q \in Posters : q # p => poster'[q] = poster[q]
    BY <2>1, GotoType DEF PCs
  <2>3. delivery.status \notin {"absent", "suppressed"}
    BY <2>1 DEF QuietOK
  <2>4. /\ delivery' \in RowType /\ delivery'.withheld = delivery.withheld
        /\ delivery'.status = "failed"
    BY <1>9, Types DEF GiveUp, RowType
  <2> QED BY <1>3, <2>1, <2>2, <2>3, <2>4, RowStep DEF env
<1>10. CASE BackOff(p)
  <2>1. /\ Goto(p, Done(p)) /\ poster[p].pc = "read"
        /\ UNCHANGED <<acked, posts, alerted, env>>
    BY <1>10 DEF BackOff
  <2>2. /\ poster' \in [Posters -> PosterType] /\ poster'[p].pc = Done(p)
        /\ \A q \in Posters : q # p => poster'[q] = poster[q]
    BY <1>2, <2>1, GotoType
  <2>3. delivery.status \notin {"absent", "suppressed"}
    BY <2>1 DEF QuietOK
  <2>4. /\ delivery' \in RowType /\ delivery'.withheld = delivery.withheld
        /\ delivery'.status = "pending"
    BY <1>10, Types DEF BackOff, RowType
  <2> QED BY <1>2, <1>3, <2>1, <2>2, <2>3, <2>4, RowStep DEF env
<1>11. CASE EmitTerminalDeliveryFailure(p)
  <2>1. /\ Goto(p, Done(p)) /\ poster[p].pc = "alert" /\ alerted' \in BOOLEAN
        /\ UNCHANGED <<delivery, acked, posts, env>>
    BY <1>11 DEF EmitTerminalDeliveryFailure
  <2>2. /\ poster' \in [Posters -> PosterType] /\ poster'[p].pc = Done(p)
        /\ \A q \in Posters : q # p => poster'[q] = poster[q]
    BY <1>2, <2>1, GotoType
  <2> QED BY <1>1, <1>2, <1>3, <2>1, <2>2, PosterStep DEF env
<1> QED BY <1>4, <1>5, <1>6, <1>7, <1>8, <1>9, <1>10, <1>11 DEF Proceed

LEMMA FaultStep ==
  ASSUME Inv, NEW p \in Posters, DatabaseError(p) \/ Crash(p)
  PROVE  Inv'
<1> USE DEF Inv
<1>1. /\ acked \in BOOLEAN /\ posts \in BOOLEAN /\ alerted \in BOOLEAN
      /\ crashes' \in 0..MaxCrashes /\ poster[p].pc # "idle"
      /\ UNCHANGED <<delivery, acked, posts, alerted, manual, stalls>>
  BY CrashesType DEF TypeOK, DatabaseError, Crash, AnsweredOk
<1>2. /\ poster' \in [Posters -> PosterType] /\ poster'[p].pc \in {"failed", "idle"}
      /\ \A q \in Posters : q # p => poster'[q] = poster[q]
  <2>1. CASE DatabaseError(p)
    BY <2>1, GotoType DEF DatabaseError, PCs
  <2>2. CASE Crash(p)
    BY <2>2, SetType, IdleType DEF Crash
  <2> QED BY <2>1, <2>2
<1> QED BY <1>1, <1>2, PosterStep

LEMMA Released ==
  ASSUME TypeOK, NEW w \in Workers
  PROVE  /\ ReleasedBy(w) \in RowType
         /\ ReleasedBy(w).withheld = delivery.withheld
         /\ ReleasedBy(w).status = delivery.status
         /\ ReleasedBy(w).attempts = delivery.attempts
  BY Types DEF ReleasedBy, RowType

LEMMA WorkerStep ==
  ASSUME Inv, NEW w \in Workers, Tick(w) \/ Throws(w)
  PROVE  Inv'
<1> USE DEF Inv
<1>0. w \in Posters /\ w # Sender /\ crashes \in 0..MaxCrashes /\ manual \in 0..MaxManual
  BY Constants DEF Posters, TypeOK
<1>1. CASE ClaimRetry(w)
  <2>1. [pc |-> "claimed", attempts |-> delivery.attempts] \in PosterType
    BY Types DEF PosterType, PCs
  <2>2. /\ poster' \in [Posters -> PosterType] /\ poster'[w].pc = "claimed"
        /\ \A q \in Posters : q # w => poster'[q] = poster[q]
    BY <1>0, <1>1, <2>1, SetType DEF ClaimRetry
  <2>3. /\ delivery' \in RowType /\ delivery'.withheld = delivery.withheld
        /\ delivery.status = "pending" /\ delivery'.status = "pending"
        /\ UNCHANGED <<acked, posts, alerted, env>>
    BY <1>1, Types DEF ClaimRetry, RowType
  <2> QED BY <1>0, <2>2, <2>3, RowStep DEF env
<1>2. CASE CountAttempt(w)
  <2>1. /\ poster' \in [Posters -> PosterType] /\ poster'[w].pc = "posting"
        /\ \A q \in Posters : q # w => poster'[q] = poster[q]
    BY <1>0, <1>2, GotoType DEF CountAttempt, PCs
  <2>2. poster[w].attempts + 1 \in Nat
    BY <1>0, Types
  <2>3. /\ delivery' \in RowType /\ delivery'.withheld = delivery.withheld
        /\ delivery'.status = delivery.status
        /\ UNCHANGED <<acked, posts, alerted, env>>
    BY <1>2, <2>2, Types DEF CountAttempt, RowType
  <2>4. delivery.status \notin {"absent", "suppressed"}
    BY <1>0, <1>2 DEF CountAttempt, QuietOK
  <2>5. delivery.status = "delivered" => acked
    BY DEF TypeOK
  <2> QED BY <1>0, <2>1, <2>3, <2>4, <2>5, RowStep DEF env
<1>3. CASE Release(w) \/ Throws(w)
  <2>1. /\ poster[w].pc # "idle" /\ poster' = [poster EXCEPT ![w] = Idle]
        /\ delivery' = ReleasedBy(w) /\ crashes' \in 0..MaxCrashes
        /\ UNCHANGED <<acked, posts, alerted, manual, stalls>>
    BY <1>0, <1>3, CrashesType DEF Release, Throws, env
  <2>2. /\ poster' \in [Posters -> PosterType] /\ poster'[w].pc = "idle"
        /\ \A q \in Posters : q # w => poster'[q] = poster[q]
    BY <1>0, <2>1, SetType, IdleType
  <2>3. delivery.status \notin {"absent", "suppressed"}
    BY <1>0, <2>1 DEF QuietOK
  <2>4. delivery.status = "delivered" => acked
    BY DEF TypeOK
  <2> QED BY <1>0, <2>1, <2>2, <2>3, <2>4, Released, RowStep
<1> QED BY <1>1, <1>2, <1>3 DEF Tick

LEMMA RowChange ==
  ASSUME Inv, ManualRetry \/ BackoffElapses \/ ClaimAges
  PROVE  Inv'
<1> USE DEF Inv
<1>1. /\ UNCHANGED <<poster, acked, posts, alerted, crashes>>
      /\ delivery.status \notin {"absent", "suppressed"} \/ ClaimAges
  BY DEF ManualRetry, BackoffElapses, ClaimAges, env, Exists
<1>2. /\ delivery' \in RowType /\ delivery'.withheld = delivery.withheld
      /\ delivery'.attempts = delivery.attempts
      /\ delivery'.status = delivery.status \/
            (delivery.status \in {"pending", "failed"} /\ delivery'.status = "pending")
      /\ delivery'.due = delivery.due \/ delivery.status # "suppressed"
  BY Types DEF ManualRetry, BackoffElapses, ClaimAges, RowType
<1>3. manual' \in 0..MaxManual
  BY Constants DEF ManualRetry, BackoffElapses, ClaimAges, env, TypeOK
<1>4. stalls' \in 0..MaxStalls
  BY Constants DEF ManualRetry, BackoffElapses, ClaimAges, env, TypeOK
<1>5. TypeOK'
  BY <1>1, <1>2, <1>3, <1>4 DEF TypeOK, RowType
<1>6. QuietOK'
  BY <1>1, <1>2 DEF QuietOK
<1> QED BY <1>5, <1>6

LEMMA StepInv == Inv /\ [Next]_vars => Inv'
<1> SUFFICES ASSUME Inv, [Next]_vars PROVE Inv'
  OBVIOUS
<1>1. CASE \E s \in BOOLEAN : CreateDelivery(s)
  BY <1>1, CreateStep
<1>2. CASE \E p \in Posters : Proceed(p) \/ DatabaseError(p) \/ Crash(p)
  BY <1>2, ProceedStep, FaultStep
<1>3. CASE \E w \in Workers : Tick(w) \/ Throws(w)
  BY <1>3, WorkerStep
<1>4. CASE ManualRetry \/ BackoffElapses \/ ClaimAges
  BY <1>4, RowChange
<1>5. CASE UNCHANGED vars
  BY <1>5 DEF vars, env, Inv, TypeOK, QuietOK
<1> QED BY <1>1, <1>2, <1>3, <1>4, <1>5 DEF Next

\* The state of the row and its posters stays in its domain, whoever writes it by id.
THEOREM TypeCorrect == Spec => []TypeOK
<1>1. Init => Inv
  BY InitInv
<1>2. Inv => TypeOK
  BY DEF Inv
<1> QED BY <1>1, <1>2, StepInv, PTL DEF Spec

\* The frozen payload of a review in a chain never reaches the receiver.
THEOREM SuppressedStays == Spec => []SuppressedNeverPosted
<1>1. Init => Inv
  BY InitInv
<1>2. Inv => SuppressedNeverPosted
  BY DEF Inv, QuietOK, SuppressedNeverPosted
<1> QED BY <1>1, <1>2, StepInv, PTL DEF Spec

-----------------------------------------------------------------------------
\* While no working tick outlives its claim, stalls stays 0 from the first state on.
LEMMA StallsUp ==
  ASSUME Inv, [Next]_vars, stalls' = 0 PROVE stalls = 0
<1>0. stalls \in Nat
  BY Types DEF Inv
<1>1. stalls' = stalls \/ stalls' = stalls + 1
  <2>1. CASE \E s \in BOOLEAN : CreateDelivery(s)
    BY <2>1 DEF CreateDelivery, env
  <2>2. CASE \E p \in Posters : Proceed(p)
    BY <2>2 DEF Proceed, Post, Accepted, NotAccepted, MarkDelivered, ReadFailure, GiveUp,
                BackOff, EmitTerminalDeliveryFailure, env
  <2>3. CASE \E p \in Posters : DatabaseError(p) \/ Crash(p)
    BY <2>3 DEF DatabaseError, Crash
  <2>4. CASE \E w \in Workers : Tick(w) \/ Throws(w)
    BY <2>4 DEF Tick, ClaimRetry, CountAttempt, Release, Throws, env
  <2>5. CASE ManualRetry \/ BackoffElapses \/ ClaimAges
    BY <2>5 DEF ManualRetry, BackoffElapses, ClaimAges, env
  <2>6. CASE UNCHANGED vars
    BY <2>6 DEF vars, env
  <2> QED BY <2>1, <2>2, <2>3, <2>4, <2>5, <2>6 DEF Next
<1> QED BY <1>0, <1>1

\* A row that can be claimed has no tick at work.
LEMMA ClaimableIdle ==
  ASSUME ClaimOK, stalls = 0, Claimable
  PROVE  \A w \in Workers : poster[w].pc = "idle"
  BY Constants DEF ClaimOK, Claimable

LEMMA StepClaim == Inv /\ ClaimOK /\ [Next]_vars => ClaimOK'
<1> SUFFICES ASSUME Inv, ClaimOK, [Next]_vars, stalls' = 0,
                    NEW w \in Workers, poster'[w].pc # "idle"
             PROVE  delivery'.claimed_by = w /\ ~delivery'.claim_stale
  BY DEF ClaimOK
<1>1. stalls = 0 /\ w \in Posters /\ w # Sender
  BY StallsUp, Constants DEF Posters
<1>2. poster[w].pc # "idle" => delivery.claimed_by = w /\ ~delivery.claim_stale
  BY <1>1 DEF ClaimOK
<1>3. \A v \in Workers : poster[v].pc # "idle" => delivery.claimed_by = v
  BY <1>1 DEF ClaimOK
<1>4. delivery \in RowType /\ poster \in [Posters -> PosterType]
  BY Types DEF Inv
<1>5. CASE \E s \in BOOLEAN : CreateDelivery(s)
  <2>1. PICK s \in BOOLEAN : CreateDelivery(s)
    BY <1>5
  <2>2. poster[w].pc = "idle"
    BY <1>1, <2>1 DEF CreateDelivery, NoRow, Inv, QuietOK
  <2>3. poster'[w].pc = "idle"
    BY <1>1, <1>4, <2>1, <2>2 DEF CreateDelivery, Goto
  <2> QED BY <2>3
<1>6. CASE \E p \in Posters : Proceed(p) \/ DatabaseError(p)
  <2>1. PICK p \in Posters : Proceed(p) \/ DatabaseError(p)
    BY <1>6
  <2>2. poster[w].pc # "idle"
    BY <1>1, <1>4, <2>1 DEF Proceed, Post, Accepted, NotAccepted, MarkDelivered, ReadFailure,
         GiveUp, BackOff, EmitTerminalDeliveryFailure, DatabaseError, AnsweredOk, Goto, PosterType
  <2>3. delivery'.claimed_by = delivery.claimed_by /\ delivery'.claim_stale = delivery.claim_stale
    BY <1>4, <2>1 DEF Proceed, Post, Accepted, NotAccepted, MarkDelivered, ReadFailure,
         GiveUp, BackOff, EmitTerminalDeliveryFailure, DatabaseError, RowType
  <2> QED BY <1>2, <2>2, <2>3
<1>7. CASE \E p \in Posters : Crash(p)
  <2>1. PICK p \in Posters : Crash(p)
    BY <1>7
  <2>2. delivery' = delivery /\ poster[w].pc # "idle"
    BY <1>1, <1>4, <2>1, IdleType DEF Crash
  <2> QED BY <1>2, <2>2
<1>8. CASE \E v \in Workers : ClaimRetry(v)
  <2>1. PICK v \in Workers : ClaimRetry(v)
    BY <1>8
  <2>2. \A u \in Workers : poster[u].pc = "idle"
    BY <1>1, <2>1, ClaimableIdle DEF ClaimRetry
  <2>3. v \in Posters /\ poster' = [poster EXCEPT ![v] = [pc |-> "claimed", attempts |-> delivery.attempts]]
    BY <2>1 DEF ClaimRetry, Posters
  <2>4. w = v
    BY <1>1, <1>4, <2>2, <2>3
  <2> QED BY <1>4, <2>1, <2>4 DEF ClaimRetry, RowType
<1>9. CASE \E v \in Workers : CountAttempt(v)
  <2>1. PICK v \in Workers : CountAttempt(v)
    BY <1>9
  <2>2. poster[w].pc # "idle"
    BY <1>1, <1>4, <2>1 DEF CountAttempt, Goto, PosterType
  <2> QED BY <1>2, <1>4, <2>1, <2>2 DEF CountAttempt, RowType
<1>10. CASE \E v \in Workers : Release(v) \/ Throws(v)
  <2>1. PICK v \in Workers : Release(v) \/ Throws(v)
    BY <1>10
  <2>2. /\ poster' = [poster EXCEPT ![v] = Idle] /\ poster[v].pc # "idle"
        /\ delivery' = ReleasedBy(v)
    BY <2>1 DEF Release, Throws
  <2>3. w # v /\ poster[w].pc # "idle"
    BY <1>1, <1>4, <2>2, IdleType
  <2> QED BY <1>2, <1>3, <2>2, <2>3
<1>11. CASE ManualRetry \/ BackoffElapses
  <2>1. /\ poster' = poster /\ delivery'.claimed_by = delivery.claimed_by
        /\ delivery'.claim_stale = delivery.claim_stale
    BY <1>4, <1>11 DEF ManualRetry, BackoffElapses, RowType
  <2> QED BY <1>2, <2>1
<1>12. CASE ClaimAges
  <2>1. ~HolderAtWork
    BY <1>1, <1>12 DEF ClaimAges
  <2>2. poster' = poster
    BY <1>12 DEF ClaimAges
  <2> QED BY <1>2, <2>1, <2>2 DEF HolderAtWork
<1>13. CASE UNCHANGED vars
  BY <1>2, <1>13 DEF vars
<1> QED BY <1>5, <1>6, <1>7, <1>8, <1>9, <1>10, <1>11, <1>12, <1>13 DEF Next, Tick

\* No two ticks work on one delivery as long as none outlives its claim: the claim that a
\* tick at work holds is fresh, and a fresh claim keeps every other tick away.
THEOREM ClaimsExclude == Spec => []OneTickAtATime
<1>1. Init => Inv /\ ClaimOK
  BY InitInv
<1>2. Inv /\ ClaimOK /\ [Next]_vars => Inv' /\ ClaimOK'
  BY StepInv, StepClaim
<1>3. Inv /\ ClaimOK => OneTickAtATime
  BY DEF ClaimOK, OneTickAtATime
<1> QED BY <1>1, <1>2, <1>3, PTL DEF Spec

-----------------------------------------------------------------------------
(***************************************************************************)
(* The attempts.  A row that waits for its next tick has one attempt left  *)
(* within the budget; a failure that counts against max_attempts, a death  *)
(* or an operator's retry puts it there.  The sender, which does not count *)
(* its attempt, may do so once more from below max_attempts: Spare is that *)
(* attempt, once it can no longer be asked for.                            *)
(***************************************************************************)
Busy == {"posting", "sent", "ok", "failed", "read"}

MayReopen ==
    \/ poster[Sender].pc \in Busy \ {"read"} /\ delivery.attempts < MaxAttempts
    \/ poster[Sender].pc = "read" /\ poster[Sender].attempts < MaxAttempts

Spare == IF MayReopen THEN 0 ELSE 1
Budget == MaxAttempts + manual + crashes + Spare
TicksDone == \A w \in Workers : poster[w].pc \notin Busy

\* What was read is not ahead of the row, and level with it for the tick that holds it.
ReadsOK ==
    /\ \A p \in Posters : poster[p].pc = "read" => poster[p].attempts <= delivery.attempts
    /\ \A w \in Workers :
          poster[w].pc \in {"claimed", "read"} => poster[w].attempts = delivery.attempts

SpentOK ==
    /\ delivery.status = "failed" => delivery.attempts >= MaxAttempts
    /\ delivery.attempts <= Budget
    /\ TicksDone /\ delivery.status = "pending" => delivery.attempts + 1 <= Budget
    /\ \A w \in Workers : poster[w].pc = "claimed" => delivery.attempts + 1 <= Budget

CountOK == stalls = 0 => ReadsOK /\ SpentOK

All == Inv /\ ClaimOK /\ CountOK

\* Sums of the four terms of Budget.
LEMMA SumType ==
  ASSUME NEW a \in Nat, NEW b \in Nat, NEW c \in Nat, NEW d \in Nat
  PROVE  a + b + c + d \in Nat /\ a + b + c + d >= a
  OBVIOUS

LEMMA SumGrows ==
  ASSUME NEW a \in Nat, NEW b \in Nat, NEW c \in Nat, NEW d \in Nat,
         NEW e \in Nat, NEW f \in Nat, NEW g \in Nat, d <= g
  PROVE  a + e + f + g >= a + b + c + d + (e + f - (b + c))
  OBVIOUS

LEMMA NoLess ==
  ASSUME NEW x \in Nat, NEW y \in Nat, NEW b \in Nat, NEW c \in Nat, NEW e \in Nat,
         NEW f \in Nat, y >= x + (e + f - (b + c)), e + f >= b + c
  PROVE  y >= x
  OBVIOUS

LEMMA SpareType == Spare \in {0, 1} /\ (MayReopen => Spare = 0) /\ (~MayReopen => Spare = 1)
  BY DEF Spare

LEMMA BudgetType ==
  ASSUME Inv
  PROVE  /\ Budget \in Nat /\ delivery.attempts \in Nat
         /\ MaxAttempts + manual + crashes \in Nat
         /\ Budget >= MaxAttempts
  BY Types, Constants, SpareType DEF Budget, Inv

LEMMA InitCount == Init => CountOK
<1> SUFFICES ASSUME Init PROVE ReadsOK /\ SpentOK
  BY DEF CountOK
<1>1. Inv
  BY InitInv
<1>2. \A p \in Posters : poster[p].pc = "idle"
  BY IdleType DEF Init
<1>3. delivery.status = "absent" /\ delivery.attempts = 0
  BY DEF Init, NoRow
<1>4. Workers \subseteq Posters
  BY DEF Posters
<1>5. ReadsOK
  BY <1>2, <1>4 DEF ReadsOK
<1>6. SpentOK
  BY <1>1, <1>2, <1>3, <1>4, BudgetType DEF SpentOK
<1> QED BY <1>5, <1>6

\* The steps after which the sender can reopen nothing that it could not before.
LEMMA BudgetGrows ==
  ASSUME Inv, Inv', MayReopen' => MayReopen,
         manual' + crashes' >= manual + crashes
  PROVE  Budget' >= Budget + (manual' + crashes' - (manual + crashes))
<1>1. Spare' \in Nat /\ Spare \in Nat
  BY DEF Spare
<1>2. Spare' >= Spare
  <2>1. CASE MayReopen
    BY <1>1, <2>1 DEF Spare
  <2>2. CASE ~MayReopen
    BY <2>2 DEF Spare
  <2> QED BY <2>1, <2>2
<1>3. /\ manual \in Nat /\ crashes \in Nat /\ manual' \in Nat /\ crashes' \in Nat
      /\ MaxAttempts \in Nat
  BY Types, Constants DEF Inv, TypeOK
<1>4. /\ Budget = MaxAttempts + manual + crashes + Spare
      /\ Budget' = MaxAttempts + manual' + crashes' + Spare'
  BY DEF Budget
<1>5. Spare <= Spare'
  BY <1>1, <1>2
<1>6.    MaxAttempts + manual' + crashes' + Spare' >=
            MaxAttempts + manual + crashes + Spare + (manual' + crashes' - (manual + crashes))
  BY <1>1, <1>3, <1>5, SumGrows
<1> QED BY <1>4, <1>6

LEMMA BudgetNext ==
  ASSUME Inv'
  PROVE  Budget' \in Nat /\ Budget' >= MaxAttempts
<1>1. manual' \in Nat /\ crashes' \in Nat /\ MaxAttempts \in Nat
  BY Constants DEF Inv, TypeOK
<1>2. Spare' \in Nat
  BY DEF Spare
<1>3. Budget' = MaxAttempts + manual' + crashes' + Spare'
  BY DEF Budget
<1> QED BY <1>1, <1>2, <1>3, SumType

\* A step of p that leaves the attempts on the row alone.
LEMMA SenderStep ==
  ASSUME Inv, ReadsOK, delivery'.attempts = delivery.attempts,
         \/ poster'[Sender] = poster[Sender]
         \/ poster'[Sender].pc \notin Busy
         \/ /\ poster[Sender].pc \in Busy
            /\ poster'[Sender].pc \in Busy \ {"read"}
         \/ /\ poster[Sender].pc \in Busy
            /\ poster'[Sender].attempts = delivery.attempts
  PROVE  MayReopen' => MayReopen
<1>1. Sender \in Posters
  BY DEF Posters
<1>2. /\ delivery.attempts \in Nat /\ poster[Sender].attempts \in Nat
      /\ MaxAttempts \in Nat
  BY <1>1, Types, Constants DEF Inv
<1>3. poster[Sender].pc = "read" => poster[Sender].attempts <= delivery.attempts
  BY <1>1 DEF ReadsOK
<1> QED BY <1>2, <1>3 DEF MayReopen, Busy

\* A step of a poster that leaves the row alone: the budget can only grow, and a tick
\* that is done was done before, unless it died.
LEMMA PosterCount ==
  ASSUME Inv, Inv', ReadsOK, SpentOK, NEW p \in Posters, delivery' = delivery,
         \A q \in Posters : q # p => poster'[q] = poster[q],
         \/ poster'[p].pc \notin {"claimed", "read"}
         \/ poster'[p].pc = "read" /\ poster'[p].attempts = delivery.attempts,
         poster[p].pc \in Busy \/ poster'[p].pc \notin Busy,
         manual' = manual,
         \/ crashes' = crashes + 1
         \/ crashes' = crashes /\ (poster[p].pc \in Busy => poster'[p].pc \in Busy)
  PROVE  ReadsOK' /\ SpentOK'
<1>1. Sender \in Posters /\ Workers \subseteq Posters
  BY DEF Posters
<1>2. /\ manual \in Nat /\ crashes \in Nat /\ delivery.attempts \in Nat
      /\ crashes' = crashes \/ crashes' = crashes + 1
  BY Types DEF Inv
<1>3. ReadsOK'
  BY <1>1, <1>2 DEF ReadsOK
<1>4. MayReopen' => MayReopen
  BY <1>1, SenderStep DEF Busy
<1>5. Budget' >= Budget + (crashes' - crashes)
  BY <1>2, <1>4, BudgetGrows
<1>6. Budget \in Nat /\ Budget' \in Nat
  BY BudgetType, BudgetNext
<1>7. delivery.attempts <= Budget
  BY DEF SpentOK
<1>8. CASE crashes' = crashes + 1
  <2>1. delivery.attempts + 1 <= Budget'
    BY <1>2, <1>5, <1>6, <1>7, <1>8
  <2> QED BY <1>2, <1>3, <1>6, <2>1 DEF SpentOK
<1>9. CASE crashes' = crashes /\ (poster[p].pc \in Busy => poster'[p].pc \in Busy)
  <2>1. Budget' >= Budget
    BY <1>2, <1>5, <1>6, <1>9
  <2>2. TicksDone' => TicksDone
    BY <1>1, <1>9 DEF TicksDone
  <2>3. \A w \in Workers : poster'[w].pc = "claimed" => poster[w].pc = "claimed"
    BY <1>1
  <2> QED BY <1>2, <1>3, <1>6, <2>1, <2>2, <2>3 DEF SpentOK
<1> QED BY <1>8, <1>9

\* A step that writes the row and leaves its attempts alone.
LEMMA RowCount ==
  ASSUME Inv, Inv', ReadsOK, SpentOK, NEW p \in Posters,
         delivery'.attempts = delivery.attempts,
         \A q \in Posters : q # p => poster'[q] = poster[q],
         \/ poster'[p].pc \notin Busy \cup {"claimed"}
         \/ poster'[p] = poster[p],
         delivery'.status = "failed" => delivery.attempts >= MaxAttempts,
         manual' + crashes' >= manual + crashes,
         \/ delivery'.status # "pending"
         \/ delivery'.status = delivery.status /\ poster'[p] = poster[p]
         \/ delivery'.status = delivery.status /\ poster[p].pc \notin Busy
         \/ delivery.attempts + 1 <= Budget'
  PROVE  ReadsOK' /\ SpentOK'
<1>1. Sender \in Posters /\ Workers \subseteq Posters
  BY DEF Posters
<1>2. /\ manual \in Nat /\ crashes \in Nat /\ delivery.attempts \in Nat
      /\ manual' \in Nat /\ crashes' \in Nat
  BY Types DEF Inv, TypeOK
<1>3. ReadsOK'
  BY <1>1, <1>2 DEF ReadsOK, Busy
<1>4. MayReopen' => MayReopen
  BY <1>1, SenderStep DEF Busy
<1>5. Budget' >= Budget + (manual' + crashes' - (manual + crashes))
  BY <1>4, BudgetGrows
<1>6. Budget \in Nat /\ Budget' \in Nat
  BY BudgetType, BudgetNext
<1>7. Budget' >= Budget
  BY <1>2, <1>5, <1>6, NoLess
<1>8. delivery.attempts <= Budget'
  BY <1>2, <1>6, <1>7 DEF SpentOK
<1>9. \A w \in Workers : poster'[w].pc = "claimed" => delivery.attempts + 1 <= Budget'
  BY <1>1, <1>2, <1>6, <1>7 DEF SpentOK
<1>10. TicksDone' /\ delivery'.status = "pending" => delivery.attempts + 1 <= Budget'
  <2>1. CASE delivery'.status = delivery.status
              /\ (poster'[p] = poster[p] \/ poster[p].pc \notin Busy)
    <3>1. TicksDone' => TicksDone
      BY <1>1, <2>1 DEF TicksDone
    <3> QED BY <1>2, <1>6, <1>7, <2>1, <3>1 DEF SpentOK
  <2> QED BY <2>1
<1> QED BY <1>3, <1>8, <1>9, <1>10 DEF SpentOK

\* A death or an operator's retry adds one to the budget.
LEMMA OneMore ==
  ASSUME Inv, Inv', SpentOK, MayReopen' => MayReopen,
         \/ manual' = manual + 1 /\ crashes' = crashes
         \/ manual' = manual /\ crashes' = crashes + 1
  PROVE  delivery.attempts + 1 <= Budget'
<1>1. manual \in Nat /\ crashes \in Nat /\ delivery.attempts \in Nat
  BY Types DEF Inv
<1>2. manual' + crashes' - (manual + crashes) = 1 /\ manual' + crashes' >= manual + crashes
  BY <1>1
<1>3. Budget' >= Budget + 1
  BY <1>2, BudgetGrows
<1>4. Budget \in Nat /\ Budget' \in Nat /\ delivery.attempts <= Budget
  BY BudgetType, BudgetNext DEF SpentOK
<1> QED BY <1>1, <1>3, <1>4

LEMMA CreateCount ==
  ASSUME Inv, Inv', NEW s \in BOOLEAN, CreateDelivery(s)
  PROVE  ReadsOK' /\ SpentOK'
<1>1. Sender \in Posters /\ Workers \subseteq Posters /\ Sender \notin Workers
  BY Constants DEF Posters
<1>2. \A p \in Posters : poster[p].pc = "idle"
  BY DEF CreateDelivery, NoRow, Inv, QuietOK
<1>3. \A p \in Posters : p # Sender => poster'[p].pc = "idle"
  BY <1>2, Types DEF CreateDelivery, Goto, Inv
<1>4. Budget' \in Nat /\ Budget' >= MaxAttempts
  BY BudgetNext
<1>5. CASE s
  <2>1. delivery'.status = "suppressed" /\ delivery'.attempts = 0 /\ poster' = poster
    BY <1>5 DEF CreateDelivery, InsertedRow, NoRow
  <2> QED BY <1>1, <1>2, <1>4, <2>1 DEF ReadsOK, SpentOK
<1>6. CASE ~s
  <2>1. delivery'.status = "pending" /\ delivery'.attempts = 1
    BY <1>6 DEF CreateDelivery, InsertedRow, NoRow
  <2>2. poster'[Sender].pc = "posting"
    BY <1>1, <1>6, Types DEF CreateDelivery, Goto, Inv, PosterType
  <2>3. 1 + 1 <= Budget'
    <3>1. CASE MaxAttempts >= 2
      BY <1>4, <3>1, Constants
    <3>2. CASE ~(MaxAttempts >= 2)
      <4>1. MaxAttempts = 1
        BY <3>2, Constants
      <4>2. ~(1 < MaxAttempts)
        BY <4>1
      <4>3. ~MayReopen'
        BY <2>1, <2>2, <4>2 DEF MayReopen
      <4>4. Spare' = 1
        BY <4>3 DEF Spare
      <4>5. manual' \in Nat /\ crashes' \in Nat
        BY Constants DEF Inv, TypeOK
      <4>6. Budget' = MaxAttempts + manual' + crashes' + Spare'
        BY DEF Budget
      <4>7. \A m, c \in Nat : 1 + m + c + 1 >= 1 + 1
        OBVIOUS
      <4> QED BY <4>1, <4>4, <4>5, <4>6, <4>7
    <3> QED BY <3>1, <3>2
  <2>4. 1 <= Budget'
    BY <1>4, <2>3
  <2> QED BY <1>1, <1>3, <1>4, <2>1, <2>2, <2>3, <2>4 DEF ReadsOK, SpentOK
<1> QED BY <1>5, <1>6

LEMMA ProceedCount ==
  ASSUME Inv, Inv', ReadsOK, SpentOK, NEW p \in Posters,
         Proceed(p) \/ DatabaseError(p) \/ Crash(p)
  PROVE  ReadsOK' /\ SpentOK'
<1> USE DEF Inv
<1>1. Done(p) \in PCs /\ Done(p) \in {"idle", "release"} /\ (p = Sender => Done(p) = "idle")
  BY DEF Done, PCs
<1>2. Sender \in Posters /\ Workers \subseteq Posters /\ Posters = Workers \cup {Sender}
  BY DEF Posters
<1>3. /\ manual \in Nat /\ crashes \in Nat /\ delivery.attempts \in Nat
      /\ poster[p].attempts \in Nat /\ MaxAttempts \in Nat
  BY Types, Constants
<1>4. CASE Post(p) \/ Accepted(p) \/ NotAccepted(p)
  <2>1. PICK pc \in {"sent", "ok", "failed"} : Goto(p, pc)
    BY <1>4 DEF Post, Accepted, NotAccepted
  <2>2. /\ poster'[p].pc = pc /\ \A q \in Posters : q # p => poster'[q] = poster[q]
    BY <2>1, GotoType DEF PCs
  <2>3. /\ delivery' = delivery /\ manual' = manual /\ crashes' = crashes
        /\ poster[p].pc \in Busy
    BY <1>4 DEF Post, Accepted, NotAccepted, env, Busy
  <2> QED BY <2>2, <2>3, PosterCount DEF Busy
<1>5. CASE ReadFailure(p)
  <2>1. [pc |-> "read", attempts |-> delivery.attempts] \in PosterType
    BY <1>3 DEF PosterType, PCs
  <2>2. /\ poster'[p] = [pc |-> "read", attempts |-> delivery.attempts]
        /\ \A q \in Posters : q # p => poster'[q] = poster[q]
    BY <1>5, <2>1, SetType DEF ReadFailure
  <2>3. /\ delivery' = delivery /\ manual' = manual /\ crashes' = crashes
        /\ poster[p].pc \in Busy
    BY <1>5 DEF ReadFailure, env, Busy
  <2> QED BY <2>2, <2>3, PosterCount DEF Busy
<1>6. CASE EmitTerminalDeliveryFailure(p)
  <2>1. /\ poster'[p].pc = Done(p) /\ \A q \in Posters : q # p => poster'[q] = poster[q]
    BY <1>1, <1>6, GotoType DEF EmitTerminalDeliveryFailure
  <2>2. /\ delivery' = delivery /\ manual' = manual /\ crashes' = crashes
        /\ poster[p].pc \notin Busy
    BY <1>6 DEF EmitTerminalDeliveryFailure, env, Busy
  <2> QED BY <1>1, <2>1, <2>2, PosterCount DEF Busy
<1>7. CASE DatabaseError(p) \/ Crash(p)
  <2>1. /\ poster'[p].pc \in {"failed", "idle"}
        /\ \A q \in Posters : q # p => poster'[q] = poster[q]
    BY <1>7, GotoType, SetType, IdleType DEF DatabaseError, Crash, PCs
  <2>2. /\ delivery' = delivery /\ manual' = manual /\ crashes' = crashes + 1
        /\ poster[p].pc \in Busy \/ poster'[p].pc \notin Busy
    BY <1>3, <1>7, <2>1, SetType, IdleType DEF DatabaseError, Crash, Busy, AnsweredOk
  <2> QED BY <2>1, <2>2, PosterCount
<1>8. CASE MarkDelivered(p)
  <2>1. /\ poster'[p].pc = Done(p) /\ \A q \in Posters : q # p => poster'[q] = poster[q]
    BY <1>1, <1>8, GotoType DEF MarkDelivered
  <2>2. /\ delivery'.status = "delivered" /\ delivery'.attempts = delivery.attempts
        /\ manual' = manual /\ crashes' = crashes
    BY <1>8, Types DEF MarkDelivered, env, RowType
  <2> QED BY <1>1, <1>3, <2>1, <2>2, RowCount DEF Busy
<1>9. CASE GiveUp(p)
  <2>1. /\ poster'[p].pc = "alert" /\ \A q \in Posters : q # p => poster'[q] = poster[q]
    BY <1>9, GotoType DEF GiveUp, PCs
  <2>2. /\ delivery'.status = "failed" /\ delivery'.attempts = delivery.attempts
        /\ manual' = manual /\ crashes' = crashes
    BY <1>9, Types DEF GiveUp, env, RowType
  <2>3. poster[p].attempts <= delivery.attempts /\ poster[p].attempts >= MaxAttempts
    BY <1>9 DEF GiveUp, Exhausted, ReadsOK
  <2>4. delivery.attempts >= MaxAttempts
    BY <1>3, <2>3
  <2> QED BY <1>3, <2>1, <2>2, <2>4, RowCount DEF Busy
<1>10. CASE BackOff(p)
  <2>1. /\ poster'[p].pc = Done(p) /\ \A q \in Posters : q # p => poster'[q] = poster[q]
    BY <1>1, <1>10, GotoType DEF BackOff
  <2>2. /\ delivery'.status = "pending" /\ delivery'.attempts = delivery.attempts
        /\ manual' = manual /\ crashes' = crashes
    BY <1>10, Types DEF BackOff, env, RowType
  <2>3. poster[p].attempts < MaxAttempts /\ poster[p].pc = "read"
    BY <1>3, <1>10 DEF BackOff, Exhausted
  <2>4. delivery.attempts + 1 <= Budget'
    <3>1. CASE p = Sender
      <4>1. MayReopen /\ ~MayReopen'
        BY <1>1, <2>1, <2>3, <3>1 DEF MayReopen, Busy
      <4>2. Spare = 0 /\ Spare' = 1
        BY <4>1 DEF Spare
      <4>3. /\ Budget = MaxAttempts + manual + crashes + 0
            /\ Budget' = MaxAttempts + manual + crashes + 1
        BY <2>2, <4>2 DEF Budget
      <4>4. delivery.attempts <= Budget
        BY DEF SpentOK
      <4> QED BY <1>3, <4>3, <4>4
    <3>2. CASE p \in Workers
      <4>1. delivery.attempts < MaxAttempts
        BY <2>3, <3>2 DEF ReadsOK
      <4>2. Budget' \in Nat /\ Budget' >= MaxAttempts
        BY BudgetNext
      <4> QED BY <1>3, <4>1, <4>2
    <3> QED BY <1>2, <3>1, <3>2
  <2> QED BY <1>1, <1>3, <2>1, <2>2, <2>4, RowCount DEF Busy
<1> QED BY <1>4, <1>5, <1>6, <1>7, <1>8, <1>9, <1>10 DEF Proceed

LEMMA WorkerCount ==
  ASSUME Inv, Inv', ReadsOK, SpentOK, ClaimOK, stalls = 0,
         NEW w \in Workers, Tick(w) \/ Throws(w)
  PROVE  ReadsOK' /\ SpentOK'
<1> USE DEF Inv
<1>1. Sender \in Posters /\ Workers \subseteq Posters /\ w # Sender /\ w \in Posters
  BY Constants DEF Posters
<1>2. /\ manual \in Nat /\ crashes \in Nat /\ delivery.attempts \in Nat
      /\ poster[w].attempts \in Nat /\ MaxAttempts \in Nat
  BY <1>1, Types, Constants
<1>3. Budget \in Nat /\ Budget' \in Nat
  BY BudgetType, BudgetNext
<1>4. CASE ClaimRetry(w)
  <2>1. [pc |-> "claimed", attempts |-> delivery.attempts] \in PosterType
    BY <1>2 DEF PosterType, PCs
  <2>2. /\ poster'[w] = [pc |-> "claimed", attempts |-> delivery.attempts]
        /\ \A q \in Posters : q # w => poster'[q] = poster[q]
    BY <1>1, <1>4, <2>1, SetType DEF ClaimRetry
  <2>3. /\ delivery.status = "pending" /\ delivery'.status = "pending"
        /\ delivery'.attempts = delivery.attempts
        /\ manual' = manual /\ crashes' = crashes
    BY <1>4, Types DEF ClaimRetry, RowType, env
  <2>4. \A v \in Workers : poster[v].pc = "idle"
    BY <1>4, ClaimableIdle DEF ClaimRetry
  <2>5. delivery.attempts + 1 <= Budget
    BY <2>3, <2>4 DEF SpentOK, TicksDone, Busy
  <2>6. MayReopen' => MayReopen
    BY <1>1, <2>2, <2>3 DEF MayReopen
  <2>7. Budget' = Budget \/ Budget' >= Budget + (manual + crashes - (manual + crashes))
    BY <1>2, <2>3, <2>6, BudgetGrows
  <2>8. delivery.attempts + 1 <= Budget'
    BY <1>2, <1>3, <2>5, <2>7
  <2>9. ReadsOK'
    BY <1>1, <1>2, <2>2, <2>3, <2>4 DEF ReadsOK
  <2> QED BY <1>2, <1>3, <2>3, <2>8, <2>9 DEF SpentOK
<1>5. CASE CountAttempt(w)
  <2>1. /\ poster[w].pc = "claimed" /\ poster'[w].pc = "posting"
        /\ \A q \in Posters : q # w => poster'[q] = poster[q]
    BY <1>1, <1>5, GotoType DEF CountAttempt, PCs
  <2>2. poster[w].attempts = delivery.attempts /\ delivery.attempts + 1 <= Budget
    BY <2>1 DEF ReadsOK, SpentOK
  <2>3. /\ delivery'.status = delivery.status
        /\ delivery'.attempts = delivery.attempts + 1
        /\ manual' = manual /\ crashes' = crashes
    BY <1>5, <2>2, Types DEF CountAttempt, RowType, env
  <2>4. \A v \in Workers : v # w => poster[v].pc = "idle"
    BY <2>1 DEF ClaimOK
  <2>5. MayReopen' => MayReopen
    BY <1>1, <1>2, <2>1, <2>3 DEF MayReopen
  <2>6. Budget' >= Budget + (manual + crashes - (manual + crashes))
    BY <1>2, <2>3, <2>5, BudgetGrows
  <2>7. delivery'.attempts <= Budget'
    BY <1>2, <1>3, <2>2, <2>3, <2>6
  <2>8. ~TicksDone'
    BY <2>1 DEF TicksDone, Busy
  <2>9. \A v \in Workers : poster'[v].pc # "claimed" /\ poster'[v].pc # "read"
    BY <1>1, <2>1, <2>4
  <2>10. ReadsOK'
    BY <1>1, <1>2, <2>1, <2>3, <2>9, Types DEF ReadsOK
  <2>11. delivery'.status = "failed" => delivery'.attempts >= MaxAttempts
    BY <1>2, <2>3 DEF SpentOK
  <2> QED BY <2>7, <2>8, <2>9, <2>10, <2>11 DEF SpentOK
<1>6. CASE Release(w) \/ Throws(w)
  <2>1. /\ poster'[w].pc = "idle" /\ \A q \in Posters : q # w => poster'[q] = poster[q]
    BY <1>1, <1>6, SetType, IdleType DEF Release, Throws
  <2>2. /\ delivery'.status = delivery.status /\ delivery'.attempts = delivery.attempts
        /\ manual' = manual
    BY <1>6, Released DEF Release, Throws, env
  <2>3. delivery'.status = "failed" => delivery.attempts >= MaxAttempts
    BY <2>2 DEF SpentOK
  <2>4. CASE Release(w)
    <3>1. crashes' = crashes /\ poster[w].pc \notin Busy
      BY <2>4 DEF Release, env, Busy
    <3> QED BY <1>1, <1>2, <2>1, <2>2, <2>3, <3>1, RowCount DEF Busy
  <2>5. CASE Throws(w)
    <3>1. crashes' = crashes + 1
      BY <2>5 DEF Throws
    <3>2. MayReopen' => MayReopen
      BY <1>1, <2>1, <2>2 DEF MayReopen
    <3>3. delivery.attempts + 1 <= Budget'
      BY <2>2, <3>1, <3>2, OneMore
    <3>4. manual' + crashes' >= manual + crashes
      BY <1>2, <2>2, <3>1
    <3> QED BY <1>1, <2>1, <2>2, <2>3, <3>3, <3>4, RowCount DEF Busy
  <2> QED BY <1>6, <2>4, <2>5
<1> QED BY <1>4, <1>5, <1>6 DEF Tick

LEMMA RowChangeCount ==
  ASSUME Inv, Inv', ReadsOK, SpentOK,
         ManualRetry \/ BackoffElapses \/ ClaimAges \/ UNCHANGED vars
  PROVE  ReadsOK' /\ SpentOK'
<1> USE DEF Inv
<1>1. Sender \in Posters
  BY DEF Posters
<1>2. poster' = poster /\ delivery'.attempts = delivery.attempts /\ crashes' = crashes
  BY Types DEF ManualRetry, BackoffElapses, ClaimAges, RowType, vars, env
<1>3. manual \in Nat /\ crashes \in Nat
  BY Types
<1>4. CASE ManualRetry
  <2>1. manual' = manual + 1 /\ delivery'.status = "pending"
    BY <1>4, Types DEF ManualRetry, RowType
  <2>2. MayReopen' => MayReopen
    BY <1>2 DEF MayReopen
  <2>3. delivery.attempts + 1 <= Budget'
    BY <1>2, <2>1, <2>2, OneMore
  <2>4. manual' + crashes' >= manual + crashes
    BY <1>2, <1>3, <2>1
  <2> QED BY <1>1, <1>2, <2>1, <2>3, <2>4, RowCount
<1>5. CASE BackoffElapses \/ ClaimAges \/ UNCHANGED vars
  <2>1. manual' = manual /\ delivery'.status = delivery.status
    BY <1>5, Types DEF BackoffElapses, ClaimAges, RowType, vars, env
  <2>2. manual' + crashes' >= manual + crashes
    BY <1>2, <1>3, <2>1
  <2>3. delivery'.status = "failed" => delivery.attempts >= MaxAttempts
    BY <2>1 DEF SpentOK
  <2> QED BY <1>1, <1>2, <2>1, <2>2, <2>3, RowCount
<1> QED BY <1>4, <1>5

LEMMA StepAll == All /\ [Next]_vars => All'
<1> SUFFICES ASSUME All, [Next]_vars PROVE All'
  OBVIOUS
<1>1. Inv' /\ ClaimOK'
  BY StepInv, StepClaim DEF All
<1>2. ASSUME stalls' = 0 PROVE ReadsOK' /\ SpentOK'
  <2>1. stalls = 0 /\ ReadsOK /\ SpentOK
    BY <1>2, StallsUp DEF All, CountOK
  <2>2. CASE \E s \in BOOLEAN : CreateDelivery(s)
    BY <1>1, <2>2, CreateCount DEF All
  <2>3. CASE \E p \in Posters : Proceed(p) \/ DatabaseError(p) \/ Crash(p)
    BY <1>1, <2>1, <2>3, ProceedCount DEF All
  <2>4. CASE \E w \in Workers : Tick(w) \/ Throws(w)
    BY <1>1, <2>1, <2>4, WorkerCount DEF All
  <2>5. CASE ManualRetry \/ BackoffElapses \/ ClaimAges \/ UNCHANGED vars
    BY <1>1, <2>1, <2>5, RowChangeCount DEF All
  <2> QED BY <2>2, <2>3, <2>4, <2>5 DEF Next
<1>3. CountOK'
  BY <1>2 DEF CountOK
<1> QED BY <1>1, <1>3 DEF All

\* The service neither gives up before max_attempts nor goes on beyond what dead posters,
\* operators and the sender's one unclaimed failure account for.
THEOREM AttemptsHonoured == Spec => []MaxAttemptsHonoured
<1>1. Init => All
  BY InitInv, InitCount DEF All
<1>2. All => MaxAttemptsHonoured
  <2> SUFFICES ASSUME All, stalls = 0
               PROVE  /\ delivery.status = "failed" => delivery.attempts >= MaxAttempts
                      /\ delivery.attempts <= MaxAttempts + manual + crashes + 1
    BY DEF MaxAttemptsHonoured
  <2>1. SpentOK /\ Inv
    BY DEF All, CountOK
  <2>2. Spare \in {0, 1}
    BY SpareType
  <2>3. /\ manual \in Nat /\ crashes \in Nat /\ delivery.attempts \in Nat
        /\ MaxAttempts \in Nat
    BY <2>1, Types, Constants DEF Inv
  <2>4. delivery.attempts <= MaxAttempts + manual + crashes + Spare
    BY <2>1 DEF SpentOK, Budget
  <2> QED BY <2>1, <2>2, <2>3, <2>4 DEF SpentOK
<1> QED BY <1>1, <1>2, StepAll, PTL DEF Spec

=============================================================================
