---------------------------- MODULE TeamDeskProofs ----------------------------
(***************************************************************************)
(* Proofs about TeamDesk for every finite team and every set of requests.  *)
(***************************************************************************)
EXTENDS TeamDesk, FiniteSetTheorems, TLAPS

MemberType == [role : {"admin", "reviewer"}, active : BOOLEAN]
ReqType ==
    [pc : {"idle", "asked", "locked", "counted", "held", "release", "assign"},
     op : TeamOps \cup AssignOps \cup {"none"},
     caller : Actors \cup {None}, may : BOOLEAN,
     target : Actors \cup {None}, seen : Actors \cup {None}]

\* A request has read what its next step uses, and holds its target's row from the
\* moment it locked it.
Sound(r) ==
    /\ req[r].pc \in {"asked", "locked", "counted"} =>
          req[r].op \in TeamOps /\ req[r].target \in Members
    /\ req[r].pc \in {"locked", "counted"} => rowlock[req[r].target] = r
    /\ req[r].pc = "held" => req[r].caller \in Actors
    /\ req[r].pc = "release" => req[r].caller = req[r].seen \/ req[r].may
    /\ req[r].pc = "assign" => req[r].target \in Actors /\ req[r].may

RequestOK == \A r \in Requests : Sound(r)

Inv == TypeOK /\ RequestOK

LEMMA InitInv == Init => Inv
  BY DEF Init, Inv, TypeOK, RequestOK, Sound, Idle

\* A request that starts; nobody else's row is touched.
LEMMA StartInv ==
  ASSUME Inv, NEW r \in Requests, NEW what \in ReqType, Start(r, what),
         what.pc \in {"asked", "held", "release", "assign"},
         what.pc = "asked" => what.op \in TeamOps /\ what.target \in Members,
         what.pc = "held" => what.caller \in Actors,
         what.pc = "release" => what.caller = what.seen \/ what.may,
         what.pc = "assign" => what.target \in Actors /\ what.may,
         UNCHANGED <<member, rowlock, assignee, held_by, lapse>>
  PROVE  Inv'
<1>1. req' \in [Requests -> ReqType] /\ req'[r] = what
  BY DEF Start, Inv, TypeOK, ReqType
<1>2. \A s \in Requests : s # r => req'[s] = req[s]
  BY DEF Start, Inv, TypeOK
<1>3. TypeOK'
  BY <1>1 DEF Inv, TypeOK, ReqType
<1>4. RequestOK'
  BY <1>1, <1>2 DEF Inv, RequestOK, Sound
<1> QED BY <1>3, <1>4 DEF Inv

\* A request that ends; its own row lock is given back with it.
LEMMA FinishInv ==
  ASSUME Inv, NEW r \in Requests, Finish(r),
         member' \in [Members -> MemberType], rowlock' \in [Members -> Requests \cup {None}],
         assignee' \in Actors \cup {None}, held_by' \in Actors \cup {None},
         lapse' \in {"none", "race", "deletion"},
         \A m \in Members : rowlock[m] # r => rowlock'[m] = rowlock[m]
  PROVE  Inv'
<1>1. req' \in [Requests -> ReqType] /\ req'[r].pc = "idle"
  BY DEF Finish, Idle, Inv, TypeOK, ReqType
<1>2. \A s \in Requests : s # r => req'[s] = req[s]
  BY DEF Finish, Inv, TypeOK
<1>3. TypeOK'
  BY <1>1 DEF Inv, TypeOK, ReqType, MemberType
<1>4. RequestOK'
  BY <1>1, <1>2 DEF Inv, RequestOK, Sound
<1> QED BY <1>3, <1>4 DEF Inv

LEMMA UnlockType ==
  ASSUME Inv, NEW r \in Requests, req[r].pc \in {"locked", "counted"}, Unlock(r)
  PROVE  /\ rowlock' \in [Members -> Requests \cup {None}]
         /\ \A m \in Members : rowlock[m] # r => rowlock'[m] = rowlock[m]
  BY DEF Unlock, Inv, TypeOK, RequestOK, Sound

LEMMA ChangedType ==
  ASSUME NEW m \in MemberType, NEW op \in TeamOps
  PROVE  Changed(m, op) \in MemberType
  BY DEF Changed, MemberType, TeamOps

LEMMA NextInv == Inv /\ [Next]_vars => Inv'
<1> SUFFICES ASSUME Inv, [Next]_vars PROVE Inv'
  OBVIOUS
<1>1. ASSUME NEW r \in Requests, NEW caller \in Members, NEW target \in Members,
             NEW op \in TeamOps, AskChange(r, caller, target, op)
      PROVE  Inv'
  <2> DEFINE what == [Idle EXCEPT !.pc = "asked", !.op = op, !.target = target]
  <2>1. what \in ReqType /\ what.pc = "asked" /\ what.op = op /\ what.target = target
    BY DEF Idle, ReqType, Actors
  <2> QED BY <1>1, <2>1, StartInv DEF AskChange, desk
<1>2. ASSUME NEW r \in Requests, LockTarget(r) PROVE Inv'
  <2>1. /\ req[r].pc = "asked" /\ rowlock[req[r].target] = None
        /\ req[r].op \in TeamOps /\ req[r].target \in Members
    BY <1>2 DEF LockTarget, Inv, RequestOK, Sound
  <2>2. /\ req' \in [Requests -> ReqType] /\ req'[r] = [req[r] EXCEPT !.pc = "locked"]
        /\ \A s \in Requests : s # r => req'[s] = req[s]
    BY <1>2 DEF LockTarget, Inv, TypeOK, ReqType
  <2>3. rowlock' = [rowlock EXCEPT ![req[r].target] = r]
    BY <1>2 DEF LockTarget
  <2>4. TypeOK'
    <3>1. rowlock' \in [Members -> Requests \cup {None}]
      BY <2>3 DEF Inv, TypeOK
    <3>2. UNCHANGED <<member, assignee, held_by, lapse>>
      BY <1>2 DEF LockTarget, desk
    <3> QED BY <2>2, <3>1, <3>2 DEF Inv, TypeOK, ReqType
  <2>5. /\ req'[r].pc = "locked" /\ req'[r].op \in TeamOps
        /\ req'[r].target = req[r].target /\ rowlock'[req[r].target] = r
    BY <2>1, <2>2, <2>3 DEF Inv, TypeOK
  <2>6. \A s \in Requests, m \in Members : s # r /\ rowlock[m] = s => rowlock'[m] = s
    BY <2>1, <2>3, TeamConstants DEF Inv, TypeOK
  <2>7. Sound(r)'
    BY <2>1, <2>5 DEF Sound
  <2>8. ASSUME NEW s \in Requests, s # r PROVE Sound(s)'
    <3>1. Sound(s) /\ req'[s] = req[s]
      BY <2>2, <2>8 DEF Inv, RequestOK
    <3> QED BY <2>6, <2>8, <3>1 DEF Sound
  <2> QED BY <2>4, <2>7, <2>8 DEF Inv, RequestOK
<1>3. ASSUME NEW r \in Requests, PassCount(r) PROVE Inv'
  <2>1. /\ req' \in [Requests -> ReqType] /\ req'[r] = [req[r] EXCEPT !.pc = "counted"]
        /\ \A s \in Requests : s # r => req'[s] = req[s]
        /\ req[r].pc = "locked" /\ UNCHANGED <<member, rowlock, assignee, held_by>>
    BY <1>3 DEF PassCount, desk, Inv, TypeOK, ReqType
  <2>2. lapse' \in {"none", "race", "deletion"}
    BY <1>3 DEF PassCount, Inv, TypeOK
  <2>3. /\ req'[r].pc = "counted" /\ req'[r].op = req[r].op
        /\ req'[r].target = req[r].target
    BY <2>1 DEF Inv, TypeOK
  <2>4. TypeOK'
    BY <2>1, <2>2 DEF Inv, TypeOK, ReqType
  <2>5. Sound(r)'
    BY <2>1, <2>3 DEF Inv, RequestOK, Sound
  <2>6. ASSUME NEW s \in Requests, s # r PROVE Sound(s)'
    BY <2>1, <2>6 DEF Inv, RequestOK, Sound
  <2> QED BY <2>4, <2>5, <2>6 DEF Inv, RequestOK
<1>4. ASSUME NEW r \in Requests, Abandon(r) PROVE Inv'
  BY <1>4, UnlockType, FinishInv DEF Abandon, desk, Inv, TypeOK, MemberType
<1>5. ASSUME NEW r \in Requests, CommitChange(r) PROVE Inv'
  <2>1. /\ req[r].pc = "counted" /\ Unlock(r) /\ Finish(r) /\ UNCHANGED <<held_by, lapse>>
        /\ member' = [member EXCEPT ![req[r].target] = Changed(@, req[r].op)]
    BY <1>5 DEF CommitChange
  <2>2. Changed(member[req[r].target], req[r].op) \in MemberType
    BY <2>1, ChangedType DEF Inv, TypeOK, RequestOK, Sound, MemberType
  <2>3. member' \in [Members -> MemberType]
    BY <2>1, <2>2 DEF Inv, TypeOK, MemberType
  <2>4. assignee' \in Actors \cup {None}
    BY <1>5 DEF CommitChange, Inv, TypeOK
  <2> QED BY <2>1, <2>3, <2>4, UnlockType, FinishInv DEF Inv, TypeOK
<1>6. ASSUME NEW r \in Requests, NEW caller \in Actors, Claim(r, caller) PROVE Inv'
  <2>1. CASE Unheld
    BY <1>6, <2>1 DEF Claim, Inv, TypeOK, RequestOK, Sound
  <2>2. CASE ~Unheld
    <3> DEFINE what == [Idle EXCEPT !.pc = "held", !.caller = caller,
                                    !.may = MayAssign(caller)]
    <3>1. MayAssign(caller) \in BOOLEAN
      BY DEF MayAssign
    <3>2. what \in ReqType /\ what.pc = "held" /\ what.caller = caller
      BY <3>1 DEF Idle, ReqType
    <3> QED BY <1>6, <2>2, <3>2, StartInv DEF Claim
  <2> QED BY <2>1, <2>2
<1>7. ASSUME NEW r \in Requests, ForceClaim(r) PROVE Inv'
  <2>1. held_by' \in Actors \cup {None}
    BY <1>7 DEF ForceClaim, Inv, TypeOK, RequestOK, Sound
  <2> QED BY <1>7, <2>1, FinishInv DEF ForceClaim, Inv, TypeOK, MemberType
<1>8. ASSUME NEW r \in Requests, NEW caller \in Actors, ReadHold(r, caller) PROVE Inv'
  <2> DEFINE what == [Idle EXCEPT !.pc = "release", !.caller = caller,
                                  !.may = IsAdminSession(caller), !.seen = held_by]
  <2>1. IsAdminSession(caller) \in BOOLEAN /\ held_by \in Actors \cup {None}
    BY DEF IsAdminSession, Inv, TypeOK
  <2>2. /\ what \in ReqType /\ what.pc = "release" /\ what.caller = caller
        /\ what.may = IsAdminSession(caller) /\ what.seen = held_by
    BY <2>1 DEF Idle, ReqType
  <2> QED BY <1>8, <2>2, StartInv DEF ReadHold, desk
<1>9. ASSUME NEW r \in Requests, Release(r) PROVE Inv'
  <2>1. held_by' \in Actors \cup {None}
    BY <1>9 DEF Release, Inv, TypeOK
  <2> QED BY <1>9, <2>1, FinishInv DEF Release, Inv, TypeOK, MemberType
<1>10. ASSUME NEW r \in Requests, NEW caller \in Actors, NEW to \in Actors,
              NEW op \in AssignOps, AskAssign(r, caller, to, op)
       PROVE  Inv'
  <2> DEFINE what == [Idle EXCEPT !.pc = "assign", !.op = op, !.target = to,
                                  !.may = TRUE]
  <2>1. what \in ReqType /\ what.pc = "assign" /\ what.target = to /\ what.may
    BY DEF Idle, ReqType
  <2> QED BY <1>10, <2>1, StartInv DEF AskAssign, desk
<1>11. ASSUME NEW r \in Requests, Assign(r) PROVE Inv'
  <2>1. assignee' \in Actors \cup {None} /\ held_by' \in Actors \cup {None}
    BY <1>11 DEF Assign, Inv, TypeOK, RequestOK, Sound
  <2> QED BY <1>11, <2>1, FinishInv DEF Assign, Inv, TypeOK, MemberType
<1>12. ASSUME NEW m \in Members, DeleteAccount(m) PROVE Inv'
  <2>1. member' \in [Members -> MemberType] /\ lapse' \in {"none", "race", "deletion"}
    <3>1. member' = [member EXCEPT ![m].active = FALSE]
      BY <1>12 DEF DeleteAccount
    <3>2. member' \in [Members -> MemberType]
      BY <3>1 DEF Inv, TypeOK, MemberType
    <3>3. lapse' \in {"none", "race", "deletion"}
      BY <1>12 DEF DeleteAccount, Inv, TypeOK
    <3> QED BY <3>2, <3>3
  <2> QED BY <1>12, <2>1 DEF DeleteAccount, desk, Inv, TypeOK, RequestOK, Sound, MemberType
<1>13. CASE UNCHANGED vars
  BY <1>13 DEF vars, Inv, TypeOK, RequestOK, Sound
<1> QED BY <1>1, <1>2, <1>3, <1>4, <1>5, <1>6, <1>7, <1>8, <1>9, <1>10, <1>11, <1>12,
           <1>13 DEF Next, Proceed

\* Every variable stays in its domain, for any team and any requests.
THEOREM TypeCorrect == Spec => []TypeOK
<1>1. Spec => []Inv
  BY InitInv, NextInv, PTL DEF Spec
<1>2. Inv => TypeOK
  BY DEF Inv
<1> QED BY <1>1, <1>2, PTL

-----------------------------------------------------------------------------
\* A hold ends, or passes on, by right: no step of one request ends the hold that
\* another request has made since the first one looked (Release, Claim, ForceClaim).
THEOREM HoldsEndByRight == Spec => HoldEndsByRight
<1> DEFINE ByRight ==
      held_by # None /\ held_by' # held_by =>
          \E r \in Requests :
              IF held_by' = None
              THEN /\ req[r].pc = "release" /\ req[r].seen = held_by
                   /\ req[r].caller = held_by \/ req[r].may
              ELSE req[r].pc \in {"held", "assign"} /\ req[r].may
<1>1. ASSUME Inv, [Next]_vars PROVE ByRight
  <2> SUFFICES ASSUME held_by # None, held_by' # held_by
               PROVE  \E r \in Requests :
                        IF held_by' = None
                        THEN /\ req[r].pc = "release" /\ req[r].seen = held_by
                             /\ req[r].caller = held_by \/ req[r].may
                        ELSE req[r].pc \in {"held", "assign"} /\ req[r].may
    OBVIOUS
  <2>1. PICK r \in Requests : ForceClaim(r) \/ Release(r) \/ Assign(r)
    BY <1>1 DEF Next, vars, desk, AskChange, LockTarget, Proceed, PassCount, Abandon,
                CommitChange, Claim, Unheld, ReadHold, AskAssign, DeleteAccount
  <2>2. Sound(r)
    BY <1>1 DEF Inv, RequestOK
  <2>3. CASE ForceClaim(r)
    BY <2>2, <2>3, TeamConstants DEF ForceClaim, Sound, Actors
  <2>4. CASE Release(r)
    BY <2>2, <2>4 DEF Release, StillHeldAsSeen, Sound
  <2>5. CASE Assign(r)
    BY <2>2, <2>5, TeamConstants DEF Assign, Sound, Actors
  <2> QED BY <2>1, <2>3, <2>4, <2>5
<1>2. Spec => []Inv
  BY InitInv, NextInv, PTL DEF Spec
<1>3. Inv /\ [Next]_vars => [ByRight]_vars
  BY <1>1
<1> QED BY <1>2, <1>3, PTL DEF Spec, HoldEndsByRight

-----------------------------------------------------------------------------
\* While nobody has got round the count: a transaction past its count leaves an
\* admin, and it is the only one that takes one away.
SpareOK ==
    lapse = "none" =>
        /\ Admins # {}
        /\ \A r \in Requests : Removing(r) => \E a \in Admins : a # req[r].target
        /\ \A r, s \in Requests : Removing(r) /\ Removing(s) => r = s

\* Of two admins one is not the target.
LEMMA AnotherAdmin ==
  ASSUME SpareAdmin, NEW m \in Members PROVE \E a \in Admins : a # m
<1> SUFFICES ASSUME \A a \in Admins : a = m PROVE FALSE
  OBVIOUS
<1>1. Admins \subseteq {m}
  OBVIOUS
<1>2. IsFiniteSet({m}) /\ Cardinality({m}) = 1
  BY FS_Singleton
<1>3. Cardinality(Admins) <= 1
  BY <1>1, <1>2, FS_Subset
<1>4. Cardinality(Admins) \in Nat
  BY <1>1, <1>2, FS_Subset, FS_CardinalityType
<1> QED BY <1>3, <1>4 DEF SpareAdmin

\* A step that changes no member and brings no request past its count.
LEMMA QuietStep ==
  ASSUME SpareOK, member' = member, lapse' = lapse,
         \A r \in Requests : req'[r].pc = "counted" => req'[r] = req[r]
  PROVE  SpareOK'
<1>1. Admins' = Admins /\ \A m \in Members : IsAdmin(m)' <=> IsAdmin(m)
  BY DEF Admins, IsAdmin
<1>2. \A r \in Requests : Removing(r)' => Removing(r) /\ req'[r] = req[r]
  BY <1>1 DEF Removing, LosesAdmin, IsAdmin
<1> QED BY <1>1, <1>2 DEF SpareOK

LEMMA PassCountSpare ==
  ASSUME Inv, SpareOK, NEW r \in Requests, PassCount(r) PROVE SpareOK'
<1>1. /\ req[r].pc = "locked" /\ member' = member /\ Sound(r)
      /\ LosesAdmin(r) => SpareAdmin
      /\ lapse' = IF LosesAdmin(r) /\ \E s \in Requests : Removing(s)
                  THEN "race" ELSE lapse
  BY DEF PassCount, Inv, RequestOK
<1>2. /\ req'[r].pc = "counted" /\ req'[r].op = req[r].op
      /\ req'[r].target = req[r].target
      /\ \A s \in Requests : s # r => req'[s] = req[s]
  BY DEF PassCount, Inv, TypeOK
<1>3. Admins' = Admins /\ \A s \in Requests : s # r => (Removing(s)' <=> Removing(s))
  BY <1>1, <1>2 DEF Admins, IsAdmin, Removing, LosesAdmin
<1>4. Removing(r)' => LosesAdmin(r)
  BY <1>1, <1>2 DEF Removing, LosesAdmin, IsAdmin
<1>5. LosesAdmin(r) => \E a \in Admins : a # req[r].target
  BY <1>1, AnotherAdmin DEF Sound
<1> SUFFICES ASSUME lapse' = "none" PROVE SpareOK'
  BY DEF SpareOK
<1>6. lapse = "none" /\ (LosesAdmin(r) => \A s \in Requests : ~Removing(s))
  BY <1>1
<1> QED BY <1>2, <1>3, <1>4, <1>5, <1>6 DEF SpareOK

LEMMA CommitChangeSpare ==
  ASSUME Inv, SpareOK, NEW r \in Requests, CommitChange(r) PROVE SpareOK'
<1> DEFINE t == req[r].target
<1>1. /\ req[r].pc = "counted" /\ lapse' = lapse
      /\ member' = [member EXCEPT ![t] = Changed(@, req[r].op)]
      /\ t \in Members /\ req[r].op \in TeamOps /\ rowlock[t] = r
  BY DEF CommitChange, Inv, RequestOK, Sound
<1>2. /\ \A m \in Members : m # t => member'[m] = member[m]
      /\ member'[t] = Changed(member[t], req[r].op)
  BY <1>1 DEF Inv, TypeOK
<1>3. /\ req'[r].pc = "idle"
      /\ \A s \in Requests : s # r => req'[s] = req[s]
  BY DEF CommitChange, Finish, Idle, Inv, TypeOK
<1>4. ASSUME NEW s \in Requests, Removing(s)'
      PROVE  Removing(s) /\ s # r /\ req'[s] = req[s] /\ req[s].target # t
  <2>1. s # r /\ req[s].pc = "counted" /\ req'[s] = req[s]
    BY <1>3, <1>4 DEF Removing
  <2>2. req[s].target \in Members /\ rowlock[req[s].target] = s
    BY <2>1 DEF Inv, RequestOK, Sound
  <2>3. req[s].target # t
    BY <1>1, <2>1, <2>2
  <2> QED BY <1>2, <1>4, <2>1, <2>2, <2>3 DEF Removing, LosesAdmin, IsAdmin
<1>5. \A a \in Admins : a # t => a \in Admins'
  BY <1>2 DEF Admins, IsAdmin
<1>6. ~LosesAdmin(r) /\ t \in Admins => t \in Admins'
  BY <1>1, <1>2 DEF Admins, IsAdmin, LosesAdmin, Changed, TeamOps, Inv, TypeOK
<1> SUFFICES ASSUME lapse = "none" PROVE SpareOK'
  BY <1>1 DEF SpareOK
<1>7. CASE LosesAdmin(r)
  <2>1. Removing(r)
    BY <1>1, <1>7 DEF Removing
  <2>2. PICK a \in Admins : a # t
    BY <2>1 DEF SpareOK
  <2>3. \A s \in Requests : ~Removing(s)'
    BY <1>4, <2>1 DEF SpareOK
  <2> QED BY <1>5, <2>2, <2>3 DEF SpareOK
<1>8. CASE ~LosesAdmin(r)
  <2>1. Admins \subseteq Admins'
    BY <1>5, <1>6, <1>8
  <2> QED BY <1>4, <2>1 DEF SpareOK
<1> QED BY <1>7, <1>8

LEMMA DeleteAccountSpare ==
  ASSUME Inv, SpareOK, NEW m \in Members, DeleteAccount(m) PROVE SpareOK'
<1>1. /\ member' = [member EXCEPT ![m].active = FALSE] /\ req' = req
      /\ lapse' = IF IsAdmin(m) THEN "deletion" ELSE lapse
  BY DEF DeleteAccount
<1> SUFFICES ASSUME ~IsAdmin(m) PROVE SpareOK'
  BY <1>1 DEF SpareOK
<1>2. \A a \in Members : IsAdmin(a)' <=> IsAdmin(a)
  BY <1>1 DEF IsAdmin, Inv, TypeOK
<1>3. Admins' = Admins
  BY <1>2 DEF Admins
<1>4. \A r \in Requests : Removing(r)' => Removing(r)
  <2> SUFFICES ASSUME NEW r \in Requests, Removing(r)' PROVE Removing(r)
    OBVIOUS
  <2>1. req[r].pc = "counted" /\ req[r].target \in Members
    BY <1>1 DEF Removing, Inv, RequestOK, Sound
  <2> QED BY <1>1, <1>2, <2>1 DEF Removing, LosesAdmin
<1> QED BY <1>1, <1>3, <1>4 DEF SpareOK

LEMMA SpareStep == Inv /\ SpareOK /\ [Next]_vars => SpareOK'
<1> SUFFICES ASSUME Inv, SpareOK, [Next]_vars PROVE SpareOK'
  OBVIOUS
<1>1. ASSUME NEW r \in Requests, NEW what, Start(r, what), what.pc # "counted",
             member' = member, lapse' = lapse
      PROVE  SpareOK'
  BY <1>1, QuietStep DEF Start, Inv, TypeOK
<1>2. ASSUME NEW r \in Requests, Finish(r), member' = member, lapse' = lapse
      PROVE  SpareOK'
  BY <1>2, QuietStep DEF Finish, Idle, Inv, TypeOK
<1>3. ASSUME NEW r \in Requests, NEW caller \in Members, NEW target \in Members,
             NEW op \in TeamOps, AskChange(r, caller, target, op)
      PROVE  SpareOK'
  BY <1>1, <1>3 DEF AskChange, Idle
<1>4. ASSUME NEW r \in Requests, LockTarget(r) PROVE SpareOK'
  BY <1>4, QuietStep DEF LockTarget, Inv, TypeOK
<1>5. ASSUME NEW r \in Requests, NEW caller \in Actors, Claim(r, caller) PROVE SpareOK'
  <2>1. CASE Unheld
    BY <1>5, <2>1, QuietStep DEF Claim
  <2>2. CASE ~Unheld
    BY <1>1, <1>5, <2>2 DEF Claim, Idle
  <2> QED BY <2>1, <2>2
<1>6. ASSUME NEW r \in Requests, NEW caller \in Actors, ReadHold(r, caller)
      PROVE  SpareOK'
  BY <1>1, <1>6 DEF ReadHold, Idle
<1>7. ASSUME NEW r \in Requests, NEW caller \in Actors, NEW to \in Actors,
             NEW op \in AssignOps, AskAssign(r, caller, to, op)
      PROVE  SpareOK'
  BY <1>1, <1>7 DEF AskAssign, Idle
<1>8. ASSUME NEW r \in Requests, Abandon(r) \/ ForceClaim(r) \/ Release(r) \/ Assign(r)
      PROVE  SpareOK'
  BY <1>2, <1>8 DEF Abandon, ForceClaim, Release, Assign
<1>9. CASE UNCHANGED vars
  BY <1>9, QuietStep DEF vars
<1> QED BY <1>3, <1>4, <1>5, <1>6, <1>7, <1>8, <1>9, PassCountSpare, CommitChangeSpare,
           DeleteAccountSpare DEF Next, Proceed

\* A team keeps an admin as long as no two transactions are past their counts for two
\* different admins and nobody deletes their own account: the row lock orders the
\* changes to one member, and a promotion can only help (SpareAdmin, LockTarget).
THEOREM TeamKeepsAdmin == Spec => []AdminRemains
<1>1. Init => SpareOK
  BY TeamConstants DEF Init, SpareOK, Admins, IsAdmin, Removing, Idle
<1>2. SpareOK => AdminRemains
  BY DEF SpareOK, AdminRemains
<1> QED BY <1>1, <1>2, InitInv, NextInv, SpareStep, PTL DEF Spec

-----------------------------------------------------------------------------
\* A row is locked only by a request that is at work on it, and such a request never
\* waits: it holds the one row it needs.
RowsMove ==
    \A m \in Members : rowlock[m] # None =>
        /\ req[rowlock[m]].pc \in {"locked", "counted"}
        /\ req[rowlock[m]].target = m

\* A step that locks no row and brings no request away from its row.
LEMMA RowsKept ==
  ASSUME Inv, RowsMove, UNCHANGED rowlock,
         \A r \in Requests : req[r].pc \in {"locked", "counted"} =>
             req'[r].pc \in {"locked", "counted"} /\ req'[r].target = req[r].target
  PROVE  RowsMove'
  BY DEF RowsMove, Inv, TypeOK

\* A request that starts or ends without a row.
LEMMA RowsFree ==
  ASSUME Inv, RowsMove, UNCHANGED rowlock, NEW r \in Requests,
         req[r].pc \notin {"locked", "counted"},
         \A s \in Requests : s # r => req'[s] = req[s]
  PROVE  RowsMove'
  BY RowsKept

LEMMA RowsStep == Inv /\ RowsMove /\ [Next]_vars => RowsMove'
<1> SUFFICES ASSUME Inv, RowsMove, [Next]_vars PROVE RowsMove'
  OBVIOUS
<1>1. ASSUME NEW r \in Requests, NEW what, Start(r, what), UNCHANGED rowlock PROVE RowsMove'
  <2>1. req[r].pc = "idle" /\ \A s \in Requests : s # r => req'[s] = req[s]
    BY <1>1 DEF Start, Idle, Inv, TypeOK
  <2> QED BY <1>1, <2>1, RowsFree
<1>2. ASSUME NEW r \in Requests, NEW caller \in Actors,
             \/ ReadHold(r, caller)
             \/ Claim(r, caller)
             \/ \E target \in Members, op \in TeamOps : AskChange(r, caller, target, op)
             \/ \E to \in Actors, op \in AssignOps : AskAssign(r, caller, to, op)
      PROVE  RowsMove'
  <2>1. CASE Claim(r, caller)
    BY <1>1, <2>1, RowsKept DEF Claim
  <2> QED BY <1>1, <1>2, <2>1 DEF AskChange, ReadHold, AskAssign
<1>3. ASSUME NEW r \in Requests, LockTarget(r) PROVE RowsMove'
  <2>1. /\ req[r].pc = "asked" /\ rowlock[req[r].target] = None /\ req[r].target \in Members
        /\ rowlock' = [rowlock EXCEPT ![req[r].target] = r]
    BY <1>3 DEF LockTarget, Inv, RequestOK, Sound
  <2>2. /\ req'[r].pc = "locked" /\ req'[r].target = req[r].target
        /\ \A s \in Requests : s # r => req'[s] = req[s]
    BY <1>3 DEF LockTarget, Inv, TypeOK
  <2>3. ASSUME NEW m \in Members, rowlock'[m] # None
        PROVE  req'[rowlock'[m]].pc \in {"locked", "counted"} /\ req'[rowlock'[m]].target = m
    <3>1. CASE m = req[r].target
      <4>1. rowlock'[m] = r
        BY <2>1, <3>1 DEF Inv, TypeOK
      <4> QED BY <2>2, <3>1, <4>1
    <3>2. CASE m # req[r].target
      <4>1. rowlock'[m] = rowlock[m] /\ rowlock[m] \in Requests
        BY <2>1, <2>3, <3>2 DEF Inv, TypeOK
      <4>2. /\ req[rowlock[m]].pc \in {"locked", "counted"}
            /\ req[rowlock[m]].target = m
        BY <2>3, <4>1 DEF RowsMove
      <4>3. rowlock[m] # r
        BY <2>1, <4>2
      <4> QED BY <2>2, <4>1, <4>2, <4>3
    <3> QED BY <3>1, <3>2
  <2> QED BY <2>3 DEF RowsMove
<1>4. ASSUME NEW r \in Requests, PassCount(r) PROVE RowsMove'
  <2>1. /\ req'[r].pc = "counted" /\ req'[r].target = req[r].target
        /\ \A s \in Requests : s # r => req'[s] = req[s]
        /\ UNCHANGED rowlock
    BY <1>4 DEF PassCount, Inv, TypeOK
  <2> QED BY <2>1, RowsKept
<1>5. ASSUME NEW r \in Requests, Abandon(r) \/ CommitChange(r) PROVE RowsMove'
  <2>1. /\ req[r].pc \in {"locked", "counted"} /\ req[r].target \in Members
        /\ rowlock' = [rowlock EXCEPT ![req[r].target] = None]
        /\ \A s \in Requests : s # r => req'[s] = req[s]
    BY <1>5 DEF Abandon, CommitChange, Unlock, Finish, Inv, TypeOK, RequestOK, Sound
  <2>2. ASSUME NEW m \in Members, rowlock'[m] # None
        PROVE  req'[rowlock'[m]].pc \in {"locked", "counted"} /\ req'[rowlock'[m]].target = m
    <3>1. m # req[r].target /\ rowlock'[m] = rowlock[m] /\ rowlock[m] \in Requests
      BY <2>1, <2>2 DEF Inv, TypeOK
    <3>2. /\ req[rowlock[m]].pc \in {"locked", "counted"}
          /\ req[rowlock[m]].target = m
      BY <2>2, <3>1 DEF RowsMove
    <3> QED BY <2>1, <3>1, <3>2
  <2> QED BY <2>2 DEF RowsMove
<1>6. ASSUME NEW r \in Requests, ForceClaim(r) \/ Release(r) \/ Assign(r) PROVE RowsMove'
  <2>1. /\ req[r].pc \notin {"locked", "counted"} /\ UNCHANGED rowlock
        /\ \A s \in Requests : s # r => req'[s] = req[s]
    BY <1>6 DEF ForceClaim, Release, Assign, Finish, Inv, TypeOK
  <2> QED BY <2>1, RowsFree
<1>7. CASE UNCHANGED vars \/ \E m \in Members : DeleteAccount(m)
  BY <1>7, RowsKept DEF vars, DeleteAccount
<1> QED BY <1>2, <1>3, <1>4, <1>5, <1>6, <1>7 DEF Next, Proceed, Actors

\* Changes to one member exclude each other, no request holds two rows, and a request
\* that waits for a row waits for one that has it now and gives it back as it ends, never
\* for a change that was given up (SELECT ... FOR UPDATE, COMMIT, ROLLBACK).
THEOREM RowsGivenBack == Spec => []RowsMove
<1>1. Init => RowsMove
  BY DEF Init, RowsMove
<1> QED BY <1>1, InitInv, NextInv, RowsStep, PTL DEF Spec

=============================================================================
