------------------------- MODULE ReviewTokensProofs -------------------------
(***************************************************************************)
(* Proofs about ReviewTokens for every value of its constants.  They build *)
(* on the type invariant of the lifecycle, whose actions are steps here.   *)
(***************************************************************************)
EXTENDS ReviewTokens, ReviewLifecycleProofs

Holding(r) == visit[r].step \in {"consumed", "undo"}

\* A deleted review is never created again and its links are gone with it, so that
\* who holds one of them can be forgotten.
GoneForGood ==
    /\ creator = "idle" => /\ review.status = "absent"
                           /\ \A r \in Recipients : ~Holding(r)
    /\ review.status = "absent" => review.claimed_by = None /\ tokens = <<>>

\* A request holds a link that is marked spent, and holds it alone.
HeldLinks ==
    review.status # "absent" =>
        /\ \A r \in Recipients :
             Holding(r) => visit[r].link \in DOMAIN tokens /\ tokens[visit[r].link].used
        /\ \A r, q \in Recipients :
             Holding(r) /\ Holding(q) /\ r # q => visit[r].link # visit[q].link

VisitType == [step : {"none", "validated", "consumed", "undo"}, link : 0..MaxTokens]

LinksOK ==
    /\ tokens \in Seq(Link) /\ Len(tokens) <= MaxTokens
    /\ visit \in [Recipients -> VisitType]
    /\ \A i \in DOMAIN tokens : ~(tokens[i].revoked /\ tokens[i].used)

TokensInv == TypeInv /\ LoadedOpen /\ LinksOK /\ GoneForGood /\ HeldLinks

LEMMA TokensInvType ==
  ASSUME TokensInv, written \in [1..MaxTokens -> Nat], thrown \in [1..MaxTokens -> Nat]
  PROVE  TokensTypeOK
<1>1. \A r \in Recipients : Holding(r) /\ tokens # <<>> => tokens[visit[r].link].used
  BY DEF TokensInv, HeldLinks, GoneForGood
<1> QED BY <1>1 DEF TokensInv, TypeInv, LinksOK, VisitType, Holding, TokensTypeOK

-----------------------------------------------------------------------------
(***************************************************************************)
(* Steps of the lifecycle.  RowStays is what they leave of the row.        *)
(***************************************************************************)
RowStays ==
    /\ creator' = creator
    /\ review.status = "absent" => review'.status = "absent" /\ review'.claimed_by = None
    /\ review.status # "absent" => review'.status # "absent"

LEMMA RequestStepStays ==
  ASSUME TypeInv, LoadedOpen, GoneForGood, NEW r \in Requests, RequestStep(r)
  PROVE  RowStays /\ LoadedOpen'
<1>0. review \in ReviewType /\ req \in [Requests -> RequestType]
  BY DEF TypeInv, TypeOK
<1>1. CASE OpenPage(r) \/ LeavePage(r) \/ CommitConflict(r) \/ Announce(r) \/ RequestCrash(r)
  <2>1. UNCHANGED <<review, creator>>
    BY <1>1 DEF OpenPage, LeavePage, CommitConflict, Announce, RequestCrash
  <2>2. req'[r].pc # "loaded" /\ \A x \in Requests : x # r => req'[x] = req[x]
    <3>1. CASE OpenPage(r)
      <4> DEFINE page == [IdleRequest EXCEPT !.pc = "open", !.version = review.current_version]
      <4>1. req' = [req EXCEPT ![r] = page]
        BY <3>1 DEF OpenPage
      <4>2. page.pc = "open"
        BY DEF IdleRequest
      <4> HIDE DEF page
      <4> QED BY <1>0, <4>1, <4>2
    <3>2. CASE ~OpenPage(r)
      BY <1>0, <1>1, <3>2 DEF LeavePage, CommitConflict, Announce, RequestCrash, IdleRequest
    <3> QED BY <3>1, <3>2
  <2> QED BY <2>1, <2>2 DEF RowStays, GoneForGood, LoadedOpen
<1>2. ASSUME NEW a \in OfferedActions, LoadReview(r, a) PROVE RowStays /\ LoadedOpen'
  <2>1. review.status \in Open
    BY <1>0, <1>2, EnabledWhenOpen DEF LoadReview
  <2>2. UNCHANGED <<review, creator>> /\ req'[r].status = review.status
    BY <1>0, <1>2 DEF LoadReview
  <2>3. \A x \in Requests : x # r => req'[x] = req[x]
    BY <1>0, <1>2 DEF LoadReview
  <2> QED BY <2>1, <2>2, <2>3 DEF RowStays, GoneForGood, LoadedOpen
<1>3. CASE CommitAction(r)
  <2> DEFINE q == req[r]
  <2>1. /\ review.status # "absent" /\ review' = StateUpdate(review, q) /\ creator' = creator
        /\ q.status # "absent"
    BY <1>3 DEF CommitAction, VersionStillCurrent, Exists, LoadedOpen, Open
  <2>2. \A x \in Requests : req'[x].pc = "loaded" => req'[x] = req[x]
    <3>1. \A x \in Requests : x # r => req'[x] = req[x]
      BY <1>0, <1>3 DEF CommitAction
    <3>2. req'[r].pc # "loaded"
      BY <1>0, <1>3 DEF CommitAction, IdleRequest
    <3> QED BY <3>1, <3>2
  <2> HIDE DEF q
  <2>3. review'.status # "absent"
    BY <1>0, <2>1 DEF StateUpdate, ReviewType
  <2> QED BY <2>1, <2>2, <2>3 DEF RowStays, LoadedOpen
<1>4. ASSUME NEW d \in {"vetoed", "confirmed"}, ResolveMonitoring(r, d)
      PROVE  RowStays /\ LoadedOpen'
  <2>1. review.status # "absent" /\ review'.status # "absent" /\ creator' = creator
    BY <1>0, <1>4 DEF ResolveMonitoring, ReviewType
  <2>2. \A x \in Requests : req'[x].pc = "loaded" => req'[x] = req[x]
    BY <1>0, <1>4 DEF ResolveMonitoring, IdleRequest
  <2> QED BY <2>1, <2>2 DEF RowStays, LoadedOpen
<1> QED BY <1>1, <1>2, <1>3, <1>4 DEF RequestStep

LEMMA ProcessStepStays ==
  ASSUME TypeInv, GoneForGood, NEW w \in Workers, ProcessStep(w) PROVE RowStays
<1>0. review \in ReviewType /\ (review.claimed_by = w => review.status # "absent")
  BY ConstantsAssumption DEF TypeInv, TypeOK, GoneForGood
<1>1. creator' = creator
  BY DEF ProcessStep, ProcessOne, CloseMaxIterations, ConfirmOne, PromoteOne, Finish
<1>2. CASE review' = review
  BY <1>1, <1>2 DEF RowStays, GoneForGood
<1>3. CASE ProcessOne(w) /\ ProcessGuard(w)
  <2>1. CASE worker[w].action = "expire"
    BY <1>0, <1>1, <1>3, <2>1 DEF ProcessOne, ProcessGuard, Finish, Unclaimed, ReviewType, RowStays
  <2>2. CASE worker[w].action # "expire"
    BY <1>0, <1>1, <1>3, <2>2 DEF ProcessOne, ProcessGuard, Finish, Unclaimed, ReviewType, RowStays
  <2> QED BY <2>1, <2>2
<1>4. CASE CloseMaxIterations(w) /\ CloseGuard
  BY <1>0, <1>1, <1>4
  DEF CloseMaxIterations, CloseGuard, Iterating, Finish, Unclaimed, ReviewType, RowStays
<1>5. CASE ConfirmOne(w) /\ ConfirmGuard(w)
  BY <1>0, <1>1, <1>5 DEF ConfirmOne, ConfirmGuard, Finish, Unclaimed, ReviewType, RowStays
<1>6. CASE PromoteOne(w) /\ PromoteGuard(w)
  BY <1>0, <1>1, <1>6 DEF PromoteOne, PromoteGuard, Finish, Unclaimed, ReviewType, RowStays
<1> QED BY <1>2, <1>3, <1>4, <1>5, <1>6
    DEF ProcessStep, ProcessOne, CloseMaxIterations, ConfirmOne, PromoteOne, Finish

LEMMA WorkerStepStays ==
  ASSUME TypeInv, LoadedOpen, GoneForGood, NEW w \in Workers, WorkerStep(w)
  PROVE  RowStays /\ LoadedOpen'
<1>0. review \in ReviewType
  BY DEF TypeInv, TypeOK
<1>1. ASSUME ~ProcessStep(w) PROVE RowStays
  BY <1>0, <1>1
  DEF WorkerStep, ClaimExpired, ClaimMaxIterations, ClaimMonitoring, ClaimLadder, Claim,
      WorkerAnnounce, WorkerFails, WorkerCrash, Unclaimed, Iterating, ReviewType, RowStays,
      GoneForGood
<1>2. req' = req
  BY DEF WorkerStep, ClaimExpired, ClaimMaxIterations, ClaimMonitoring, ClaimLadder, Claim,
      ProcessStep, ProcessOne, CloseMaxIterations, ConfirmOne, PromoteOne, Finish,
      WorkerAnnounce, WorkerFails, WorkerCrash
<1> QED BY <1>1, <1>2, ProcessStepStays DEF LoadedOpen

LEMMA TimeStepStays ==
  ASSUME TypeInv, LoadedOpen, GoneForGood, TimeStep PROVE RowStays /\ LoadedOpen'
<1>0. review \in ReviewType
  BY DEF TypeInv, TypeOK
<1>1. RowStays
  BY <1>0 DEF TimeStep, DeadlinePasses, SnoozeElapses, ClaimAges, ReviewType, RowStays, GoneForGood
<1>2. req' = req
  BY DEF TimeStep, DeadlinePasses, SnoozeElapses, ClaimAges
<1> QED BY <1>1, <1>2 DEF LoadedOpen

\* The links go with the review and only with it.
LEMMA StepBesideLinks ==
  ASSUME TokensInv, TypeInv', LoadedOpen', RowStays, Cascade, UNCHANGED visit
  PROVE  TokensInv'
<1>1. tokens' = tokens
  BY DEF Cascade, RowStays, TokensInv, GoneForGood
<1>2. LinksOK'
  BY <1>1 DEF TokensInv, LinksOK
<1>3. GoneForGood'
  BY <1>1 DEF TokensInv, GoneForGood, RowStays, Holding
<1>4. HeldLinks'
  BY <1>1 DEF TokensInv, HeldLinks, RowStays, Holding
<1> QED BY <1>2, <1>3, <1>4 DEF TokensInv

LEMMA CreateStepLinks ==
  ASSUME TokensInv, CreateStep, Cascade, UNCHANGED visit PROVE TokensInv'
<1>0. TypeInv /\ LoadedOpen /\ GoneForGood /\ review \in ReviewType
  BY DEF TokensInv, TypeInv, TypeOK
<1>1. TypeInv'
  BY <1>0, CreateStepType
<1>2. LoadedOpen'
  BY <1>0 DEF LoadedOpen, CreateStep, Create, AutoApprove, CreatorCrash
<1>3. CASE AutoApprove \/ CreatorCrash
  <2>1. creator # "idle" /\ creator' # "idle" /\ review'.claimed_by = review.claimed_by
    BY <1>0, <1>3 DEF AutoApprove, CreatorCrash, ReviewType
  <2>2. review'.status = "absent" <=> review.status = "absent"
    BY <1>0, <1>3 DEF AutoApprove, CreatorCrash, Exists, ReviewType
  <2>3. tokens' = tokens
    BY <1>0, <2>2 DEF Cascade, GoneForGood
  <2>4. LinksOK' /\ HeldLinks' /\ GoneForGood'
    BY <1>0, <2>1, <2>2, <2>3 DEF TokensInv, LinksOK, HeldLinks, GoneForGood, Holding
  <2> QED BY <1>1, <1>2, <2>4 DEF TokensInv
<1>4. ASSUME NEW oversight \in {"blocking", "monitoring"}, NEW expires \in BOOLEAN,
             NEW auto \in BOOLEAN, NEW action \in Timeouts,
             Create(oversight, expires, action, auto)
      PROVE  TokensInv'
  <2>1. creator = "idle" /\ creator' # "idle" /\ review'.status # "absent"
    BY <1>4 DEF Create, Absent
  <2>2. tokens' = tokens
    BY <2>1 DEF Cascade
  <2>3. LinksOK' /\ HeldLinks' /\ GoneForGood'
    BY <1>0, <2>1, <2>2 DEF TokensInv, LinksOK, HeldLinks, GoneForGood, Holding
  <2> QED BY <1>1, <1>2, <2>3 DEF TokensInv
<1> QED BY <1>3, <1>4 DEF CreateStep

LEMMA RowStepLinks ==
  ASSUME TokensInv, RowStep, Cascade, UNCHANGED visit PROVE TokensInv'
<1>0. TypeInv /\ LoadedOpen /\ GoneForGood /\ review \in ReviewType
  BY DEF TokensInv, TypeInv, TypeOK
<1>1. TypeInv'
  BY <1>0, RowStepType
<1>2. UNCHANGED <<req, creator>> /\ LoadedOpen'
  BY <1>0 DEF LoadedOpen, RowStep, UpdateVersion, Archive, Unarchive, Delete, Snooze, RevertChanges
<1>3. CASE Delete
  <2>1. /\ review'.status = "absent" /\ review'.claimed_by = None /\ review.status # "absent"
        /\ tokens' = <<>>
    BY <1>3 DEF Delete, Absent, Cascade
  <2>2. creator # "idle"
    BY <1>0, <2>1 DEF GoneForGood
  <2>3. LinksOK' /\ HeldLinks' /\ GoneForGood'
    BY <1>2, <2>1, <2>2, TokenConstants DEF TokensInv, LinksOK, HeldLinks, GoneForGood
  <2> QED BY <1>1, <1>2, <2>3 DEF TokensInv
<1>4. CASE ~Delete
  <2>1. review.status # "absent" /\ review'.status # "absent"
    BY <1>0, <1>4 DEF RowStep, UpdateVersion, Archive, Unarchive, Snooze, RevertChanges,
       Iterating, ReviewType
  <2> QED BY <1>1, <1>2, <2>1, StepBesideLinks DEF RowStays
<1> QED BY <1>3, <1>4

LEMMA LifecycleStepLinks ==
  ASSUME TokensInv, LifecycleStep PROVE TokensInv'
<1>0. TypeInv /\ LoadedOpen /\ GoneForGood /\ Cascade /\ UNCHANGED visit
  BY DEF TokensInv, LifecycleStep
<1>1. ASSUME NEW r \in Requests, RequestStep(r) PROVE TokensInv'
  BY <1>0, <1>1, RequestStepType, RequestStepStays, StepBesideLinks
<1>2. ASSUME NEW w \in Workers, WorkerStep(w) PROVE TokensInv'
  BY <1>0, <1>2, WorkerStepType, WorkerStepStays, StepBesideLinks
<1>3. CASE TimeStep
  BY <1>0, <1>3, TimeStepType, TimeStepStays, StepBesideLinks
<1> QED BY <1>0, <1>1, <1>2, <1>3, CreateStepLinks, RowStepLinks DEF LifecycleStep

-----------------------------------------------------------------------------
(***************************************************************************)
(* Steps of the operator and of recipients.                                *)
(***************************************************************************)
\* What these steps may do to the links: add one, change one, spend one, and give one
\* back only where that is shown apart.
LinksWellFormed ==
    /\ tokens' \in Seq(Link) /\ Len(tokens') <= MaxTokens
    /\ \A i \in DOMAIN tokens' : ~(tokens'[i].revoked /\ tokens'[i].used)

NoneGivenBack ==
    \A i \in DOMAIN tokens : i \in DOMAIN tokens' /\ (tokens[i].used => tokens'[i].used)

LEMMA AppendLinks ==
  ASSUME NEW s \in Seq(Link), NEW link \in Link
  PROVE  /\ Append(s, link) \in Seq(Link)
         /\ Len(Append(s, link)) = Len(s) + 1
         /\ \A i \in DOMAIN Append(s, link) :
              Append(s, link)[i] = link \/ (i \in DOMAIN s /\ Append(s, link)[i] = s[i])
         /\ \A i \in DOMAIN s : i \in DOMAIN Append(s, link) /\ Append(s, link)[i] = s[i]
  OBVIOUS

LEMMA ChangeLink ==
  ASSUME NEW s \in Seq(Link), NEW i \in DOMAIN s, NEW link \in Link
  PROVE  /\ [s EXCEPT ![i] = link] \in Seq(Link)
         /\ Len([s EXCEPT ![i] = link]) = Len(s)
         /\ DOMAIN [s EXCEPT ![i] = link] = DOMAIN s
         /\ [s EXCEPT ![i] = link][i] = link
         /\ \A j \in DOMAIN s : j # i => [s EXCEPT ![i] = link][j] = s[j]
  OBVIOUS

LEMMA LinkStepShape ==
  ASSUME TokensInv, LinkStep PROVE LinksWellFormed /\ NoneGivenBack
<1>0. /\ tokens \in Seq(Link) /\ Len(tokens) <= MaxTokens /\ Len(tokens) \in Nat
      /\ \A i \in DOMAIN tokens : tokens[i] \in Link /\ ~(tokens[i].revoked /\ tokens[i].used)
  BY DEF TokensInv, LinksOK
<1>1. ASSUME NEW preview \in BOOLEAN, Generate(preview) PROVE LinksWellFormed /\ NoneGivenBack
  <2> DEFINE new == [preview |-> preview, used |-> FALSE, revoked |-> FALSE, expired |-> FALSE]
  <2>1. tokens' = Append(tokens, new) /\ Len(tokens) < MaxTokens
    BY <1>1 DEF Generate
  <2>2. new \in Link /\ ~new.used
    BY DEF Link
  <2> HIDE DEF new
  <2>3. Len(tokens') <= MaxTokens
    BY <1>0, <2>1, <2>2, AppendLinks, TokenConstants
  <2> QED BY <1>0, <2>1, <2>2, <2>3, AppendLinks DEF LinksWellFormed, NoneGivenBack
<1>2. ASSUME NEW i \in DOMAIN tokens, NEW link \in Link, tokens' = [tokens EXCEPT ![i] = link],
             ~(link.revoked /\ link.used), tokens[i].used => link.used
      PROVE  LinksWellFormed /\ NoneGivenBack
  BY <1>0, <1>2, ChangeLink DEF LinksWellFormed, NoneGivenBack
<1>3. CASE Revoke
  <2>1. PICK i \in DOMAIN tokens : ~tokens[i].used /\ tokens' = [tokens EXCEPT ![i].revoked = TRUE]
    BY <1>3 DEF Revoke, Active, Spendable
  <2> DEFINE link == [tokens[i] EXCEPT !.revoked = TRUE]
  <2>2. link \in Link /\ ~link.used
    BY <1>0, <2>1 DEF Link
  <2>3. tokens' = [tokens EXCEPT ![i] = link]
    BY <2>1
  <2> HIDE DEF link
  <2> QED BY <1>2, <2>1, <2>2, <2>3
<1>4. ASSUME NEW i \in DOMAIN tokens, LinkExpires(i) PROVE LinksWellFormed /\ NoneGivenBack
  <2> DEFINE link == [tokens[i] EXCEPT !.expired = TRUE]
  <2>1. /\ link \in Link /\ link.used = tokens[i].used /\ link.revoked = tokens[i].revoked
    BY <1>0 DEF Link
  <2>2. tokens' = [tokens EXCEPT ![i] = link]
    BY <1>4 DEF LinkExpires
  <2> HIDE DEF link
  <2> QED BY <1>0, <1>2, <2>1, <2>2
<1>5. ASSUME NEW i \in DOMAIN tokens, ConsumeAsRecipientAction(i)
      PROVE  LinksWellFormed /\ NoneGivenBack
  <2> DEFINE link == [tokens[i] EXCEPT !.used = TRUE]
  <2>1. ~tokens[i].revoked
    BY <1>5 DEF ConsumeAsRecipientAction, Active, Spendable
  <2>2. /\ link \in Link /\ link.used /\ link.revoked = tokens[i].revoked
    BY <1>0 DEF Link
  <2>3. tokens' = [tokens EXCEPT ![i] = link]
    BY <1>5 DEF ConsumeAsRecipientAction
  <2> HIDE DEF link
  <2> QED BY <1>2, <2>1, <2>2, <2>3
<1>6. CASE Reclaim
  BY <1>0, <1>6 DEF Reclaim, tokenVars, LinksWellFormed, NoneGivenBack
<1> QED BY <1>1, <1>3, <1>4, <1>5, <1>6 DEF LinkStep

LEMMA LinkStepLinks ==
  ASSUME TokensInv, LinkStep PROVE TokensInv'
<1>0. /\ TypeInv /\ LoadedOpen /\ GoneForGood /\ review \in ReviewType
      /\ tokens \in Seq(Link) /\ Len(tokens) <= MaxTokens /\ Len(tokens) \in Nat
  BY DEF TokensInv, TypeInv, TypeOK, LinksOK
<1>1. /\ UNCHANGED <<due, creator, req, worker, told, snoozes, faults, visit>>
      /\ review.status = "absent" => UNCHANGED <<review, tokens>>
      /\ review.status # "absent" => review'.status # "absent"
      /\ review' \in ReviewType
  <2>1. ASSUME NEW preview \in BOOLEAN, Generate(preview)
        PROVE  /\ UNCHANGED <<due, creator, req, worker, told, snoozes, faults, visit>>
               /\ review.status # "absent" /\ review'.status # "absent"
               /\ review' \in ReviewType
    BY <1>0, <2>1 DEF Generate, ReviewType, Status
  <2>2. CASE Revoke
    <3>1. tokens # <<>>
      BY <2>2 DEF Revoke
    <3>2. review.status # "absent"
      BY <1>0, <3>1 DEF GoneForGood
    <3> QED BY <1>0, <2>2, <3>2 DEF Revoke, ReviewType, Status
  <2>3. ASSUME NEW i \in DOMAIN tokens, LinkExpires(i)
        PROVE  UNCHANGED <<vars, visit>> /\ review.status # "absent"
    <3>1. tokens # <<>>
      OBVIOUS
    <3> QED BY <1>0, <2>3, <3>1 DEF LinkExpires, GoneForGood
  <2>4. ASSUME NEW i \in DOMAIN tokens, ConsumeAsRecipientAction(i)
        PROVE  /\ UNCHANGED <<due, creator, req, worker, told, snoozes, faults, visit>>
               /\ review.status # "absent" /\ review'.status # "absent"
               /\ review' \in ReviewType
    <3>1. /\ UNCHANGED <<due, creator, req, worker, told, snoozes, faults, visit>>
          /\ review.status # "absent"
          /\ review' = [[review EXCEPT !.status = "pending"]
                          EXCEPT !.current_version = review.current_version + 1]
      BY <1>0, <2>4 DEF ConsumeAsRecipientAction, Shared, ReviewType
    <3>2. review.current_version + 1 \in Nat
      BY <1>0 DEF ReviewType
    <3>3. \A row \in ReviewType, n \in Nat :
            /\ [row EXCEPT !.status = "pending"] \in ReviewType
            /\ [row EXCEPT !.status = "pending"].status = "pending"
            /\ [row EXCEPT !.current_version = n] \in ReviewType
            /\ [row EXCEPT !.current_version = n].status = row.status
      BY DEF ReviewType, Status
    <3> QED BY <1>0, <3>1, <3>2, <3>3
  <2>5. CASE Reclaim
    BY <1>0, <2>5 DEF Reclaim, tokenVars, ReviewType, Status
  <2> QED BY <1>0, <2>1, <2>2, <2>3, <2>4, <2>5 DEF LinkStep, vars
<1>2. TypeInv' /\ LoadedOpen'
  BY <1>0, <1>1 DEF TypeInv, TypeOK, CarriedOK, LoadedOpen
<1>3. LinksWellFormed /\ NoneGivenBack
  BY LinkStepShape
<1>4. LinksOK'
  BY <1>1, <1>3 DEF TokensInv, LinksOK, LinksWellFormed
<1>5. GoneForGood'
  BY <1>0, <1>1 DEF GoneForGood, Holding
<1>6. HeldLinks'
  BY <1>0, <1>1, <1>3 DEF TokensInv, GoneForGood, HeldLinks, Holding, NoneGivenBack
<1> QED BY <1>2, <1>4, <1>5, <1>6 DEF TokensInv

\* A step of a recipient's request that leaves the links alone and takes none.
LEMMA VisitKept ==
  ASSUME TokensInv, TypeInv', LoadedOpen', RowStays, tokens' = tokens,
         visit' \in [Recipients -> VisitType],
         \A q \in Recipients : Holding(q)' => Holding(q) /\ visit'[q].link = visit[q].link
  PROVE  TokensInv'
<1>1. LinksOK' /\ GoneForGood'
  BY DEF TokensInv, LinksOK, GoneForGood, RowStays
<1>2. HeldLinks'
  BY DEF TokensInv, HeldLinks, RowStays
<1> QED BY <1>1, <1>2 DEF TokensInv

\* The request dies or gives up: it is at rest again and the row is untouched.
LEMMA RequestDropped ==
  ASSUME TokensInv, NEW r \in Requests, req' = [req EXCEPT ![r] = IdleRequest],
         faults' = faults \/ (faults < MaxFaults /\ faults' = faults + 1),
         UNCHANGED <<review, due, creator, worker, told, snoozes>>
  PROVE  TypeInv' /\ LoadedOpen' /\ RowStays
<1>1. faults' \in 0..MaxFaults
  BY ConstantsAssumption DEF TokensInv, TypeInv, TypeOK
<1>2. TypeInv'
  BY <1>1, IdleType DEF TokensInv, TypeInv, TypeOK, CarriedOK, IdleRequest
<1>3. LoadedOpen'
  BY DEF TokensInv, TypeInv, TypeOK, LoadedOpen, IdleRequest
<1> QED BY <1>2, <1>3 DEF TokensInv, GoneForGood, RowStays

LEMMA ConsumeLinks ==
  ASSUME TokensInv, NEW r \in Recipients, Consume(r) PROVE TokensInv' /\ NoneGivenBack
<1> DEFINE i == visit[r].link
           link == [tokens[i] EXCEPT !.used = TRUE]
<1>0. /\ tokens \in Seq(Link) /\ Len(tokens) <= MaxTokens
      /\ visit \in [Recipients -> VisitType]
      /\ \A j \in DOMAIN tokens : tokens[j] \in Link /\ ~(tokens[j].revoked /\ tokens[j].used)
  BY DEF TokensInv, LinksOK
<1>1. /\ i \in DOMAIN tokens /\ ~tokens[i].used /\ ~tokens[i].revoked
      /\ visit[r].step = "validated" /\ UNCHANGED vars
      /\ tokens' = [tokens EXCEPT ![i] = link]
      /\ visit' = [visit EXCEPT ![r].step = "consumed"]
  BY DEF Consume, Consumable, Spendable
<1>2. link \in Link /\ link.used /\ ~link.revoked
  BY <1>0, <1>1 DEF Link
<1>3. /\ tokens' \in Seq(Link) /\ Len(tokens') = Len(tokens) /\ DOMAIN tokens' = DOMAIN tokens
      /\ tokens'[i] = link /\ \A j \in DOMAIN tokens : j # i => tokens'[j] = tokens[j]
  <2> HIDE DEF i, link
  <2> QED BY <1>0, <1>1, <1>2, ChangeLink
<1>4. /\ visit' \in [Recipients -> VisitType] /\ visit'[r].link = i
      /\ \A q \in Recipients : q # r => visit'[q] = visit[q]
  BY <1>0, <1>1 DEF VisitType
<1>5. review.status # "absent" /\ creator # "idle"
  <2>1. tokens # <<>>
    BY <1>1
  <2> QED BY <2>1 DEF TokensInv, GoneForGood
<1> HIDE DEF i, link
<1>6. LinksOK' /\ NoneGivenBack
  BY <1>0, <1>2, <1>3, <1>4 DEF LinksOK, NoneGivenBack
<1>7. GoneForGood'
  BY <1>1, <1>5 DEF vars, GoneForGood
<1>8. \A q \in Recipients : Holding(q)' /\ q # r =>
          /\ Holding(q) /\ visit'[q].link = visit[q].link
          /\ visit[q].link \in DOMAIN tokens /\ tokens[visit[q].link].used
  BY <1>4, <1>5 DEF TokensInv, HeldLinks, Holding
<1>9. \A q, p \in Recipients :
        q # r /\ p # r /\ q # p /\ Holding(q)' /\ Holding(p)' => visit'[q].link # visit'[p].link
  BY <1>5, <1>8 DEF TokensInv, HeldLinks
<1>10. HeldLinks'
  BY <1>1, <1>2, <1>3, <1>4, <1>8, <1>9 DEF HeldLinks
<1>11. TypeInv' /\ LoadedOpen'
  BY <1>1 DEF vars, TokensInv, TypeInv, TypeOK, CarriedOK, LoadedOpen
<1> QED BY <1>6, <1>7, <1>10, <1>11 DEF TokensInv

\* The link is given back by the only request that holds it.
LEMMA UndoLinks ==
  ASSUME TokensInv, NEW r \in Recipients, UndoConsume(r) PROVE TokensInv'
<1> DEFINE i == visit[r].link
           link == [tokens[i] EXCEPT !.used = FALSE]
<1>0. /\ tokens \in Seq(Link) /\ Len(tokens) <= MaxTokens
      /\ visit \in [Recipients -> VisitType]
      /\ \A j \in DOMAIN tokens : tokens[j] \in Link /\ ~(tokens[j].revoked /\ tokens[j].used)
  BY DEF TokensInv, LinksOK
<1>1. /\ visit[r].step = "undo" /\ UNCHANGED vars
      /\ visit' = [visit EXCEPT ![r] = NoVisit]
      /\ tokens' = IF i \in DOMAIN tokens THEN [tokens EXCEPT ![i] = link] ELSE tokens
  BY DEF UndoConsume
<1>2. i \in DOMAIN tokens => link \in Link /\ ~link.used
  BY <1>0 DEF Link
<1>3. /\ tokens' \in Seq(Link) /\ Len(tokens') = Len(tokens) /\ DOMAIN tokens' = DOMAIN tokens
      /\ \A j \in DOMAIN tokens : \/ tokens'[j] = tokens[j]
                                  \/ j = i /\ ~tokens'[j].used
  <2> HIDE DEF i, link
  <2>1. CASE i \in DOMAIN tokens
    BY <1>0, <1>1, <1>2, <2>1, ChangeLink
  <2>2. CASE i \notin DOMAIN tokens
    BY <1>0, <1>1, <2>2
  <2> QED BY <2>1, <2>2
<1>4. /\ visit' \in [Recipients -> VisitType] /\ visit'[r].step = "none"
      /\ \A q \in Recipients : q # r => visit'[q] = visit[q]
  BY <1>0, <1>1, TokenConstants DEF VisitType, NoVisit
<1>5. creator # "idle" /\ Holding(r)
  BY <1>1 DEF TokensInv, GoneForGood, Holding
<1> HIDE DEF i, link
<1>6. LinksOK'
  BY <1>0, <1>3, <1>4 DEF LinksOK
<1>7. GoneForGood'
  BY <1>0, <1>1, <1>3, <1>5 DEF vars, TokensInv, GoneForGood
<1>8. HeldLinks'
  <2> SUFFICES ASSUME review.status # "absent" PROVE HeldLinks'
    BY <1>1 DEF vars, HeldLinks
  <2>1. \A q \in Recipients : Holding(q)' =>
            q # r /\ Holding(q) /\ visit'[q] = visit[q] /\ visit[q].link # i
    BY <1>4, <1>5 DEF TokensInv, HeldLinks, Holding, i
  <2> QED BY <1>3, <2>1 DEF TokensInv, HeldLinks
<1>9. TypeInv' /\ LoadedOpen'
  BY <1>1 DEF vars, TokensInv, TypeInv, TypeOK, CarriedOK, LoadedOpen
<1> QED BY <1>6, <1>7, <1>8, <1>9 DEF TokensInv

LEMMA RecipientStepLinks ==
  ASSUME TokensInv, NEW r \in Recipients, RecipientStep(r) PROVE TokensInv'
<1>0. /\ r \in Requests /\ TypeInv /\ LoadedOpen /\ GoneForGood
      /\ visit \in [Recipients -> VisitType]
  BY TokenConstants DEF TokensInv, LinksOK
<1>1. NoVisit \in VisitType /\ NoVisit.step = "none"
  BY TokenConstants DEF NoVisit, VisitType
<1>2. ASSUME RequestStep(r), tokens' = tokens, visit' \in [Recipients -> VisitType],
             \A q \in Recipients : Holding(q)' => Holding(q) /\ visit'[q].link = visit[q].link
      PROVE  TokensInv'
  BY <1>0, <1>2, RequestStepType, RequestStepStays, VisitKept
<1>3. CASE visit[r] = NoVisit /\ (OpenPage(r) \/ LeavePage(r)) /\ UNCHANGED tokenVars
  BY <1>0, <1>2, <1>3 DEF RequestStep, tokenVars, Holding
<1>4. ASSUME NEW i \in DOMAIN tokens, Validate(r, i) PROVE TokensInv'
  <2>1. visit' = [visit EXCEPT ![r] = [step |-> "validated", link |-> i]] /\ UNCHANGED <<vars, tokens>>
    BY <1>4 DEF Validate
  <2>2. i \in 0..MaxTokens
    BY TokenConstants DEF TokensInv, LinksOK
  <2>3. [step |-> "validated", link |-> i] \in VisitType
    BY <2>2 DEF VisitType
  <2>4. visit' \in [Recipients -> VisitType] /\ \A q \in Recipients :
            Holding(q)' => Holding(q) /\ visit'[q].link = visit[q].link
    BY <1>0, <2>1, <2>3 DEF Holding
  <2>5. TypeInv' /\ LoadedOpen' /\ RowStays
    BY <1>0, <2>1 DEF vars, TypeInv, TypeOK, CarriedOK, LoadedOpen, RowStays, GoneForGood
  <2> QED BY <2>1, <2>4, <2>5, VisitKept
<1>5. CASE Refused(r)
  <2>1. visit' = [visit EXCEPT ![r] = NoVisit] /\ UNCHANGED <<vars, tokens>>
    BY <1>5 DEF Refused
  <2>2. visit' \in [Recipients -> VisitType] /\ \A q \in Recipients :
            Holding(q)' => Holding(q) /\ visit'[q].link = visit[q].link
    BY <1>0, <1>1, <2>1 DEF Holding
  <2>3. TypeInv' /\ LoadedOpen' /\ RowStays
    BY <1>0, <2>1 DEF vars, TypeInv, TypeOK, CarriedOK, LoadedOpen, RowStays, GoneForGood
  <2> QED BY <2>1, <2>2, <2>3, VisitKept
<1>6. ASSUME NEW a \in OfferedActions, RecipientLoad(r, a) PROVE TokensInv'
  BY <1>0, <1>2, <1>6 DEF RecipientLoad, RequestStep, tokenVars, Holding
<1>7. CASE RecipientCommit(r)
  BY <1>0, <1>2, <1>7 DEF RecipientCommit, RequestStep, Holding
<1>8. CASE RecipientAnnounce(r)
  <2>1. visit' = [visit EXCEPT ![r] = NoVisit] /\ tokens' = tokens /\ RequestStep(r)
    BY <1>8 DEF RecipientAnnounce, RequestStep
  <2>2. visit' \in [Recipients -> VisitType] /\ \A q \in Recipients :
            Holding(q)' => Holding(q) /\ visit'[q].link = visit[q].link
    BY <1>0, <1>1, <2>1 DEF Holding
  <2> QED BY <1>2, <2>1, <2>2
<1>9. CASE RecipientRejected(r) \/ RecipientAnnounceFails(r)
  <2>1. /\ visit[r].step = "consumed" /\ visit' = [visit EXCEPT ![r].step = "undo"]
        /\ tokens' = tokens
    BY <1>9 DEF RecipientRejected, RecipientAnnounceFails
  <2>2. visit' \in [Recipients -> VisitType] /\ \A q \in Recipients :
            Holding(q)' => Holding(q) /\ visit'[q].link = visit[q].link
    BY <1>0, <2>1 DEF Holding, VisitType
  <2>3. /\ req' = [req EXCEPT ![r] = IdleRequest]
        /\ faults' = faults \/ (faults < MaxFaults /\ faults' = faults + 1)
        /\ UNCHANGED <<review, due, creator, worker, told, snoozes>>
    BY <1>9 DEF RecipientRejected, RecipientAnnounceFails, CommitConflict
  <2> QED BY <1>0, <2>1, <2>2, <2>3, RequestDropped, VisitKept
<1>10. CASE RecipientCrash(r)
  <2>1. /\ visit' = [visit EXCEPT ![r] = NoVisit] /\ tokens' = tokens
        /\ req' = [req EXCEPT ![r] = IdleRequest]
        /\ faults < MaxFaults /\ faults' = faults + 1
        /\ UNCHANGED <<review, due, creator, worker, told, snoozes>>
    BY <1>10 DEF RecipientCrash
  <2>2. visit' \in [Recipients -> VisitType] /\ \A q \in Recipients :
            Holding(q)' => Holding(q) /\ visit'[q].link = visit[q].link
    BY <1>0, <1>1, <2>1 DEF Holding
  <2> QED BY <1>0, <2>1, <2>2, RequestDropped, VisitKept
<1> QED BY <1>3, <1>4, <1>5, <1>6, <1>7, <1>8, <1>9, <1>10, ConsumeLinks, UndoLinks
    DEF RecipientStep

LEMMA NextTokensInv == TokensInv /\ [TokensNext]_allVars => TokensInv'
<1> SUFFICES ASSUME TokensInv, [TokensNext]_allVars PROVE TokensInv'
  OBVIOUS
<1>1. CASE TokensNext
  BY <1>1, LifecycleStepLinks, LinkStepLinks, RecipientStepLinks DEF TokensNext
<1>2. CASE UNCHANGED allVars
  BY <1>2 DEF allVars, vars, tokenVars, TokensInv, TypeInv, TypeOK, CarriedOK, LoadedOpen,
     LinksOK, GoneForGood, HeldLinks, Holding
<1> QED BY <1>1, <1>2

LEMMA InitTokensInv == TokensInit => TokensInv
<1> SUFFICES ASSUME TokensInit PROVE TokensInv
  OBVIOUS
<1>1. NoVisit \in VisitType /\ NoVisit.step = "none"
  BY TokenConstants DEF NoVisit, VisitType
<1>2. LinksOK
  BY <1>1, TokenConstants DEF TokensInit, LinksOK
<1>3. GoneForGood /\ HeldLinks
  BY <1>1 DEF TokensInit, Init, Absent, GoneForGood, HeldLinks, Holding
<1>4. LoadedOpen
  BY DEF TokensInit, Init, LoadedOpen, IdleRequest
<1> QED BY <1>2, <1>3, <1>4, InitTypeInv DEF TokensInit, TokensInv

LEMMA TokensInvariant == TokensSpec => []TokensInv
  BY InitTokensInv, NextTokensInv, PTL DEF TokensSpec

-----------------------------------------------------------------------------
\* Only a recipient's own commit turns its loaded request into a committed one.
LEMMA OthersKeepRequest ==
  ASSUME TypeInv, NEW r \in Requests, RequestStep(r), NEW x \in Requests, x # r
  PROVE  req'[x] = req[x]
  BY DEF TypeInv, TypeOK, RequestStep, OpenPage, LeavePage, LoadReview, CommitAction,
         CommitConflict, Announce, RequestCrash, ResolveMonitoring

LEMMA LifecycleKeepsRecipients ==
  ASSUME TypeInv, LifecycleStep, NEW x \in Recipients PROVE req'[x] = req[x]
<1>1. x \in Requests
  BY TokenConstants
<1>2. ASSUME NEW r \in Requests \ Recipients, RequestStep(r) PROVE req'[x] = req[x]
  BY <1>1, <1>2, OthersKeepRequest
<1>3. ASSUME NEW w \in Workers, WorkerStep(w) PROVE req' = req
  BY <1>3
  DEF WorkerStep, ClaimExpired, ClaimMaxIterations, ClaimMonitoring, ClaimLadder, Claim,
      ProcessStep, ProcessOne, CloseMaxIterations, ConfirmOne, PromoteOne, Finish,
      WorkerAnnounce, WorkerFails, WorkerCrash
<1>4. CreateStep \/ RowStep \/ TimeStep => req' = req
  BY DEF CreateStep, Create, AutoApprove, CreatorCrash,
         RowStep, UpdateVersion, Archive, Unarchive, Delete, Snooze, RevertChanges,
         TimeStep, DeadlinePasses, SnoozeElapses, ClaimAges
<1> QED BY <1>2, <1>3, <1>4 DEF LifecycleStep

(***************************************************************************)
(* How often a link decides.                                               *)
(***************************************************************************)
\* A link that a recipient may yet spend, or that may yet be issued.
Free(i) ==
    \/ creator = "idle"
    \/ review.status # "absent" /\ (i \notin DOMAIN tokens \/ ~tokens[i].used)

\* A link has at most one decision that stands: none while it is free or held by a request
\* that has not written, one while the request that wrote it is at work.
CountsOK ==
    /\ written \in [1..MaxTokens -> Nat] /\ thrown \in [1..MaxTokens -> Nat]
    /\ \A i \in 1..MaxTokens : /\ written[i] \in {thrown[i], thrown[i] + 1}
                               /\ Free(i) => written[i] = thrown[i]
    /\ \A r \in Recipients : Holding(r) =>
         /\ visit[r].link \in 1..MaxTokens
         /\ written[visit[r].link] = IF req[r].pc = "committed" THEN thrown[visit[r].link] + 1
                                                                ELSE thrown[visit[r].link]

HeldAlone ==
    \A r, q \in Recipients : Holding(r) /\ Holding(q) /\ r # q => visit[r].link # visit[q].link

\* A recipient's request decides only with a link it has spent.
VisitOK ==
    \A r \in Recipients :
       /\ req[r].pc \in {"loaded", "committed"} => visit[r].step = "consumed"
       /\ req[r].pc = "loaded" => req[r].action \in {"approve", "reject"}

CountInv == CountsOK /\ HeldAlone /\ VisitOK

\* A step that counts nothing, frees no link and spends none.
LEMMA CountsKept ==
  ASSUME CountInv, UNCHANGED history, \A i \in 1..MaxTokens : Free(i)' => Free(i),
         \A r \in Recipients : Holding(r)' =>
            /\ Holding(r) /\ visit'[r].link = visit[r].link
            /\ req'[r].pc = "committed" <=> req[r].pc = "committed"
  PROVE  CountsOK' /\ HeldAlone'
<1>1. CountsOK'
  BY DEF CountInv, CountsOK, history
<1>2. HeldAlone'
  BY DEF CountInv, HeldAlone
<1> QED BY <1>1, <1>2

LEMMA LifecycleRow ==
  ASSUME TokensInv, LifecycleStep
  PROVE  /\ creator' = "idle" => creator = "idle"
         /\ review'.status # "absent" => creator = "idle" \/ review.status # "absent"
<1>0. TypeInv /\ LoadedOpen /\ GoneForGood /\ review \in ReviewType
  BY DEF TokensInv, TypeInv, TypeOK
<1>1. ASSUME RowStays PROVE /\ creator' = "idle" => creator = "idle"
                            /\ review'.status # "absent" => review.status # "absent"
  BY <1>1 DEF RowStays
<1>2. CASE RowStep
  BY <1>0, <1>2 DEF RowStep, UpdateVersion, Archive, Unarchive, Delete, Snooze, RevertChanges,
     Iterating
<1>3. CASE CreateStep
  BY <1>0, <1>3 DEF CreateStep, Create, AutoApprove, CreatorCrash, Exists
<1> QED BY <1>0, <1>1, <1>2, <1>3, RequestStepStays, WorkerStepStays, TimeStepStays
    DEF LifecycleStep

LEMMA LifecycleCounts == ASSUME TokensInv, CountInv, LifecycleStep PROVE CountInv'
<1>1. UNCHANGED <<visit, history>> /\ \A r \in Recipients : req'[r] = req[r]
  BY LifecycleKeepsRecipients DEF LifecycleStep, TokensInv
<1>2. ASSUME NEW i \in 1..MaxTokens, Free(i)' PROVE Free(i)
  <2>1. CASE creator' = "idle"
    BY <2>1, LifecycleRow DEF Free
  <2>2. CASE creator' # "idle"
    <3>1. review'.status # "absent" /\ (i \notin DOMAIN tokens' \/ ~tokens'[i].used)
      BY <1>2, <2>2 DEF Free
    <3>2. tokens' = tokens
      BY <3>1 DEF LifecycleStep, Cascade
    <3> QED BY <3>1, <3>2, LifecycleRow DEF Free
  <2> QED BY <2>1, <2>2
<1>3. CountsOK' /\ HeldAlone'
  BY <1>1, <1>2, CountsKept DEF Holding
<1>4. VisitOK'
  BY <1>1 DEF CountInv, VisitOK
<1> QED BY <1>3, <1>4 DEF CountInv

LEMMA LinkCounts == ASSUME TokensInv, CountInv, LinkStep PROVE CountInv'
<1>0. review \in ReviewType /\ GoneForGood
  BY DEF TokensInv, TypeInv, TypeOK
<1>1. UNCHANGED <<creator, req, visit, history>>
  BY DEF LinkStep, Generate, Revoke, LinkExpires, ConsumeAsRecipientAction, Reclaim, vars,
         tokenVars
<1>2. review'.status # "absent" => review.status # "absent"
  <2>1. \A i \in DOMAIN tokens : review.status # "absent"
    BY <1>0 DEF GoneForGood
  <2> QED BY <2>1 DEF LinkStep, Generate, Revoke, LinkExpires, ConsumeAsRecipientAction, Reclaim, vars
<1>3. ASSUME NEW i \in 1..MaxTokens, Free(i)' PROVE Free(i)
  BY <1>1, <1>2, <1>3, LinkStepShape DEF Free, NoneGivenBack
<1>4. CountsOK' /\ HeldAlone'
  BY <1>1, <1>3, CountsKept DEF Holding
<1>5. VisitOK'
  BY <1>1 DEF CountInv, VisitOK
<1> QED BY <1>4, <1>5 DEF CountInv

\* The link is free and its next holder is the only one.
LEMMA ConsumeCounts == ASSUME TokensInv, CountInv, NEW r \in Recipients, Consume(r) PROVE CountInv'
<1> DEFINE i == visit[r].link
<1>1. /\ visit[r].step = "validated" /\ UNCHANGED <<vars, history>>
      /\ i \in DOMAIN tokens /\ ~tokens[i].used
      /\ visit' = [visit EXCEPT ![r].step = "consumed"]
  BY DEF Consume, Consumable, Spendable
<1>2. UNCHANGED <<review, creator, req>>
  BY <1>1 DEF vars
<1>3. /\ visit'[r].link = i /\ visit'[r].step = "consumed"
      /\ \A q \in Recipients : q # r => visit'[q] = visit[q]
  BY <1>1 DEF TokensInv, LinksOK, VisitType
<1>4. review.status # "absent"
  BY <1>1 DEF TokensInv, GoneForGood
<1>5. i \in 1..MaxTokens /\ Free(i) /\ req[r].pc # "committed"
  BY <1>1, <1>4, TokenConstants DEF TokensInv, LinksOK, Free, CountInv, VisitOK
<1>6. \A q \in Recipients : q # r /\ Holding(q)' =>
         Holding(q) /\ visit'[q].link = visit[q].link /\ visit[q].link # i
  BY <1>1, <1>3, <1>4 DEF TokensInv, HeldLinks, Holding
<1> HIDE DEF i
<1>7. \A j \in 1..MaxTokens : Free(j)' => Free(j)
  BY <1>2, ConsumeLinks DEF Free, NoneGivenBack
<1>8. CountsOK'
  <2>1. \A j \in 1..MaxTokens : /\ written[j] \in {thrown[j], thrown[j] + 1}
                                /\ Free(j)' => written[j] = thrown[j]
    BY <1>7 DEF CountInv, CountsOK
  <2>2. written[i] = thrown[i]
    BY <1>5 DEF CountInv, CountsOK
  <2>3. ASSUME NEW q \in Recipients, Holding(q)'
        PROVE  /\ visit'[q].link \in 1..MaxTokens
               /\ written[visit'[q].link] =
                    IF req[q].pc = "committed" THEN thrown[visit'[q].link] + 1
                                               ELSE thrown[visit'[q].link]
    <3>1. CASE q = r
      BY <1>3, <1>5, <2>2, <3>1
    <3>2. CASE q # r
      BY <1>6, <2>3, <3>2 DEF CountInv, CountsOK
    <3> QED BY <3>1, <3>2
  <2> QED BY <1>1, <1>2, <2>1, <2>3 DEF CountInv, CountsOK, history
<1>9. HeldAlone'
  BY <1>3, <1>6 DEF CountInv, HeldAlone
<1>10. VisitOK'
  BY <1>1, <1>2, <1>3 DEF CountInv, VisitOK
<1> QED BY <1>8, <1>9, <1>10 DEF CountInv

\* A link is given back by a request whose decision, if it wrote one, was thrown.
LEMMA UndoCounts ==
  ASSUME TokensInv, CountInv, NEW r \in Recipients, UndoConsume(r) PROVE CountInv'
<1> DEFINE i == visit[r].link
<1>1. /\ visit[r].step = "undo" /\ UNCHANGED <<vars, history>>
      /\ visit' = [visit EXCEPT ![r] = NoVisit]
      /\ tokens' = IF i \in DOMAIN tokens THEN [tokens EXCEPT ![i].used = FALSE] ELSE tokens
  BY DEF UndoConsume
<1>2. UNCHANGED <<review, creator, req>>
  BY <1>1 DEF vars
<1>3. visit'[r].step = "none" /\ \A q \in Recipients : q # r => visit'[q] = visit[q]
  BY <1>1 DEF TokensInv, LinksOK, NoVisit
<1>4. Holding(r) /\ req[r].pc # "committed"
  BY <1>1 DEF Holding, CountInv, VisitOK
<1>5. i \in 1..MaxTokens /\ written[i] = thrown[i]
  BY <1>4 DEF CountInv, CountsOK
<1>6. \A j \in 1..MaxTokens : j # i /\ Free(j)' => Free(j)
  BY <1>1, <1>2 DEF Free, TokensInv, LinksOK
<1> HIDE DEF i
<1>7. \A q \in Recipients : Holding(q)' => Holding(q) /\ visit'[q] = visit[q]
  BY <1>3 DEF Holding
<1>8. CountsOK'
  <2>1. \A j \in 1..MaxTokens : /\ written[j] \in {thrown[j], thrown[j] + 1}
                                /\ Free(j)' => written[j] = thrown[j]
    BY <1>5, <1>6 DEF CountInv, CountsOK
  <2> QED BY <1>1, <1>2, <1>7, <2>1 DEF CountInv, CountsOK, history
<1>9. HeldAlone'
  BY <1>7 DEF CountInv, HeldAlone
<1>10. VisitOK'
  BY <1>1, <1>2, <1>3, <1>4 DEF CountInv, VisitOK
<1> QED BY <1>8, <1>9, <1>10 DEF CountInv

\* What the request's own step may do to itself.
LEMMA OwnStep ==
  ASSUME TokensInv, NEW r \in Recipients, RequestStep(r) \/ req' = [req EXCEPT ![r] = IdleRequest]
  PROVE  \A q \in Recipients : q # r => req'[q] = req[q]
<1>1. TypeInv /\ req \in [Requests -> RequestType] /\ Recipients \subseteq Requests
  BY TokenConstants DEF TokensInv, TypeInv, TypeOK
<1> QED BY <1>1, OthersKeepRequest

LEMMA CommitCounts ==
  ASSUME TokensInv, CountInv, NEW r \in Recipients, RecipientCommit(r) PROVE CountInv'
<1> DEFINE i == visit[r].link
<1>0. req \in [Requests -> RequestType] /\ r \in Requests
  BY TokenConstants DEF TokensInv, TypeInv, TypeOK
<1>1. /\ visit[r].step = "consumed" /\ CommitAction(r) /\ req[r].pc = "loaded"
      /\ written' = [written EXCEPT ![i] = @ + 1]
      /\ UNCHANGED <<tokens, visit, thrown>>
  BY DEF RecipientCommit, CommitAction
<1>2. review.status # "absent" /\ creator' = creator
  BY <1>1 DEF CommitAction, VersionStillCurrent, Exists
<1>3. Holding(r) /\ req[r].action \in {"approve", "reject"}
  BY <1>1 DEF Holding, CountInv, VisitOK
<1>4. i \in DOMAIN tokens /\ tokens[i].used /\ i \in 1..MaxTokens /\ written[i] = thrown[i]
  BY <1>1, <1>2, <1>3 DEF TokensInv, HeldLinks, CountInv, CountsOK
<1>5. creator # "idle"
  BY <1>2 DEF TokensInv, GoneForGood
<1>6. req'[r].pc = "committed" /\ \A q \in Recipients : q # r => req'[q] = req[q]
  <2>1. Kind[req[r].action] = "decision"
    BY <1>3 DEF Kind, Preset
  <2>2. req' = [req EXCEPT ![r] = [IdleRequest EXCEPT !.pc = "committed",
                                      !.decision = DecisionValue[req[r].action]]]
    BY <1>1, <2>1 DEF CommitAction
  <2>3. [IdleRequest EXCEPT !.pc = "committed",
                            !.decision = DecisionValue[req[r].action]].pc = "committed"
    BY DEF IdleRequest
  <2>4. RequestStep(r)
    BY <1>1 DEF RequestStep
  <2> QED BY <1>0, <2>2, <2>3, <2>4, OwnStep
<1>7. \A q \in Recipients : q # r /\ Holding(q) => visit[q].link # i
  BY <1>3 DEF CountInv, HeldAlone
<1> HIDE DEF i
<1>8. \A j \in 1..MaxTokens : Free(j)' => Free(j) /\ j # i
  BY <1>1, <1>2, <1>4, <1>5 DEF Free
<1>9. /\ written' \in [1..MaxTokens -> Nat] /\ written'[i] = thrown[i] + 1
      /\ \A j \in 1..MaxTokens : j # i => written'[j] = written[j]
  BY <1>1, <1>4 DEF CountInv, CountsOK
<1>10. CountsOK'
  <2>1. \A j \in 1..MaxTokens : /\ written'[j] \in {thrown[j], thrown[j] + 1}
                                /\ Free(j)' => written'[j] = thrown[j]
    BY <1>8, <1>9 DEF CountInv, CountsOK
  <2>2. ASSUME NEW q \in Recipients, Holding(q)
        PROVE  /\ visit[q].link \in 1..MaxTokens
               /\ written'[visit[q].link] =
                    IF req'[q].pc = "committed" THEN thrown[visit[q].link] + 1
                                                ELSE thrown[visit[q].link]
    <3>1. CASE q = r
      BY <1>4, <1>6, <1>9, <3>1 DEF i
    <3>2. CASE q # r
      BY <1>6, <1>7, <1>9, <2>2, <3>2 DEF CountInv, CountsOK
    <3> QED BY <3>1, <3>2
  <2> QED BY <1>1, <1>9, <2>1, <2>2 DEF CountInv, CountsOK, Holding
<1>11. HeldAlone'
  BY <1>1 DEF CountInv, HeldAlone, Holding
<1>12. VisitOK'
  BY <1>1, <1>6 DEF CountInv, VisitOK
<1> QED BY <1>10, <1>11, <1>12 DEF CountInv

LEMMA ThrownCounts ==
  ASSUME TokensInv, CountInv, NEW r \in Recipients, RecipientAnnounceFails(r) PROVE CountInv'
<1> DEFINE i == visit[r].link
<1>0. req \in [Requests -> RequestType] /\ r \in Requests /\ visit \in [Recipients -> VisitType]
  BY TokenConstants DEF TokensInv, TypeInv, TypeOK, LinksOK
<1>1. /\ visit[r].step = "consumed" /\ req[r].pc = "committed"
      /\ req' = [req EXCEPT ![r] = IdleRequest]
      /\ visit' = [visit EXCEPT ![r].step = "undo"]
      /\ thrown' = [thrown EXCEPT ![i] = @ + 1]
      /\ UNCHANGED <<review, creator, tokens, written>>
  BY DEF RecipientAnnounceFails
<1>2. /\ req'[r].pc = "idle" /\ visit'[r].step = "undo" /\ visit'[r].link = i
      /\ \A q \in Recipients : q # r => req'[q] = req[q] /\ visit'[q] = visit[q]
  BY <1>0, <1>1, OwnStep DEF IdleRequest, VisitType
<1>3. Holding(r) /\ i \in 1..MaxTokens /\ written[i] = thrown[i] + 1
  BY <1>1 DEF Holding, CountInv, CountsOK
<1>4. \A q \in Recipients : q # r /\ Holding(q) => visit[q].link # i
  BY <1>3 DEF CountInv, HeldAlone
<1>5. \A q \in Recipients : Holding(q)' => Holding(q) /\ visit'[q].link = visit[q].link
  BY <1>2, <1>3 DEF Holding
<1> HIDE DEF i
<1>6. \A j \in 1..MaxTokens : Free(j)' => Free(j)
  BY <1>1 DEF Free
<1>7. /\ thrown' \in [1..MaxTokens -> Nat] /\ thrown'[i] = thrown[i] + 1
      /\ \A j \in 1..MaxTokens : j # i => thrown'[j] = thrown[j]
  BY <1>1, <1>3 DEF CountInv, CountsOK
<1>8. CountsOK'
  <2>1. \A j \in 1..MaxTokens : /\ written[j] \in {thrown'[j], thrown'[j] + 1}
                                /\ Free(j)' => written[j] = thrown'[j]
    BY <1>3, <1>6, <1>7 DEF CountInv, CountsOK
  <2>2. ASSUME NEW q \in Recipients, Holding(q)'
        PROVE  /\ visit'[q].link \in 1..MaxTokens
               /\ written[visit'[q].link] =
                    IF req'[q].pc = "committed" THEN thrown'[visit'[q].link] + 1
                                                ELSE thrown'[visit'[q].link]
    <3>1. CASE q = r
      BY <1>2, <1>3, <1>7, <3>1 DEF i
    <3>2. CASE q # r
      BY <1>2, <1>4, <1>5, <1>7, <2>2, <3>2 DEF CountInv, CountsOK
    <3> QED BY <3>1, <3>2
  <2> QED BY <1>1, <1>7, <2>1, <2>2 DEF CountInv, CountsOK
<1>9. HeldAlone'
  BY <1>5 DEF CountInv, HeldAlone
<1>10. VisitOK'
  BY <1>2 DEF CountInv, VisitOK
<1> QED BY <1>8, <1>9, <1>10 DEF CountInv

\* Of the other steps of a recipient none writes a decision, spends a link or frees one.
LEMMA RecipientCounts ==
  ASSUME TokensInv, CountInv, NEW r \in Recipients, RecipientStep(r) PROVE CountInv'
<1>0. /\ req \in [Requests -> RequestType] /\ r \in Requests
      /\ visit \in [Recipients -> VisitType] /\ GoneForGood
  BY TokenConstants DEF TokensInv, TypeInv, TypeOK, LinksOK
<1>1. ASSUME UNCHANGED <<tokens, history, creator>>,
             review'.status # "absent" => review.status # "absent",
             \A q \in Recipients : q # r => req'[q] = req[q] /\ visit'[q] = visit[q],
             Holding(r)' => /\ Holding(r) /\ visit'[r].link = visit[r].link
                            /\ req'[r].pc = "committed" <=> req[r].pc = "committed",
             /\ req'[r].pc \in {"loaded", "committed"} => visit'[r].step = "consumed"
             /\ req'[r].pc = "loaded" => req'[r].action \in {"approve", "reject"}
      PROVE  CountInv'
  <2>1. \A i \in 1..MaxTokens : Free(i)' => Free(i)
    BY <1>1 DEF Free
  <2>2. \A q \in Recipients : Holding(q)' =>
            /\ Holding(q) /\ visit'[q].link = visit[q].link
            /\ req'[q].pc = "committed" <=> req[q].pc = "committed"
    BY <1>1 DEF Holding
  <2>3. CountsOK' /\ HeldAlone'
    BY <1>1, <2>1, <2>2, CountsKept
  <2>4. VisitOK'
    BY <1>1 DEF CountInv, VisitOK
  <2> QED BY <2>3, <2>4 DEF CountInv
<1>2. CASE visit[r] = NoVisit /\ (OpenPage(r) \/ LeavePage(r)) /\ UNCHANGED tokenVars
  <2>1. req'[r].pc \in {"open", "idle"}
    <3> DEFINE page == [IdleRequest EXCEPT !.pc = "open", !.version = review.current_version]
    <3>1. page.pc = "open" /\ IdleRequest.pc = "idle"
      BY DEF IdleRequest
    <3>2. req' = [req EXCEPT ![r] = page] \/ req' = [req EXCEPT ![r] = IdleRequest]
      BY <1>2 DEF OpenPage, LeavePage
    <3> HIDE DEF page
    <3> QED BY <1>0, <3>1, <3>2
  <2>2. \A q \in Recipients : q # r => req'[q] = req[q]
    BY <1>2, OwnStep DEF RequestStep
  <2>3. UNCHANGED <<review, creator>> /\ ~Holding(r)
    BY <1>2 DEF OpenPage, LeavePage, Holding, NoVisit
  <2> QED BY <1>1, <1>2, <2>1, <2>2, <2>3 DEF tokenVars, Holding
<1>3. ASSUME NEW i \in DOMAIN tokens, Validate(r, i) PROVE CountInv'
  <2>1. /\ visit' = [visit EXCEPT ![r] = [step |-> "validated", link |-> i]]
        /\ UNCHANGED <<vars, tokens, history>> /\ req[r].pc \in {"open", "idle"}
    BY <1>3 DEF Validate, AtDoor
  <2>2. visit'[r].step = "validated" /\ \A q \in Recipients : q # r => visit'[q] = visit[q]
    BY <1>0, <2>1
  <2> QED BY <1>1, <2>1, <2>2 DEF vars, Holding
<1>4. CASE Refused(r)
  <2>1. /\ visit' = [visit EXCEPT ![r] = NoVisit] /\ visit[r].step = "validated"
        /\ UNCHANGED <<vars, tokens, history>>
    BY <1>4 DEF Refused
  <2>2. visit'[r].step = "none" /\ \A q \in Recipients : q # r => visit'[q] = visit[q]
    BY <1>0, <2>1 DEF NoVisit
  <2>3. req[r].pc \notin {"loaded", "committed"}
    BY <2>1 DEF CountInv, VisitOK
  <2> QED BY <1>1, <2>1, <2>2, <2>3 DEF vars, Holding
<1>5. ASSUME NEW a \in OfferedActions, RecipientLoad(r, a) PROVE CountInv'
  <2>1. /\ visit[r].step = "consumed" /\ a \in {"approve", "reject"} /\ LoadReview(r, a)
        /\ UNCHANGED <<tokens, visit, history, review, creator>>
        /\ req[r].pc \in {"open", "idle"}
    BY <1>5 DEF RecipientLoad, LoadReview, tokenVars
  <2>2. req'[r].pc = "loaded" /\ req'[r].action = a
    BY <1>0, <2>1 DEF LoadReview
  <2>3. \A q \in Recipients : q # r => req'[q] = req[q]
    BY <2>1, OwnStep DEF RequestStep
  <2> QED BY <1>1, <2>1, <2>2, <2>3 DEF Holding
<1>6. CASE RecipientAnnounce(r)
  <2>1. /\ visit' = [visit EXCEPT ![r] = NoVisit] /\ req' = [req EXCEPT ![r] = IdleRequest]
        /\ UNCHANGED <<tokens, history, review, creator>>
    BY <1>6 DEF RecipientAnnounce, Announce
  <2>2. /\ visit'[r].step = "none" /\ req'[r].pc = "idle"
        /\ \A q \in Recipients : q # r => visit'[q] = visit[q] /\ req'[q] = req[q]
    BY <1>0, <2>1, OwnStep DEF NoVisit, IdleRequest
  <2> QED BY <1>1, <2>1, <2>2 DEF Holding
<1>7. CASE RecipientRejected(r)
  <2>1. /\ visit[r].step = "consumed" /\ visit' = [visit EXCEPT ![r].step = "undo"]
        /\ req' = [req EXCEPT ![r] = IdleRequest] /\ req[r].pc \in {"loaded", "open", "idle"}
        /\ UNCHANGED <<tokens, history, review, creator>>
    BY <1>7 DEF RecipientRejected, CommitConflict, AtDoor
  <2>2. /\ visit'[r].link = visit[r].link /\ req'[r].pc = "idle" /\ Holding(r)
        /\ \A q \in Recipients : q # r => visit'[q] = visit[q] /\ req'[q] = req[q]
    BY <1>0, <2>1, OwnStep DEF VisitType, IdleRequest, Holding
  <2> QED BY <1>1, <2>1, <2>2
<1>8. CASE RecipientCrash(r)
  <2>1. /\ visit' = [visit EXCEPT ![r] = NoVisit] /\ req' = [req EXCEPT ![r] = IdleRequest]
        /\ UNCHANGED <<tokens, history, review, creator>>
    BY <1>8 DEF RecipientCrash
  <2>2. /\ visit'[r].step = "none" /\ req'[r].pc = "idle"
        /\ \A q \in Recipients : q # r => visit'[q] = visit[q] /\ req'[q] = req[q]
    BY <1>0, <2>1, OwnStep DEF NoVisit, IdleRequest
  <2> QED BY <1>1, <2>1, <2>2 DEF Holding
<1> QED BY <1>2, <1>3, <1>4, <1>5, <1>6, <1>7, <1>8, ConsumeCounts, UndoCounts, CommitCounts,
           ThrownCounts DEF RecipientStep

LEMMA CountInvariant == TokensSpec => []CountInv
<1>1. TokensInit => CountInv
  <2> SUFFICES ASSUME TokensInit PROVE CountInv
    OBVIOUS
  <2>1. written = [i \in 1..MaxTokens |-> 0] /\ thrown = [i \in 1..MaxTokens |-> 0]
    BY DEF TokensInit
  <2>2. \A r \in Recipients : ~Holding(r) /\ req[r].pc = "idle"
    BY TokenConstants DEF TokensInit, Init, NoVisit, IdleRequest, Holding
  <2> QED BY <2>1, <2>2 DEF CountInv, CountsOK, HeldAlone, VisitOK
<1>2. TokensInv /\ CountInv /\ [TokensNext]_allVars => CountInv'
  <2> SUFFICES ASSUME TokensInv, CountInv, [TokensNext]_allVars PROVE CountInv'
    OBVIOUS
  <2>1. CASE TokensNext
    BY <2>1, LifecycleCounts, LinkCounts, RecipientCounts DEF TokensNext
  <2>2. CASE UNCHANGED allVars
    BY <2>2 DEF allVars, vars, tokenVars, history, CountInv, CountsOK, HeldAlone, VisitOK, Free,
       Holding
  <2> QED BY <2>1, <2>2
<1> QED BY <1>1, <1>2, TokensInvariant, PTL DEF TokensSpec

\* Every variable of the lifecycle with its share links stays in its domain, a link at
\* work is marked spent, and none is both revoked and spent.
THEOREM TokensTypeCorrect == TokensSpec => []TokensTypeOK
<1>1. TokensInv /\ CountInv => TokensTypeOK
  BY TokensInvType DEF CountInv, CountsOK
<1> QED BY <1>1, TokensInvariant, CountInvariant, PTL

\* However many recipients hold a link open, and however consume, decision and revert of
\* one fall between those of another, a link has at most one decision that stands, and is
\* spent while it has one: a second decision takes a handler that failed after the first.
THEOREM OneDecisionPerLink == TokensSpec => []LinkDecidesOnce
<1>1. TokensInv /\ CountInv => LinkDecidesOnce
  <2> SUFFICES ASSUME TokensInv, CountInv, NEW i \in 1..MaxTokens
               PROVE  /\ written[i] <= thrown[i] + 1
                      /\ written[i] > thrown[i] /\ i \in DOMAIN tokens => tokens[i].used
    BY DEF LinkDecidesOnce
  <2>1. /\ written[i] \in Nat /\ thrown[i] \in Nat
        /\ written[i] \in {thrown[i], thrown[i] + 1}
        /\ Free(i) => written[i] = thrown[i]
    BY DEF CountInv, CountsOK
  <2>2. i \in DOMAIN tokens => review.status # "absent"
    BY DEF TokensInv, GoneForGood
  <2> QED BY <2>1, <2>2 DEF Free
<1> QED BY <1>1, TokensInvariant, CountInvariant, PTL

-----------------------------------------------------------------------------
(***************************************************************************)
(* The lifecycle under its share links.  Beside the steps of the lifecycle *)
(* the links bring two more: one that moves the row between pending and    *)
(* awaiting_external, and one that lets go of a request.                   *)
(***************************************************************************)
LinkWrite ==
    /\ review.oversight = "blocking" /\ review.status # "absent" /\ creator # "idle"
    /\ \E status \in {"pending", "awaiting_external"},
          version \in {review.current_version, review.current_version + 1} :
            review' = [review EXCEPT !.status = status, !.current_version = version]
    /\ UNCHANGED <<due, creator, req, worker, told>>

LetGo ==
    /\ \E r \in Requests : req' = [req EXCEPT ![r] = IdleRequest]
    /\ UNCHANGED <<review, due, creator, worker, told>>

\* A monitoring gate has no links, so that revoking one never reopens it.
OnBlocking == tokens # <<>> => review.oversight = "blocking"

SharedInv == TokensInv /\ RowInv /\ OnBlocking

LEMMA LinkWriteRow ==
  ASSUME TypeInv, LinkWrite
  PROVE  /\ review'.status \in {"pending", "awaiting_external"}
         /\ review'.current_version >= review.current_version
         /\ review'.oversight = "blocking" /\ review.oversight = "blocking"
         /\ review.status # "absent" /\ creator # "idle" /\ creator' = creator
         /\ UNCHANGED <<due, req, worker, told>>
         /\ review'.payload = review.payload
         /\ review'.decision = review.decision /\ review'.decided_by = review.decided_by
         /\ review'.timeout_action = review.timeout_action
         /\ review'.claimed_by = review.claimed_by
         /\ review'.ladder_index = review.ladder_index
<1>0. review \in ReviewType
  BY DEF TypeInv, TypeOK
<1>1. PICK status \in {"pending", "awaiting_external"},
           version \in {review.current_version, review.current_version + 1} :
              review' = [review EXCEPT !.status = status, !.current_version = version]
  BY DEF LinkWrite
<1>2. version >= review.current_version
  BY <1>0, <1>1 DEF ReviewType
<1> QED BY <1>0, <1>1, <1>2 DEF LinkWrite, ReviewType

LEMMA LinkStepKind ==
  ASSUME SharedInv, LinkStep PROVE LinkWrite \/ UNCHANGED vars
<1>0. TypeInv /\ MonitoringInv /\ review \in ReviewType
  BY DEF SharedInv, RowInv, TypeInv, TypeOK
<1>1. ASSUME NEW preview \in BOOLEAN, Generate(preview) PROVE LinkWrite \/ UNCHANGED vars
  <2>1. CASE preview
    BY <1>1, <2>1 DEF Generate, vars
  <2>2. CASE ~preview
    <3>1. review.status = "pending"
      BY <1>1, <2>2 DEF Generate
    <3>2. review.oversight = "blocking" /\ creator # "idle"
      BY <1>0, <3>1, OpenIsBlocking
    <3>3. review' = [review EXCEPT !.status = "awaiting_external",
                                   !.current_version = review.current_version]
      BY <1>0, <1>1, <2>2 DEF Generate, ReviewType
    <3> QED BY <1>1, <3>1, <3>2, <3>3 DEF Generate, LinkWrite
  <2> QED BY <2>1, <2>2
<1>2. CASE Revoke
  <2>1. tokens # <<>> /\ review' = [review EXCEPT !.status = "pending"]
    BY <1>2 DEF Revoke
  <2>2. review.oversight = "blocking" /\ review.status # "absent" /\ creator # "idle"
    BY <2>1 DEF SharedInv, OnBlocking, TokensInv, GoneForGood
  <2>3. review' = [review EXCEPT !.status = "pending",
                                 !.current_version = review.current_version]
    BY <1>0, <2>1 DEF ReviewType
  <2> QED BY <1>2, <2>2, <2>3 DEF Revoke, LinkWrite
<1>3. ASSUME NEW i \in DOMAIN tokens, LinkExpires(i) PROVE UNCHANGED vars
  BY <1>3 DEF LinkExpires
<1>4. ASSUME NEW i \in DOMAIN tokens, ConsumeAsRecipientAction(i) PROVE LinkWrite
  <2>1. review.oversight = "blocking" /\ creator # "idle" /\ review.status # "absent"
    BY <1>0, <1>4, OpenIsBlocking DEF ConsumeAsRecipientAction, Shared
  <2>2. review' = [review EXCEPT !.status = "pending",
                                 !.current_version = review.current_version + 1]
    BY <1>4 DEF ConsumeAsRecipientAction
  <2> QED BY <1>4, <2>1, <2>2 DEF ConsumeAsRecipientAction, LinkWrite
<1>5. CASE Reclaim
  <2>1. review.oversight = "blocking" /\ creator # "idle" /\ review.status # "absent"
    BY <1>0, <1>5, OpenIsBlocking DEF Reclaim
  <2>2. review' = [review EXCEPT !.status = "pending",
                                 !.current_version = review.current_version]
    BY <1>0, <1>5 DEF Reclaim, ReviewType
  <2> QED BY <1>5, <2>1, <2>2 DEF Reclaim, LinkWrite
<1> QED BY <1>1, <1>2, <1>3, <1>4, <1>5 DEF LinkStep

LEMMA RecipientStepKind ==
  ASSUME SharedInv, NEW r \in Recipients, RecipientStep(r) PROVE [Next]_vars \/ LetGo
<1>1. r \in Requests
  BY TokenConstants
<1>2. \/ RequestStep(r) \/ UNCHANGED vars
      \/ /\ req' = [req EXCEPT ![r] = IdleRequest]
         /\ UNCHANGED <<review, due, creator, worker, told>>
  BY DEF RecipientStep, Validate, Consume, Refused, RecipientLoad, RecipientCommit,
         RecipientRejected, UndoConsume, RecipientAnnounce, RecipientAnnounceFails,
         RecipientCrash, RequestStep
<1> QED BY <1>1, <1>2 DEF Next, LetGo

LEMMA StepKind ==
  ASSUME SharedInv, [TokensNext]_allVars PROVE [Next]_vars \/ LinkWrite \/ LetGo
<1>1. CASE LifecycleStep
  BY <1>1 DEF LifecycleStep, Next
<1>2. CASE UNCHANGED allVars
  BY <1>2 DEF allVars
<1> QED BY <1>1, <1>2, LinkStepKind, RecipientStepKind DEF TokensNext

\* Requests, ticks and the creator leave the kind of a review alone.
LEMMA OversightKept ==
  ASSUME TypeInv, CreateStep \/ RowStep \/ TimeStep
                  \/ (\E r \in Requests : RequestStep(r)) \/ (\E w \in Workers : WorkerStep(w)),
         creator # "idle", review'.status # "absent"
  PROVE  review'.oversight = review.oversight
<1>0. review \in ReviewType /\ req \in [Requests -> RequestType]
  BY DEF TypeInv, TypeOK
<1>1. CASE CreateStep
  BY <1>0, <1>1 DEF CreateStep, Create, AutoApprove, CreatorCrash, ReviewType
<1>2. CASE RowStep
  <2>1. ~Delete
    BY DEF Delete, Absent
  <2> QED BY <1>0, <1>2, <2>1 DEF RowStep, UpdateVersion, Archive, Unarchive, Snooze,
             RevertChanges, ReviewType
<1>3. CASE TimeStep
  BY <1>0, <1>3 DEF TimeStep, DeadlinePasses, SnoozeElapses, ClaimAges, ReviewType
<1>4. ASSUME NEW r \in Requests, RequestStep(r) PROVE review'.oversight = review.oversight
  <2>1. CASE CommitAction(r)
    <3> DEFINE q == req[r]
    <3>1. review' = StateUpdate(review, q)
      BY <2>1 DEF CommitAction
    <3> HIDE DEF q
    <3> QED BY <1>0, <3>1 DEF StateUpdate, ReviewType
  <2>2. CASE ~CommitAction(r)
    BY <1>0, <1>4, <2>2 DEF RequestStep, OpenPage, LeavePage, LoadReview, CommitConflict,
       Announce, RequestCrash, ResolveMonitoring, ReviewType
  <2> QED BY <2>1, <2>2
<1>5. ASSUME NEW w \in Workers, WorkerStep(w) PROVE review'.oversight = review.oversight
  <2>1. CASE ProcessOne(w)
    BY <1>0, <2>1 DEF ProcessOne, Finish, Unclaimed, ReviewType
  <2>2. CASE CloseMaxIterations(w)
    BY <1>0, <2>2 DEF CloseMaxIterations, Finish, Unclaimed, ReviewType
  <2>3. CASE ConfirmOne(w)
    BY <1>0, <2>3 DEF ConfirmOne, Finish, Unclaimed, ReviewType
  <2>4. CASE PromoteOne(w)
    BY <1>0, <2>4 DEF PromoteOne, Finish, Unclaimed, ReviewType
  <2>5. CASE ~ProcessStep(w)
    BY <1>0, <1>5, <2>5
    DEF WorkerStep, ClaimExpired, ClaimMaxIterations, ClaimMonitoring, ClaimLadder, Claim,
        WorkerAnnounce, WorkerFails, WorkerCrash, Unclaimed, ReviewType
  <2> QED BY <2>1, <2>2, <2>3, <2>4, <2>5 DEF ProcessStep
<1> QED BY <1>1, <1>2, <1>3, <1>4, <1>5

LEMMA OnBlockingStep ==
  ASSUME SharedInv, [TokensNext]_allVars PROVE OnBlocking'
<1> SUFFICES ASSUME tokens' # <<>> PROVE review'.oversight = "blocking"
  BY DEF OnBlocking
<1>0. TypeInv /\ MonitoringInv /\ review \in ReviewType
  BY DEF SharedInv, RowInv, TypeInv, TypeOK
<1>1. CASE LifecycleStep
  <2>1. tokens # <<>> /\ review'.status # "absent"
    BY <1>1 DEF LifecycleStep, Cascade
  <2>2. creator # "idle" /\ review.oversight = "blocking"
    BY <2>1 DEF SharedInv, TokensInv, GoneForGood, OnBlocking
  <2> QED BY <1>0, <1>1, <2>1, <2>2, OversightKept DEF LifecycleStep
<1>2. CASE tokens # <<>> /\ (LinkWrite \/ LetGo \/ UNCHANGED review)
  BY <1>0, <1>2, LinkWriteRow DEF SharedInv, OnBlocking, LetGo
<1>3. CASE LinkStep
  <2>1. CASE tokens # <<>>
    BY <1>2, <1>3, <2>1, LinkStepKind DEF vars
  <2>2. CASE tokens = <<>>
    <3>1. PICK preview \in BOOLEAN : Generate(preview)
      BY <1>3, <2>2 DEF LinkStep, Revoke, Reclaim, tokenVars
    <3>2. review.oversight = "blocking"
      BY <1>0, <3>1, OpenIsBlocking DEF Generate
    <3> QED BY <1>0, <3>1, <3>2 DEF Generate, ReviewType
  <2> QED BY <2>1, <2>2
<1>4. ASSUME NEW r \in Recipients, RecipientStep(r) PROVE review'.oversight = "blocking"
  <2>1. tokens # <<>>
    <3>1. tokens' = <<>> \/ tokens' = tokens \/ Consume(r) \/ UndoConsume(r)
      BY <1>4 DEF RecipientStep, Validate, Refused, RecipientLoad, RecipientCommit,
         RecipientRejected, RecipientAnnounce, RecipientAnnounceFails, RecipientCrash, tokenVars
    <3>2. tokens = <<>> => tokens' = <<>>
      BY <3>1 DEF Consume, Consumable, UndoConsume
    <3> QED BY <3>2
  <2>2. r \in Requests /\ creator # "idle" /\ review.oversight = "blocking"
        /\ review.status # "absent"
    BY <2>1, TokenConstants DEF SharedInv, TokensInv, GoneForGood, OnBlocking
  <2>3. \/ RequestStep(r) \/ UNCHANGED review
    BY <1>4 DEF RecipientStep, Validate, Consume, Refused, RecipientLoad, RecipientCommit,
         RecipientRejected, UndoConsume, RecipientAnnounce, RecipientAnnounceFails,
         RecipientCrash, RequestStep, CommitConflict, vars
  <2>4. RequestStep(r) => review'.status # "absent"
    BY <2>2, RequestStepStays DEF SharedInv, TokensInv, RowStays
  <2> QED BY <1>0, <2>2, <2>3, <2>4, OversightKept
<1>5. CASE UNCHANGED allVars
  BY <1>5 DEF allVars, vars, tokenVars, SharedInv, OnBlocking
<1> QED BY <1>1, <1>3, <1>4, <1>5 DEF TokensNext

LEMMA LinkWriteRowInv ==
  ASSUME RowInv, LinkWrite, TypeInv' PROVE RowInv' /\ GateKept
<1>1. TypeInv /\ MonitoringInv /\ SweepInv
  BY DEF RowInv
<1>2. MonitoringInv' /\ GateKept
  BY <1>1, LinkWriteRow, BlockingStep
<1>3. SweepInv'
  <2>1. RowKept
    BY <1>1, LinkWriteRow DEF RowKept
  <2> QED BY <1>1, <2>1, LinkWriteRow, RowKeptStep
<1> QED BY <1>2, <1>3 DEF RowInv

LEMMA LetGoRowInv ==
  ASSUME RowInv, LetGo, TypeInv' PROVE RowInv' /\ GateKept
<1>1. TypeInv /\ MonitoringInv /\ SweepInv
  BY DEF RowInv
<1>2. \A x \in Requests : req'[x].pc = "loaded" => req'[x] = req[x]
  BY DEF LetGo, IdleRequest, RowInv, TypeInv, TypeOK
<1>3. MonitoringInv' /\ GateKept
  BY <1>1, <1>2, KeepStep DEF LetGo
<1>4. SweepInv'
  BY <1>1 DEF LetGo, SweepInv, GoneIsUnclaimed, IdleSweepsNothing, SnapshotOK, Exists
<1> QED BY <1>3, <1>4 DEF RowInv

\* The guarantees of the lifecycle's rows survive its share links.
LEMMA SharedStep ==
  ASSUME SharedInv, [TokensNext]_allVars PROVE SharedInv' /\ [GateKept]_vars
<1>1. TokensInv' /\ OnBlocking' /\ TypeInv'
  BY NextTokensInv, OnBlockingStep DEF SharedInv, TokensInv
<1>2. RowInv' /\ [GateKept]_vars
  BY <1>1, StepKind, NextTypeInv, StepKeepsGate, NextSweepInv, LinkWriteRowInv, LetGoRowInv
  DEF SharedInv, RowInv
<1> QED BY <1>1, <1>2 DEF SharedInv

LEMMA SharedInvariant == TokensSpec => []SharedInv
<1>1. TokensInit => SharedInv
  <2> SUFFICES ASSUME TokensInit PROVE SharedInv
    OBVIOUS
  <2>1. MonitoringInv
    BY DEF TokensInit, Init, MonitoringInv, NothingBeforeCreate, MonitoringStatus,
           OnlyTheWindowSweep, LoadedOpen, Absent, IdleRequest, IdleWorker
  <2>2. SweepInv
    BY DEF TokensInit, Init, SweepInv, GoneIsUnclaimed, IdleSweepsNothing, SnapshotOK,
           IdleWorker, Absent
  <2>3. TokensInv
    BY InitTokensInv
  <2> QED BY <2>1, <2>2, <2>3, InitTypeInv DEF TokensInit, OnBlocking, RowInv, SharedInv
<1>2. SharedInv /\ [TokensNext]_allVars => SharedInv'
  BY SharedStep
<1> QED BY <1>1, <1>2, PTL DEF TokensSpec

\* Share links do not reopen a monitoring gate or move its outcome: it is decided
\* once although revoking writes pending whatever the status (revoke, reclaim).
THEOREM SharedGateDecidedOnce == TokensSpec => MonitoringDecidedOnce
<1>1. SharedInv /\ [TokensNext]_allVars => [GateKept]_vars
  BY SharedStep
<1>2. TokensSpec => [][GateKept]_vars
  BY <1>1, SharedInvariant, PTL DEF TokensSpec
<1> QED BY <1>2 DEF MonitoringDecidedOnce, GateKept

\* With share links as without them a decision that nobody took is the one that was
\* configured, taken after the deadline (processOne on a review awaiting a recipient).
THEOREM SharedNobodyDecidesEarly == TokensSpec => []UnattendedAsConfigured
<1>1. TokensInit => UnattendedAsConfigured
  BY DEF TokensInit, Init, Absent, UnattendedAsConfigured
<1>2. SharedInv /\ UnattendedAsConfigured /\ [TokensNext]_allVars => UnattendedAsConfigured'
  <2> SUFFICES ASSUME SharedInv, UnattendedAsConfigured, [TokensNext]_allVars
               PROVE  UnattendedAsConfigured'
    OBVIOUS
  <2>1. CASE [Next]_vars
    BY <2>1, UnattendedStep DEF SharedInv
  <2>2. CASE LinkWrite
    <3>1. OutcomeKept
      BY <2>2, LinkWriteRow DEF SharedInv, RowInv, OutcomeKept
    <3> QED BY <2>2, <3>1, OutcomeKeptStep DEF LinkWrite
  <2>3. CASE LetGo
    BY <2>3 DEF LetGo, UnattendedAsConfigured
  <2> QED BY <2>1, <2>2, <2>3, StepKind
<1> QED BY <1>1, <1>2, SharedInvariant, PTL DEF TokensSpec

\* The ladder is climbed one rung at a time while links hand the review out and back.
THEOREM SharedOneRungAtATime == TokensSpec => LadderClimbsOneRung
<1> DEFINE Climbs == review'.status # "absent" =>
               review'.ladder_index \in {review.ladder_index, review.ladder_index + 1}
<1>1. SharedInv /\ [TokensNext]_allVars => [Climbs]_vars
  <2> SUFFICES ASSUME SharedInv, [TokensNext]_allVars PROVE [Climbs]_vars
    OBVIOUS
  <2>1. CASE [Next]_vars
    BY <2>1, StepClimbs DEF SharedInv
  <2>2. CASE LinkWrite \/ LetGo
    BY <2>2, LinkWriteRow DEF SharedInv, RowInv, LetGo
  <2> QED BY <2>1, <2>2, StepKind
<1> HIDE DEF Climbs
<1>2. TokensSpec => [][Climbs]_vars
  BY <1>1, SharedInvariant, PTL DEF TokensSpec
<1> QED BY <1>2 DEF LadderClimbsOneRung, Climbs

\* The agent of a monitoring gate hears the outcome on record in the presence of share
\* links, and nothing about it before it is on record.
THEOREM SharedGateToldTruth == TokensSpec => []MonitoringToldTruth
<1>1. TokensInit => ToldInv
  BY DEF TokensInit, Init, Absent, IdleRequest, IdleWorker, ToldInv, SaysNothing
<1>2. SharedInv /\ ToldInv /\ [TokensNext]_allVars => ToldInv'
  <2> SUFFICES ASSUME SharedInv, ToldInv, [TokensNext]_allVars PROVE ToldInv'
    OBVIOUS
  <2>1. CASE [Next]_vars
    BY <2>1, ToldStep DEF SharedInv
  <2>2. CASE LinkWrite
    <3>1. creator' # "idle" /\ review'.oversight # "monitoring"
      BY <2>2, LinkWriteRow DEF SharedInv, RowInv
    <3> QED BY <3>1 DEF ToldInv
  <2>3. CASE LetGo
    <3>1. \A x \in Requests : req'[x].pc = "committed" => req'[x] = req[x]
      BY <2>3 DEF LetGo, IdleRequest, SharedInv, RowInv, TypeInv, TypeOK
    <3>2. TellsNoMore
      BY <2>3, <3>1 DEF LetGo, TellsNoMore
    <3> QED BY <2>3, <3>2, TellsNoMoreStep DEF LetGo
  <2> QED BY <2>1, <2>2, <2>3, StepKind
<1>3. ToldInv => MonitoringToldTruth
  BY DEF ToldInv, SaysWhatIsRecorded, MonitoringToldTruth
<1> QED BY <1>1, <1>2, <1>3, SharedInvariant, PTL DEF TokensSpec

-----------------------------------------------------------------------------
(***************************************************************************)
(* What a decision is about when recipients may decline: a version need    *)
(* not bring a payload any more, but a payload still brings a version.     *)
(***************************************************************************)
PayloadSeen ==
    review.status # "absent" =>
        \A r \in Requests : req[r].pc = "loaded" =>
            /\ req[r].version <= review.current_version
            /\ req[r].version = review.current_version => req[r].payload = review.payload

CoversPayload ==
    \A r \in Requests : req[r].pc = "loaded" /\ req'[r].pc = "committed" =>
        review'.status = "decided" /\ review'.approved_value = review'.payload

\* No request is loaded anew and the version changes whenever the payload does.
LEMMA SeenKept ==
  ASSUME TypeInv, PayloadSeen,
         review'.status # "absent" =>
             /\ review.status # "absent"
             /\ review'.current_version \in Nat
             /\ \/ /\ review'.current_version >= review.current_version
                   /\ review'.payload = review.payload
                \/ review'.current_version > review.current_version,
         \A r \in Requests : req'[r].pc = "loaded" => req'[r] = req[r]
  PROVE  PayloadSeen'
<1>1. \A r \in Requests : req[r].version \in Nat
  BY DEF TypeInv, TypeOK, RequestType
<1>2. review.current_version \in Nat
  BY DEF TypeInv, TypeOK, ReviewType
<1> QED BY <1>1, <1>2 DEF PayloadSeen

LEMMA RequestStepSeen ==
  ASSUME TypeInv, LoadedOpen, PayloadSeen, NEW r \in Requests, RequestStep(r)
  PROVE  PayloadSeen' /\ CoversPayload
<1>0. /\ review \in ReviewType /\ req \in [Requests -> RequestType]
      /\ review.current_version \in Nat
  BY DEF TypeInv, TypeOK, ReviewType
<1>1. \A x \in Requests : x # r => req'[x] = req[x]
  BY OthersKeepRequest
<1>2. CASE OpenPage(r) \/ LeavePage(r) \/ CommitConflict(r) \/ Announce(r) \/ RequestCrash(r)
  <2>1. review' = review
    BY <1>2 DEF OpenPage, LeavePage, CommitConflict, Announce, RequestCrash
  <2>2. req'[r].pc \notin {"loaded", "committed"}
    <3>1. CASE OpenPage(r)
      <4> DEFINE page == [IdleRequest EXCEPT !.pc = "open", !.version = review.current_version]
      <4>1. req'[r] = page
        BY <1>0, <3>1 DEF OpenPage
      <4>2. page.pc = "open"
        BY DEF IdleRequest
      <4> QED BY <4>1, <4>2
    <3>2. CASE ~OpenPage(r)
      BY <1>0, <1>2, <3>2 DEF LeavePage, CommitConflict, Announce, RequestCrash, IdleRequest
    <3> QED BY <3>1, <3>2
  <2> QED BY <1>0, <1>1, <2>1, <2>2 DEF PayloadSeen, CoversPayload
<1>3. ASSUME NEW a \in OfferedActions, LoadReview(r, a) PROVE PayloadSeen' /\ CoversPayload
  <2>1. /\ req'[r].pc = "loaded" /\ req'[r].version = review.current_version
        /\ req'[r].payload = review.payload /\ review' = review
    BY <1>0, <1>3 DEF LoadReview
  <2> QED BY <1>0, <1>1, <2>1 DEF PayloadSeen, CoversPayload
<1>4. CASE CommitAction(r)
  <2> DEFINE q == req[r]
  <2>1. /\ q.pc = "loaded" /\ review' = StateUpdate(review, q)
        /\ review.status # "absent" /\ review.current_version = q.version
    BY <1>4 DEF CommitAction, VersionStillCurrent, Exists
  <2>2. q.payload = review.payload
    BY <2>1 DEF PayloadSeen
  <2>3. /\ req'[r].pc # "loaded"
        /\ req'[r].pc = "committed" => Kind[q.action] = "decision"
    BY <1>0, <1>4 DEF CommitAction, IdleRequest
  <2> HIDE DEF q
  <2>4. review'.payload = review.payload /\ review'.current_version = review.current_version
    BY <1>0, <2>1 DEF StateUpdate, ReviewType
  <2>5. Kind[q.action] = "decision" =>
          review'.status = "decided" /\ review'.approved_value = q.payload
    BY <1>0, <2>1 DEF StateUpdate, ReviewType
  <2>6. PayloadSeen'
    BY <1>0, <1>1, <2>1, <2>3, <2>4, SeenKept
  <2> QED BY <1>1, <2>2, <2>3, <2>4, <2>5, <2>6 DEF CoversPayload
<1>5. ASSUME NEW d \in {"vetoed", "confirmed"}, ResolveMonitoring(r, d)
      PROVE  PayloadSeen' /\ CoversPayload
  <2>1. /\ review'.payload = review.payload /\ review'.current_version = review.current_version
        /\ review.status # "absent" /\ req[r].pc = "idle"
    BY <1>0, <1>5 DEF ResolveMonitoring, ReviewType
  <2> DEFINE done == [IdleRequest EXCEPT !.pc = "committed", !.decision = d]
  <2>2. req'[r] = done
    BY <1>0, <1>5 DEF ResolveMonitoring
  <2>3. done.pc = "committed"
    BY DEF IdleRequest
  <2> HIDE DEF done
  <2>4. PayloadSeen'
    BY <1>0, <1>1, <2>1, <2>2, <2>3, SeenKept
  <2> QED BY <1>1, <2>1, <2>4 DEF CoversPayload
<1> QED BY <1>2, <1>3, <1>4, <1>5 DEF RequestStep

LEMMA WorkerStepKeepsRow ==
  ASSUME RowInv, NEW w \in Workers, WorkerStep(w), review.status = "absent"
  PROVE  review'.status = "absent"
<1>0. review \in ReviewType /\ review.claimed_by = None
  BY DEF RowInv, TypeInv, TypeOK, SweepInv, GoneIsUnclaimed
<1>1. CASE ProcessStep(w)
  BY <1>0, <1>1, ConstantsAssumption
  DEF ProcessStep, ProcessOne, ProcessGuard, CloseMaxIterations, CloseGuard, Iterating,
      ConfirmOne, ConfirmGuard, PromoteOne, PromoteGuard, Finish
<1>2. CASE ~ProcessStep(w)
  BY <1>0, <1>2
  DEF WorkerStep, ClaimExpired, ClaimMaxIterations, ClaimMonitoring, ClaimLadder, Claim,
      WorkerAnnounce, WorkerFails, WorkerCrash, Unclaimed, Iterating, ReviewType
<1> QED BY <1>1, <1>2

LEMMA OtherStepSeen ==
  ASSUME RowInv, PayloadSeen,
         CreateStep \/ RowStep \/ TimeStep \/ \E w \in Workers : WorkerStep(w)
  PROVE  PayloadSeen' /\ CoversPayload
<1>0. /\ review \in ReviewType /\ TypeInv /\ MonitoringInv /\ worker \in [Workers -> WorkerType]
      /\ review.current_version \in Nat
  BY DEF RowInv, TypeInv, TypeOK, ReviewType
<1>1. req' = req /\ CoversPayload
  <2>1. req' = req
    BY DEF CreateStep, Create, AutoApprove, CreatorCrash, RowStep, UpdateVersion, Archive,
       Unarchive, Delete, Snooze, RevertChanges, TimeStep, DeadlinePasses, SnoozeElapses,
       ClaimAges, WorkerStep, ClaimExpired, ClaimMaxIterations, ClaimMonitoring, ClaimLadder,
       Claim, ProcessStep, ProcessOne, CloseMaxIterations, ConfirmOne, PromoteOne, Finish,
       WorkerAnnounce, WorkerFails, WorkerCrash
  <2> QED BY <2>1 DEF CoversPayload
<1>2. ASSUME NEW oversight \in {"blocking", "monitoring"}, NEW expires \in BOOLEAN,
             NEW auto \in BOOLEAN, NEW action \in Timeouts,
             Create(oversight, expires, action, auto)
      PROVE  PayloadSeen'
  <2>1. \A r \in Requests : req[r].pc # "loaded"
    BY <1>0, <1>2 DEF Create, MonitoringInv, NothingBeforeCreate
  <2> QED BY <1>1, <2>1 DEF PayloadSeen
<1>3. ASSUME review'.current_version = review.current_version,
             review'.payload = review.payload,
             review'.status # "absent" => review.status # "absent"
      PROVE  PayloadSeen'
  BY <1>0, <1>1, <1>3, SeenKept
<1>4. CASE AutoApprove \/ CreatorCrash
  BY <1>0, <1>1, <1>3, <1>4 DEF AutoApprove, CreatorCrash, Exists, ReviewType
<1>5. CASE RowStep
  <2>1. CASE UpdateVersion
    <3>1. review'.current_version = review.current_version + 1 /\ review.status # "absent"
      BY <1>0, <2>1 DEF UpdateVersion, Iterating, ReviewType
    <3> QED BY <1>0, <1>1, <3>1, SeenKept
  <2>2. CASE Delete
    BY <1>1, <2>2 DEF Delete, Absent, PayloadSeen
  <2>3. CASE RowStep /\ ~UpdateVersion /\ ~Delete
    BY <1>0, <1>1, <1>3, <2>3 DEF RowStep, Archive, Unarchive, Snooze, RevertChanges, Iterating,
       ReviewType
  <2> QED BY <1>5, <2>1, <2>2, <2>3
<1>6. CASE TimeStep
  BY <1>0, <1>1, <1>3, <1>6 DEF TimeStep, DeadlinePasses, SnoozeElapses, ClaimAges, ReviewType
<1>7. ASSUME NEW w \in Workers, WorkerStep(w) PROVE PayloadSeen'
  <2>0. review'.status # "absent" => review.status # "absent"
    BY <1>7, WorkerStepKeepsRow
  <2>1. review'.current_version = review.current_version /\ review'.payload = review.payload
    <3>1. CASE ProcessOne(w)
      BY <1>0, <3>1 DEF ProcessOne, Finish, Unclaimed, ReviewType
    <3>2. CASE CloseMaxIterations(w)
      BY <1>0, <3>2 DEF CloseMaxIterations, Finish, Unclaimed, ReviewType
    <3>3. CASE ConfirmOne(w)
      BY <1>0, <3>3 DEF ConfirmOne, Finish, Unclaimed, ReviewType
    <3>4. CASE PromoteOne(w)
      BY <1>0, <3>4 DEF PromoteOne, Finish, Unclaimed, ReviewType
    <3>5. CASE ~ProcessStep(w)
      BY <1>0, <1>7, <3>5
      DEF WorkerStep, ClaimExpired, ClaimMaxIterations, ClaimMonitoring, ClaimLadder, Claim,
          WorkerAnnounce, WorkerFails, WorkerCrash, Unclaimed, ReviewType
    <3> QED BY <3>1, <3>2, <3>3, <3>4, <3>5 DEF ProcessStep
  <2> QED BY <1>3, <2>0, <2>1
<1> QED BY <1>1, <1>2, <1>4, <1>5, <1>6, <1>7 DEF CreateStep

LEMMA SeenStep ==
  ASSUME SharedInv, PayloadSeen, [TokensNext]_allVars
  PROVE  PayloadSeen' /\ [CoversPayload]_vars
<1>0. TypeInv /\ RowInv /\ LoadedOpen /\ review \in ReviewType /\ review'.current_version \in Nat
  <2>1. TypeInv'
    BY SharedStep DEF SharedInv, RowInv
  <2> QED BY <2>1 DEF SharedInv, RowInv, MonitoringInv, TypeInv, TypeOK, ReviewType
<1>1. CASE Next
  <2>1. CASE \E r \in Requests : RequestStep(r)
    BY <1>0, <2>1, RequestStepSeen
  <2>2. CASE CreateStep \/ RowStep \/ TimeStep \/ \E w \in Workers : WorkerStep(w)
    BY <1>0, <2>2, OtherStepSeen
  <2> QED BY <1>1, <2>1, <2>2 DEF Next
<1>2. CASE UNCHANGED vars
  BY <1>2 DEF vars, PayloadSeen
<1>3. CASE LinkWrite
  <2>1. PayloadSeen'
    BY <1>0, <1>3, LinkWriteRow, SeenKept
  <2> QED BY <1>3, <2>1 DEF LinkWrite, CoversPayload
<1>4. CASE LetGo
  <2>1. \A x \in Requests : req'[x] = req[x] \/ req'[x].pc = "idle"
    BY <1>0, <1>4 DEF LetGo, IdleRequest, TypeInv, TypeOK
  <2> QED BY <1>4, <2>1 DEF LetGo, CoversPayload, PayloadSeen
<1> QED BY <1>1, <1>2, <1>3, <1>4, StepKind

\* A reviewer's or a recipient's decision covers the payload on record although a
\* recipient who declines counts the version up without a new payload (the guard on
\* current_version, consumeAsRecipientAction).
THEOREM SharedDecisionsCoverPayload == TokensSpec => DecisionCoversCurrentPayload
<1> DEFINE Covered == \A r \in Requests :
               req[r].pc = "loaded" /\ req'[r].pc = "committed" =>
                 /\ review'.status = "decided"
                 /\ review'.approved_value = review'.payload
<1>1. TokensInit => PayloadSeen
  BY DEF TokensInit, Init, Absent, PayloadSeen
<1>2. SharedInv /\ PayloadSeen /\ [TokensNext]_allVars => PayloadSeen' /\ [Covered]_vars
  BY SeenStep DEF CoversPayload
<1> HIDE DEF Covered
<1>3. TokensSpec => [][Covered]_vars
  BY <1>1, <1>2, SharedInvariant, PTL DEF TokensSpec
<1> QED BY <1>3 DEF DecisionCoversCurrentPayload, Covered
=============================================================================
