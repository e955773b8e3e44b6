------------------------- MODULE ChainEngineProofs -------------------------
(***************************************************************************)
(* Proofs about ChainEngine for every value of its constants.              *)
(***************************************************************************)
EXTENDS ChainEngine, FiniteSetTheorems, TLAPS

StepType == [status : {"pending", "active", "approved", "rejected", "skipped"},
             review : 0..MaxReviews]
ReviewType == [step : Steps,
               status : {"open", "decided", "expired", "archived", "gone"},
               decision : {"none", "approved", "rejected"}]
EngineType == [pc : {"rest", "claim", "claimed", "complete", "reject", "reset",
                     "resetTarget", "insert", "flip", "close"},
               step : 0..Last, review : 0..MaxReviews,
               decision : {"none", "approved", "rejected"}]

\* A review that ended with nothing decided: nobody may be waiting for it.
Lapsed(i) == reviews[i].status \in {"expired", "archived"} /\ reviews[i].decision = "none"

\* A review that is being materialised: no step points to it yet.
Making(h) == engine[h].pc \in {"flip", "close"}

BoundsOK == Len(reviews) <= MaxReviews /\ faults \in Nat

NothingBeforeRun ==
    run = "absent" =>
        /\ reviews = <<>> /\ events = {} /\ halts = {}
        /\ \A h \in Engine : engine[h] = Rest
        /\ \A n \in Steps : steps[n].status = "pending"

EngineOK ==
    /\ \A h \in Engine :
         /\ engine[h].pc # "rest" => engine[h].step \in Steps
         /\ engine[h].pc \in {"claim", "claimed"} => engine[h].decision # "none"
         /\ engine[h].pc \in {"reset", "resetTarget"} => Policy[engine[h].step] = "branch"
         /\ Making(h) => /\ engine[h].review \in DOMAIN reviews
                         /\ reviews[engine[h].review].step = engine[h].step
                         /\ \A n \in Steps : steps[n].review # engine[h].review
    /\ \A h, k \in Engine :
         Making(h) /\ Making(k) /\ h # k => engine[h].review # engine[k].review

ReviewsOK ==
    /\ \A i \in DOMAIN reviews :
         reviews[i].status = "decided" \/ i \in events => reviews[i].decision # "none"
    /\ run = "active" =>
         \A i \in DOMAIN reviews : Lapsed(i) =>
            /\ \A n \in Steps : steps[n].review # i
            /\ \A h \in Engine : engine[h].pc = "flip" => engine[h].review # i

\* The two halves of TypeOK.
Typed ==
    /\ run \in {"absent", "active", "completed", "rejected", "aborted"}
    /\ steps \in [Steps -> StepType]
    /\ reviews \in Seq(ReviewType)
    /\ engine \in [Engine -> EngineType]
    /\ events \subseteq DOMAIN reviews /\ halts \subseteq Steps

LinksOK ==
    \A n \in Steps : steps[n].review # NoReview =>
        /\ steps[n].review \in DOMAIN reviews
        /\ steps[n].status # "pending"
        /\ reviews[steps[n].review].step = n

TypeInv == Typed /\ LinksOK /\ BoundsOK /\ NothingBeforeRun /\ EngineOK /\ ReviewsOK

LEMMA TypeInvType == TypeInv => TypeOK
  BY DEF TypeInv, TypeOK, Typed, LinksOK, StepType, ReviewType, EngineType

LEMMA StepsType == Last \in Nat /\ 1 \in Steps /\ Last \in Steps /\ Steps \subseteq 0..Last
  BY ChainConstants DEF Steps

LEMMA RestType == Rest \in EngineType /\ Rest.pc = "rest"
  BY ChainConstants DEF Rest, EngineType

LEMMA InitTypeInv == Init => TypeInv
<1> SUFFICES ASSUME Init PROVE TypeInv
  OBVIOUS
<1>1. [status |-> "pending", review |-> NoReview] \in StepType
  BY ChainConstants DEF StepType, NoReview
<1>2. Typed /\ LinksOK
  BY <1>1, RestType DEF Init, Typed, LinksOK, ReviewType
<1>3. BoundsOK /\ NothingBeforeRun /\ EngineOK /\ ReviewsOK
  BY RestType, ChainConstants
  DEF Init, BoundsOK, NothingBeforeRun, EngineOK, ReviewsOK, Making, Lapsed
<1> QED BY <1>2, <1>3 DEF TypeInv

-----------------------------------------------------------------------------
(***************************************************************************)
(* Typing, by the variables a step writes.                                 *)
(***************************************************************************)
\* The engine moves, the steps keep their reviews, and the reviews are left alone.
LEMMA EngineMoves ==
  ASSUME TypeInv, run' \in {"active", "completed", "rejected", "aborted"},
         run' = "active" => run = "active",
         steps' \in [Steps -> StepType],
         \A n \in Steps : \/ steps'[n].review = NoReview
                          \/ /\ steps'[n].review = steps[n].review
                             /\ steps'[n].status # "pending" \/ steps'[n] = steps[n],
         engine' \in [Engine -> EngineType],
         \A h \in Engine :
            \/ engine'[h] = engine[h]
            \/ engine'[h].pc = "rest"
            \/ /\ ~Making(h)' /\ engine'[h].step \in Steps
               /\ engine'[h].pc \in {"claim", "claimed"} => engine'[h].decision # "none"
               /\ engine'[h].pc \in {"reset", "resetTarget"} => Policy[engine'[h].step] = "branch"
            \/ /\ engine[h].pc = "flip" /\ engine'[h].pc = "close"
               /\ engine'[h].step = engine[h].step /\ engine'[h].review = engine[h].review,
         events' \subseteq DOMAIN reviews,
         \A i \in events' : i \in events \/ reviews[i].decision # "none",
         halts' \subseteq Steps, reviews' = reviews, faults' \in Nat
  PROVE  TypeInv'
<1>0. Typed /\ LinksOK
  BY DEF TypeInv
<1>1. Typed'
  BY <1>0 DEF Typed
<1>2. LinksOK'
  BY <1>0 DEF LinksOK
<1>3. BoundsOK' /\ NothingBeforeRun'
  BY DEF TypeInv, BoundsOK, NothingBeforeRun
<1>4. \A n \in Steps : steps'[n].review = NoReview \/ steps'[n].review = steps[n].review
  OBVIOUS
<1>5. \A h \in Engine : Making(h)' => /\ Making(h) /\ engine'[h].step = engine[h].step
                                      /\ engine'[h].review = engine[h].review
  BY DEF Making
<1>6. \A h \in Engine : Making(h) => engine[h].review # NoReview
  BY <1>0 DEF TypeInv, EngineOK, Typed, NoReview
<1>7. EngineOK'
  <2>1. \A h \in Engine : engine'[h].pc # "rest" => engine'[h].step \in Steps
    BY DEF TypeInv, EngineOK
  <2>2. \A h \in Engine :
          /\ engine'[h].pc \in {"claim", "claimed"} => engine'[h].decision # "none"
          /\ engine'[h].pc \in {"reset", "resetTarget"} => Policy[engine'[h].step] = "branch"
    BY DEF TypeInv, EngineOK
  <2>3. \A h \in Engine : Making(h)' =>
          /\ engine'[h].review \in DOMAIN reviews
          /\ reviews[engine'[h].review].step = engine'[h].step
          /\ \A n \in Steps : steps'[n].review # engine'[h].review
    BY <1>4, <1>5, <1>6 DEF TypeInv, EngineOK
  <2>4. \A h, k \in Engine : Making(h)' /\ Making(k)' /\ h # k =>
                               engine'[h].review # engine'[k].review
    BY <1>5 DEF TypeInv, EngineOK
  <2> QED BY <2>1, <2>2, <2>3, <2>4 DEF EngineOK
<1>8. ReviewsOK'
  <2>1. \A i \in DOMAIN reviews :
           reviews[i].status = "decided" \/ i \in events' => reviews[i].decision # "none"
    BY DEF TypeInv, ReviewsOK
  <2>2. \A h \in Engine : engine'[h].pc = "flip" =>
            engine[h].pc = "flip" /\ engine'[h].review = engine[h].review
    BY DEF Making
  <2>3. \A i \in DOMAIN reviews : i # NoReview
    BY <1>0 DEF Typed, NoReview
  <2>4. run' = "active" =>
          \A i \in DOMAIN reviews : Lapsed(i) =>
             /\ \A n \in Steps : steps'[n].review # i
             /\ \A h \in Engine : engine'[h].pc = "flip" => engine'[h].review # i
    BY <1>4, <2>2, <2>3 DEF TypeInv, ReviewsOK
  <2> QED BY <2>1, <2>4 DEF ReviewsOK, Lapsed
<1> QED BY <1>1, <1>2, <1>3, <1>7, <1>8 DEF TypeInv

\* Reviews change in place; steps lose reviews and are not made pending.
LEMMA ReviewsMove ==
  ASSUME TypeInv, run # "absent", run' = run \/ run' = "aborted",
         steps' \in [Steps -> StepType],
         \A n \in Steps : \/ steps'[n].review = NoReview
                          \/ /\ steps'[n].review = steps[n].review
                             /\ steps'[n].status # "pending" \/ steps'[n] = steps[n],
         engine' \in [Engine -> EngineType],
         \A h \in Engine : engine'[h] = engine[h] \/ engine'[h].pc = "rest",
         reviews' \in Seq(ReviewType), Len(reviews') = Len(reviews),
         \A i \in DOMAIN reviews : reviews'[i].step = reviews[i].step,
         \A i \in DOMAIN reviews :
            reviews'[i].status = "decided" \/ i \in events' => reviews'[i].decision # "none",
         run' = "active" => \A i \in DOMAIN reviews : Lapsed(i)' =>
            \/ Lapsed(i)
            \/ /\ \A n \in Steps : steps'[n].review # i
               /\ \A h \in Engine : engine'[h].pc = "flip" => engine'[h].review # i,
         events' \subseteq DOMAIN reviews, halts' = halts, faults' = faults
  PROVE  TypeInv'
<1>0. Typed /\ LinksOK /\ DOMAIN reviews' = DOMAIN reviews
  BY DEF TypeInv, Typed
<1>1. Typed'
  BY <1>0 DEF Typed
<1>2. LinksOK'
  BY <1>0 DEF LinksOK
<1>3. BoundsOK' /\ NothingBeforeRun'
  BY DEF TypeInv, BoundsOK, NothingBeforeRun
<1>4. \A n \in Steps : steps'[n].review = NoReview \/ steps'[n].review = steps[n].review
  OBVIOUS
<1>5. \A h \in Engine : Making(h)' => Making(h) /\ engine'[h] = engine[h]
  BY DEF Making
<1>6. \A h \in Engine : Making(h) => engine[h].review # NoReview
  BY <1>0 DEF TypeInv, EngineOK, Typed, NoReview
<1>7. EngineOK'
  <2>1. \A h \in Engine : engine'[h].pc # "rest" => engine'[h].step \in Steps
    BY DEF TypeInv, EngineOK
  <2>2. \A h \in Engine :
          /\ engine'[h].pc \in {"claim", "claimed"} => engine'[h].decision # "none"
          /\ engine'[h].pc \in {"reset", "resetTarget"} => Policy[engine'[h].step] = "branch"
    BY DEF TypeInv, EngineOK
  <2>3. \A h \in Engine : Making(h)' =>
          /\ engine'[h].review \in DOMAIN reviews'
          /\ reviews'[engine'[h].review].step = engine'[h].step
          /\ \A n \in Steps : steps'[n].review # engine'[h].review
    BY <1>0, <1>4, <1>5, <1>6 DEF TypeInv, EngineOK
  <2>4. \A h, k \in Engine : Making(h)' /\ Making(k)' /\ h # k =>
                               engine'[h].review # engine'[k].review
    BY <1>5 DEF TypeInv, EngineOK
  <2> QED BY <2>1, <2>2, <2>3, <2>4 DEF EngineOK
<1>8. ReviewsOK'
  <2>1. \A i \in DOMAIN reviews : i # NoReview
    BY <1>0 DEF Typed, NoReview
  <2>2. \A h \in Engine : engine'[h].pc = "flip" => engine'[h] = engine[h]
    OBVIOUS
  <2>3. run' = "active" =>
          \A i \in DOMAIN reviews : Lapsed(i)' =>
             /\ \A n \in Steps : steps'[n].review # i
             /\ \A h \in Engine : engine'[h].pc = "flip" => engine'[h].review # i
    BY <1>4, <2>1, <2>2 DEF TypeInv, ReviewsOK
  <2> QED BY <1>0, <2>3 DEF ReviewsOK
<1> QED BY <1>1, <1>2, <1>3, <1>7, <1>8 DEF TypeInv

LEMMA ChangeReview ==
  ASSUME NEW s \in Seq(ReviewType), NEW i \in DOMAIN s, NEW r \in ReviewType
  PROVE  /\ [s EXCEPT ![i] = r] \in Seq(ReviewType)
         /\ Len([s EXCEPT ![i] = r]) = Len(s)
         /\ [s EXCEPT ![i] = r][i] = r
         /\ \A j \in DOMAIN s : j # i => [s EXCEPT ![i] = r][j] = s[j]
  OBVIOUS

\* One review changes.
LEMMA OneReviewMoves ==
  ASSUME TypeInv, NEW i \in DOMAIN reviews, NEW r \in ReviewType,
         reviews' = [reviews EXCEPT ![i] = r], r.step = reviews[i].step,
         r.status = "decided" \/ i \in events' => r.decision # "none",
         r.status \in {"expired", "archived"} /\ r.decision = "none" => Lapsed(i),
         run' = run, steps' \in [Steps -> StepType],
         \A n \in Steps : \/ steps'[n] = steps[n]
                          \/ steps'[n].review = NoReview,
         engine' = engine, events' \subseteq events \cup {i}, halts' = halts, faults' = faults
  PROVE  TypeInv'
<1>1. reviews \in Seq(ReviewType) /\ events \subseteq DOMAIN reviews /\ engine \in [Engine -> EngineType]
  BY DEF TypeInv, Typed
<1>2. /\ reviews' \in Seq(ReviewType) /\ Len(reviews') = Len(reviews)
      /\ reviews'[i] = r /\ \A j \in DOMAIN reviews : j # i => reviews'[j] = reviews[j]
  BY <1>1, ChangeReview
<1>3. run # "absent"
  BY DEF TypeInv, NothingBeforeRun
<1>4. \A j \in DOMAIN reviews : Lapsed(j)' => Lapsed(j)
  BY <1>2 DEF Lapsed
<1>5. \A j \in DOMAIN reviews :
        reviews'[j].status = "decided" \/ j \in events' => reviews'[j].decision # "none"
  BY <1>2 DEF TypeInv, ReviewsOK
<1> QED BY <1>1, <1>2, <1>3, <1>4, <1>5, ReviewsMove

\* The status of one review changes.
LEMMA StatusMoves ==
  ASSUME TypeInv, NEW i \in DOMAIN reviews,
         NEW s \in {"decided", "expired", "archived", "gone"},
         reviews' = [reviews EXCEPT ![i].status = s],
         s = "decided" => reviews[i].decision # "none",
         s \in {"expired", "archived"} /\ reviews[i].decision = "none" => Lapsed(i),
         run' = run, steps' \in [Steps -> StepType],
         \A n \in Steps : \/ steps'[n] = steps[n]
                          \/ steps'[n].review = NoReview,
         engine' = engine, events' = events, halts' = halts, faults' = faults
  PROVE  TypeInv'
<1> DEFINE r == [reviews[i] EXCEPT !.status = s]
<1>1. reviews \in Seq(ReviewType)
  BY DEF TypeInv, Typed
<1>2. reviews[i] \in ReviewType
  BY <1>1
<1>3. reviews' = [reviews EXCEPT ![i] = r]
  OBVIOUS
<1>4. /\ r \in ReviewType /\ r.step = reviews[i].step /\ r.status = s
      /\ r.decision = reviews[i].decision
  BY <1>2 DEF ReviewType
<1>5. i \in events => reviews[i].decision # "none"
  BY DEF TypeInv, ReviewsOK
<1> HIDE DEF r
<1> QED BY <1>3, <1>4, <1>5, OneReviewMoves

LEMMA ReviewStepType ==
  ASSUME TypeInv, ReviewStep PROVE TypeInv'
<1>0. Typed /\ reviews \in Seq(ReviewType) /\ steps \in [Steps -> StepType]
  BY DEF TypeInv, Typed
<1>1. ASSUME NEW i \in DOMAIN reviews, NEW decision \in {"approved", "rejected"},
             Decide(i, decision)
      PROVE  TypeInv'
  <2> DEFINE r == [[reviews[i] EXCEPT !.status = "decided"] EXCEPT !.decision = decision]
  <2>1. /\ reviews' = [reviews EXCEPT ![i] = r] /\ events' = events \cup {i}
        /\ UNCHANGED <<run, steps, engine, halts, faults>>
    BY <1>1, <1>0 DEF Decide, Typed, ReviewType
  <2>2. reviews[i] \in ReviewType
    BY <1>0 DEF Typed
  <2>3. r \in ReviewType /\ r.step = reviews[i].step /\ r.status = "decided" /\ r.decision = decision
    BY <2>2 DEF ReviewType
  <2> HIDE DEF r
  <2> QED BY <1>0, <2>1, <2>3, OneReviewMoves DEF Typed
<1>2. ASSUME NEW i \in DOMAIN reviews, Archive(i) PROVE TypeInv'
  <2>1. /\ reviews' = [reviews EXCEPT ![i].status = "archived"]
        /\ reviews[i].status \in {"decided", "expired"}
        /\ UNCHANGED <<run, steps, engine, events, halts, faults>>
    BY <1>2 DEF Archive, Filed
  <2>2. reviews[i].decision = "none" => Lapsed(i)
    BY <2>1 DEF TypeInv, ReviewsOK, Lapsed
  <2> QED BY <1>0, <2>1, <2>2, StatusMoves
<1>3. ASSUME NEW i \in DOMAIN reviews, Unarchive(i) PROVE TypeInv'
  <2> DEFINE s == IF reviews[i].decision # "none" THEN "decided" ELSE "expired"
  <2>1. /\ reviews' = [reviews EXCEPT ![i].status = s]
        /\ reviews[i].status = "archived"
        /\ UNCHANGED <<run, steps, engine, events, halts, faults>>
    BY <1>3 DEF Unarchive, bounds
  <2>2. reviews[i].decision = "none" => Lapsed(i)
    BY <2>1 DEF Lapsed
  <2>3. s \in {"decided", "expired"} /\ (s = "decided" => reviews[i].decision # "none")
    OBVIOUS
  <2> HIDE DEF s
  <2> QED BY <1>0, <2>1, <2>2, <2>3, StatusMoves
<1>4. ASSUME NEW i \in DOMAIN reviews, Delete(i) PROVE TypeInv'
  <2>1. /\ reviews' = [reviews EXCEPT ![i].status = "gone"]
        /\ steps' = [n \in Steps |->
                       IF steps[n].review = i THEN [steps[n] EXCEPT !.review = NoReview]
                                              ELSE steps[n]]
        /\ UNCHANGED <<run, engine, events, halts, faults>>
    BY <1>0, <1>4 DEF Delete
  <2>2. ASSUME NEW n \in Steps
        PROVE  /\ steps'[n] \in StepType
               /\ steps'[n] = steps[n] \/ steps'[n].review = NoReview
    <3>1. steps[n] \in StepType
      BY <1>0
    <3>2. CASE steps[n].review = i
      <4>1. steps'[n] = [steps[n] EXCEPT !.review = NoReview]
        BY <2>1, <3>2
      <4> QED BY <3>1, <4>1, ChainConstants DEF StepType, NoReview
    <3>3. CASE steps[n].review # i
      BY <2>1, <3>1, <3>3
    <3> QED BY <3>2, <3>3
  <2>3. steps' \in [Steps -> StepType]
    BY <2>1, <2>2
  <2> QED BY <2>1, <2>2, <2>3, StatusMoves
<1> QED BY <1>1, <1>2, <1>3, <1>4 DEF ReviewStep

LEMMA Underway ==
  ASSUME TypeInv
  PROVE  /\ \A h \in Engine : engine[h].pc # "rest" => run # "absent" /\ engine[h].step \in Steps
         /\ \A i \in events : run # "absent" /\ reviews[i].decision # "none"
         /\ \A n \in halts : run # "absent"
  BY RestType DEF TypeInv, NothingBeforeRun, EngineOK, ReviewsOK, Typed

LEMMA HandleType ==
  ASSUME TypeInv, NEW h \in Handlers, NEW i \in events, Handle(h, i) PROVE TypeInv'
<1>0. Typed /\ BoundsOK /\ h \in Engine
  BY DEF TypeInv, Engine
<1>1. i \in DOMAIN reviews /\ reviews[i] \in ReviewType /\ i \in 0..MaxReviews
  <2>1. i \in DOMAIN reviews /\ reviews \in Seq(ReviewType)
    BY <1>0 DEF Typed
  <2>2. Len(reviews) \in Nat /\ Len(reviews) <= MaxReviews /\ i \in 1..Len(reviews)
    BY <1>0, <2>1 DEF BoundsOK
  <2> QED BY <2>1, <2>2, ChainConstants
<1>2. run # "absent" /\ reviews[i].decision # "none"
  BY Underway
<1> DEFINE e == [pc |-> "claim", step |-> reviews[i].step, review |-> i,
                 decision |-> reviews[i].decision]
<1>3. e \in EngineType /\ e.pc = "claim" /\ e.decision # "none" /\ e.step \in Steps
  BY <1>1, <1>2, StepsType DEF EngineType, ReviewType
<1>4. /\ UNCHANGED <<run, steps, reviews, halts, faults>> /\ events' = events \ {i}
      /\ engine' = engine \/ engine' = [engine EXCEPT ![h] = e]
  BY <1>1 DEF Handle, bounds
<1> HIDE DEF e
<1>5. /\ engine' \in [Engine -> EngineType]
      /\ \A k \in Engine : engine'[k] = engine[k] \/ engine'[k] = e
  BY <1>0, <1>3, <1>4 DEF Typed
<1>6. \A k \in Engine : \/ engine'[k] = engine[k]
                        \/ /\ ~Making(k)' /\ engine'[k].step \in Steps
                           /\ engine'[k].pc \in {"claim", "claimed"} => engine'[k].decision # "none"
                           /\ engine'[k].pc \in {"reset", "resetTarget"} => Policy[engine'[k].step] = "branch"
  BY <1>3, <1>5 DEF Making
<1>7. /\ run' \in {"active", "completed", "rejected", "aborted"} /\ (run' = "active" => run = "active")
      /\ steps' \in [Steps -> StepType] /\ events' \subseteq DOMAIN reviews /\ halts' \subseteq Steps
      /\ \A j \in events' : j \in events
      /\ reviews' = reviews /\ faults' \in Nat
      /\ \A n \in Steps : steps'[n] = steps[n]
  BY <1>0, <1>2, <1>4 DEF Typed, BoundsOK
<1>8. \A n \in Steps : \/ steps'[n].review = NoReview
                       \/ /\ steps'[n].review = steps[n].review
                          /\ steps'[n].status # "pending" \/ steps'[n] = steps[n]
  BY <1>7
<1> QED BY <1>5, <1>6, <1>7, <1>8, EngineMoves

\* One invocation moves on or ends, and it is not about to materialise.
LEMMA OneEngineMoves ==
  ASSUME TypeInv, NEW h \in Engine, engine[h].pc # "rest",
         NEW e \in EngineType, engine' = [engine EXCEPT ![h] = e],
         \/ e.pc = "rest"
         \/ /\ e.pc \notin {"flip", "close"} /\ e.step \in Steps
            /\ e.pc \in {"claim", "claimed"} => e.decision # "none"
            /\ e.pc \in {"reset", "resetTarget"} => Policy[e.step] = "branch"
         \/ /\ engine[h].pc = "flip" /\ e.pc = "close"
            /\ e.step = engine[h].step /\ e.review = engine[h].review,
         run' \in {run, "completed", "rejected"},
         steps' \in [Steps -> StepType],
         \A n \in Steps : \/ steps'[n].review = NoReview
                          \/ /\ steps'[n].review = steps[n].review
                             /\ steps'[n].status # "pending" \/ steps'[n] = steps[n],
         events' = events, halts' = halts, reviews' = reviews, faults' \in Nat
  PROVE  TypeInv'
<1>0. Typed
  BY DEF TypeInv
<1>1. run # "absent"
  BY Underway
<1>2. /\ engine' \in [Engine -> EngineType] /\ engine'[h] = e
      /\ \A k \in Engine : k # h => engine'[k] = engine[k]
  BY <1>0 DEF Typed
<1>3. \A k \in Engine :
            \/ engine'[k] = engine[k]
            \/ engine'[k].pc = "rest"
            \/ /\ ~Making(k)' /\ engine'[k].step \in Steps
               /\ engine'[k].pc \in {"claim", "claimed"} => engine'[k].decision # "none"
               /\ engine'[k].pc \in {"reset", "resetTarget"} => Policy[engine'[k].step] = "branch"
            \/ /\ engine[k].pc = "flip" /\ engine'[k].pc = "close"
               /\ engine'[k].step = engine[k].step /\ engine'[k].review = engine[k].review
  BY <1>2 DEF Making
<1>4. /\ run' \in {"active", "completed", "rejected", "aborted"} /\ (run' = "active" => run = "active")
      /\ events' \subseteq DOMAIN reviews /\ halts' \subseteq Steps
      /\ \A j \in events' : j \in events
  BY <1>0, <1>1 DEF Typed
<1> QED BY <1>2, <1>3, <1>4, EngineMoves

LEMMA ProceedType ==
  ASSUME TypeInv, NEW h \in Engine,
         \/ Claim(h) \/ Recheck(h) \/ CompleteRun(h) \/ RejectRun(h)
         \/ BranchResetSteps(h) \/ BranchResetTarget(h)
  PROVE  TypeInv'
<1>0. /\ Typed /\ engine[h] \in EngineType /\ steps \in [Steps -> StepType]
      /\ engine \in [Engine -> EngineType] /\ faults \in Nat
  BY DEF TypeInv, Typed, BoundsOK
<1>1. engine[h].pc # "rest" /\ engine[h].step \in Steps
  <2>1. engine[h].pc # "rest"
    BY DEF Claim, Recheck, CompleteRun, RejectRun, BranchResetSteps, BranchResetTarget
  <2> QED BY <2>1, Underway
<1>2. CASE Claim(h)
  <2>1. /\ UNCHANGED <<run, reviews, events, halts, faults>>
        /\ engine[h].decision \in {"approved", "rejected"}
    BY <1>0, <1>2 DEF Claim, bounds, TypeInv, EngineOK, EngineType
  <2>2. CASE Claimable(engine[h].step)
    <3> DEFINE e == [engine[h] EXCEPT !.pc = "claimed"]
               s == [steps[engine[h].step] EXCEPT !.status = engine[h].decision]
    <3>1. /\ engine' = [engine EXCEPT ![h] = e]
          /\ steps' = [steps EXCEPT ![engine[h].step] = s]
      BY <1>0, <1>1, <1>2, <2>2 DEF Claim, Goto
    <3>2. e \in EngineType /\ e.pc = "claimed" /\ e.step = engine[h].step
          /\ e.decision = engine[h].decision
      BY <1>0 DEF EngineType
    <3>3. s \in StepType /\ s.status # "pending" /\ s.review = steps[engine[h].step].review
      BY <1>0, <1>1, <2>1 DEF StepType
    <3> HIDE DEF e, s
    <3>4. /\ steps' \in [Steps -> StepType]
          /\ \A n \in Steps : \/ steps'[n] = steps[n]
                              \/ /\ steps'[n].review = steps[n].review
                                 /\ steps'[n].status # "pending"
      BY <1>0, <1>1, <3>1, <3>3
    <3> QED BY <1>0, <1>1, <2>1, <3>1, <3>2, <3>4, OneEngineMoves
  <2>3. CASE ~Claimable(engine[h].step)
    <3>1. engine' = [engine EXCEPT ![h] = Rest] /\ steps' = steps
      BY <1>2, <2>3 DEF Claim, Leave
    <3> QED BY <1>0, <1>1, <2>1, <3>1, RestType, OneEngineMoves
  <2> QED BY <2>2, <2>3
<1>3. CASE Recheck(h)
  <2>1. UNCHANGED <<run, steps, reviews, events, halts, faults>>
    BY <1>3 DEF Recheck, bounds
  <2>2. CASE run = "active"
    <3> DEFINE e == Consequence(h)
    <3>1. engine' = [engine EXCEPT ![h] = e]
      BY <1>3, <2>2 DEF Recheck
    <3>2. /\ e \in EngineType /\ e.step \in Steps
          /\ e.pc \in {"complete", "insert", "reset", "reject"}
          /\ e.pc = "reset" => Policy[e.step] = "branch"
      <4>1. CASE Forward(h) /\ engine[h].step = Last
        BY <1>0, <1>1, <4>1 DEF Consequence, EngineType
      <4>2. CASE Forward(h) /\ engine[h].step # Last
        <5>1. engine[h].step + 1 \in Steps /\ engine[h].step + 1 \in 0..Last
          BY <1>1, <4>2, ChainConstants DEF Steps
        <5>2. e = [engine[h] EXCEPT !.pc = "insert", !.step = engine[h].step + 1]
          BY <1>0, <4>2 DEF Consequence, EngineType
        <5> QED BY <1>0, <5>1, <5>2 DEF EngineType
      <4>3. CASE ~Forward(h) /\ Policy[engine[h].step] = "branch"
        BY <1>0, <1>1, <4>3 DEF Consequence, EngineType
      <4>4. CASE ~Forward(h) /\ Policy[engine[h].step] # "branch"
        BY <1>0, <1>1, <4>4 DEF Consequence, EngineType
      <4> QED BY <4>1, <4>2, <4>3, <4>4
    <3>3. e.pc # "insert" \/ e.pc = "insert"
      OBVIOUS
    <3> HIDE DEF e
    <3> QED BY <1>0, <1>1, <2>1, <3>1, <3>2, OneEngineMoves
  <2>3. CASE run # "active"
    <3>1. engine' = [engine EXCEPT ![h] = Rest]
      BY <1>3, <2>3 DEF Recheck
    <3> QED BY <1>0, <1>1, <2>1, <3>1, RestType, OneEngineMoves
  <2> QED BY <2>2, <2>3
<1>4. CASE CompleteRun(h) \/ RejectRun(h)
  <2>1. /\ UNCHANGED <<steps, reviews, events, halts, faults>>
        /\ run' \in {run, "completed", "rejected"}
        /\ engine' = [engine EXCEPT ![h] = Rest]
    BY <1>4 DEF CompleteRun, RejectRun, bounds, Leave
  <2> QED BY <1>0, <1>1, <2>1, RestType, OneEngineMoves
<1>5. ASSUME NEW range,
             steps' = Reset(range) PROVE
               /\ steps' \in [Steps -> StepType]
               /\ \A n \in Steps : steps'[n] = steps[n] \/ steps'[n].review = NoReview
  <2>1. [status |-> "pending", review |-> NoReview] \in StepType
    BY ChainConstants DEF StepType, NoReview
  <2>2. \A n \in Steps : steps'[n] = IF n \in range THEN [status |-> "pending", review |-> NoReview]
                                                    ELSE steps[n]
    BY <1>5 DEF Reset
  <2>3. \A n \in Steps : steps'[n] = steps[n] \/ steps'[n].review = NoReview
    BY <2>2
  <2>4. steps' \in [Steps -> StepType]
    BY <1>0, <1>5, <2>1 DEF Reset
  <2> QED BY <2>3, <2>4
<1>6. CASE BranchResetSteps(h)
  <2> DEFINE e == [engine[h] EXCEPT !.pc = "resetTarget"]
  <2>1. /\ UNCHANGED <<run, reviews, events, halts, faults>>
        /\ engine' = [engine EXCEPT ![h] = e]
        /\ steps' = Reset(Rerun(engine[h].step))
        /\ engine[h].pc = "reset"
    BY <1>0, <1>6 DEF BranchResetSteps, bounds, Goto
  <2>2. e \in EngineType /\ e.pc = "resetTarget" /\ e.step = engine[h].step
    BY <1>0 DEF EngineType
  <2>3. Policy[engine[h].step] = "branch"
    BY <2>1 DEF TypeInv, EngineOK
  <2> HIDE DEF e
  <2> QED BY <1>0, <1>1, <1>5, <2>1, <2>2, <2>3, OneEngineMoves
<1>7. CASE BranchResetTarget(h)
  <2> DEFINE target == BranchTo[engine[h].step]
             e == [engine[h] EXCEPT !.pc = "insert", !.step = target]
  <2>1. /\ UNCHANGED <<run, reviews, events, halts, faults>>
        /\ engine' = [engine EXCEPT ![h] = e]
        /\ steps' = Reset({target})
        /\ engine[h].pc = "resetTarget"
    BY <1>0, <1>7 DEF BranchResetTarget, bounds
  <2>2. target \in Steps /\ target \in 0..Last
    <3>1. Policy[engine[h].step] = "branch"
      BY <2>1 DEF TypeInv, EngineOK
    <3> QED BY <1>1, <3>1, ChainConstants DEF Steps
  <2>3. e \in EngineType /\ e.pc = "insert" /\ e.step = target
    BY <1>0, <2>2 DEF EngineType
  <2> HIDE DEF e, target
  <2> QED BY <1>0, <1>1, <1>5, <2>1, <2>2, <2>3, OneEngineMoves
<1> QED BY <1>2, <1>3, <1>4, <1>6, <1>7

LEMMA InsertReviewType ==
  ASSUME TypeInv, NEW h \in Engine, InsertReview(h) PROVE TypeInv'
<1>0. /\ Typed /\ LinksOK /\ engine[h] \in EngineType /\ steps \in [Steps -> StepType]
      /\ engine \in [Engine -> EngineType] /\ reviews \in Seq(ReviewType)
      /\ engine[h].pc = "insert"
  BY DEF TypeInv, Typed, InsertReview
<1> DEFINE new == Len(reviews) + 1
           row == [step |-> engine[h].step, status |-> "open", decision |-> "none"]
           e == [engine[h] EXCEPT !.pc = "flip", !.review = new]
<1>1. run # "absent" /\ engine[h].step \in Steps
  BY <1>0, Underway
<1>2. new \in Nat \ {0} /\ new <= MaxReviews /\ new \notin DOMAIN reviews /\ new # NoReview
      /\ new \in 0..MaxReviews
  <2>1. Len(reviews) \in Nat /\ Len(reviews) < MaxReviews /\ DOMAIN reviews = 1..Len(reviews)
    BY <1>0, ChainConstants DEF InsertReview
  <2> QED BY <2>1, ChainConstants DEF NoReview
<1>3. row \in ReviewType /\ row.step = engine[h].step /\ row.status = "open" /\ row.decision = "none"
  BY <1>1 DEF ReviewType
<1>4. /\ reviews' = Append(reviews, row) /\ engine' = [engine EXCEPT ![h] = e]
      /\ UNCHANGED <<run, steps, events, halts, faults>>
  BY <1>0 DEF InsertReview, bounds
<1>5. /\ e \in EngineType /\ e.pc = "flip" /\ e.review = new /\ e.step = engine[h].step
  BY <1>0, <1>2 DEF EngineType
<1>6. /\ reviews' \in Seq(ReviewType) /\ Len(reviews') = new
      /\ DOMAIN reviews' = DOMAIN reviews \cup {new}
      /\ reviews'[new] = row
      /\ \A i \in DOMAIN reviews : reviews'[i] = reviews[i]
  BY <1>0, <1>3, <1>4
<1> HIDE DEF row, e, new
<1>7. /\ engine' \in [Engine -> EngineType] /\ engine'[h] = e
      /\ \A k \in Engine : k # h => engine'[k] = engine[k]
  BY <1>0, <1>4, <1>5
<1>8. Typed'
  BY <1>0, <1>4, <1>6, <1>7 DEF Typed
<1>9. LinksOK'
  BY <1>0, <1>4, <1>6 DEF LinksOK
<1>10. BoundsOK' /\ NothingBeforeRun'
  BY <1>1, <1>2, <1>4, <1>6 DEF TypeInv, BoundsOK, NothingBeforeRun
<1>11. \A n \in Steps : steps'[n].review # new
  BY <1>0, <1>2, <1>4 DEF LinksOK
<1>12. EngineOK'
  <2>1. ASSUME NEW k \in Engine
        PROVE  /\ engine'[k].pc # "rest" => engine'[k].step \in Steps
               /\ engine'[k].pc \in {"claim", "claimed"} => engine'[k].decision # "none"
               /\ engine'[k].pc \in {"reset", "resetTarget"} => Policy[engine'[k].step] = "branch"
               /\ Making(k)' => /\ engine'[k].review \in DOMAIN reviews'
                                /\ reviews'[engine'[k].review].step = engine'[k].step
                                /\ \A n \in Steps : steps'[n].review # engine'[k].review
    <3>1. CASE k = h
      BY <3>1, <1>1, <1>3, <1>5, <1>6, <1>7, <1>11
    <3>2. CASE k # h
      <4>1. engine'[k] = engine[k] /\ Making(k)' = Making(k) /\ steps' = steps
        BY <1>4, <1>7, <3>2 DEF Making
      <4> QED BY <4>1, <1>6 DEF TypeInv, EngineOK
    <3> QED BY <3>1, <3>2
  <2>2. ASSUME NEW k \in Engine, NEW m \in Engine, Making(k)', Making(m)', k # m
        PROVE  engine'[k].review # engine'[m].review
    <3>1. \A j \in Engine : j # h /\ Making(j)' =>
             engine'[j] = engine[j] /\ Making(j) /\ engine[j].review # new
      BY <1>2, <1>7 DEF TypeInv, EngineOK, Making
    <3> QED BY <1>5, <1>7, <2>2, <3>1 DEF TypeInv, EngineOK
  <2> QED BY <2>1, <2>2 DEF EngineOK
<1>13. ReviewsOK'
  <2>1. \A i \in DOMAIN reviews' :
          reviews'[i].status = "decided" \/ i \in events' => reviews'[i].decision # "none"
    BY <1>0, <1>2, <1>3, <1>4, <1>6 DEF TypeInv, ReviewsOK, Typed
  <2>2. \A i \in DOMAIN reviews' : Lapsed(i)' => i \in DOMAIN reviews /\ Lapsed(i) /\ i # new
    BY <1>2, <1>3, <1>6 DEF Lapsed
  <2>3. \A k \in Engine : engine'[k].pc = "flip" =>
           \/ engine[k].pc = "flip" /\ engine'[k].review = engine[k].review
           \/ engine'[k].review = new
    BY <1>5, <1>7
  <2> QED BY <1>4, <2>1, <2>2, <2>3 DEF TypeInv, ReviewsOK
<1> QED BY <1>8, <1>9, <1>10, <1>12, <1>13 DEF TypeInv

LEMMA FlipStepType ==
  ASSUME TypeInv, NEW h \in Engine, FlipStep(h) PROVE TypeInv'
<1>0. /\ Typed /\ LinksOK /\ engine[h] \in EngineType /\ steps \in [Steps -> StepType]
      /\ engine \in [Engine -> EngineType] /\ reviews \in Seq(ReviewType)
      /\ engine[h].pc = "flip" /\ faults \in Nat
  BY DEF TypeInv, Typed, BoundsOK, FlipStep
<1>1. run # "absent" /\ engine[h].step \in Steps
  BY <1>0, Underway
<1>2. UNCHANGED <<run, reviews, events, halts, faults>>
  BY DEF FlipStep, bounds
<1>3. CASE ~Flippable(engine[h].step)
  <2> DEFINE e == [engine[h] EXCEPT !.pc = "close"]
  <2>1. engine' = [engine EXCEPT ![h] = e] /\ steps' = steps
    BY <1>0, <1>3 DEF FlipStep, Goto
  <2>2. e \in EngineType /\ e.pc = "close" /\ e.step = engine[h].step /\ e.review = engine[h].review
    BY <1>0 DEF EngineType
  <2> HIDE DEF e
  <2> QED BY <1>0, <1>1, <1>2, <2>1, <2>2, OneEngineMoves
<1>4. CASE Flippable(engine[h].step) /\ reviews[engine[h].review].status = "gone"
  <2>1. engine' = [engine EXCEPT ![h] = Rest] /\ steps' = steps
    BY <1>4 DEF FlipStep, Leave
  <2> QED BY <1>0, <1>1, <1>2, <2>1, RestType, OneEngineMoves
<1>5. CASE Flippable(engine[h].step) /\ reviews[engine[h].review].status # "gone"
  <2> DEFINE s == [status |-> "active", review |-> engine[h].review]
  <2>1. engine' = [engine EXCEPT ![h] = Rest] /\ steps' = [steps EXCEPT ![engine[h].step] = s]
    BY <1>5 DEF FlipStep, Leave
  <2>2. s \in StepType /\ s.status = "active" /\ s.review = engine[h].review
    BY <1>0 DEF StepType, EngineType
  <2> HIDE DEF s
  <2>3. /\ steps' \in [Steps -> StepType] /\ steps'[engine[h].step] = s
        /\ \A n \in Steps : n # engine[h].step => steps'[n] = steps[n]
    BY <1>0, <1>1, <2>1, <2>2
  <2>4. /\ engine' \in [Engine -> EngineType] /\ engine'[h] = Rest
        /\ \A k \in Engine : k # h => engine'[k] = engine[k]
    BY <1>0, <2>1, RestType
  <2>5. /\ engine[h].review \in DOMAIN reviews
        /\ reviews[engine[h].review].step = engine[h].step
    BY <1>0 DEF TypeInv, EngineOK, Making
  <2>6. Typed'
    BY <1>0, <1>2, <2>3, <2>4 DEF Typed
  <2>7. LinksOK'
    BY <1>0, <1>2, <2>2, <2>3, <2>5 DEF LinksOK
  <2>8. BoundsOK' /\ NothingBeforeRun'
    BY <1>1, <1>2 DEF TypeInv, BoundsOK, NothingBeforeRun
  <2>9. \A k \in Engine : Making(k)' =>
          /\ k # h /\ Making(k) /\ engine'[k] = engine[k]
          /\ engine[k].review # engine[h].review
    BY <1>0, <2>4, RestType DEF TypeInv, EngineOK, Making
  <2>10. \A k \in Engine : k # h \/ engine'[k].pc = "rest"
    BY <2>4, RestType
  <2>11. EngineOK'
    <3>1. ASSUME NEW k \in Engine
          PROVE  /\ engine'[k].pc # "rest" => engine'[k].step \in Steps
                 /\ engine'[k].pc \in {"claim", "claimed"} => engine'[k].decision # "none"
                 /\ engine'[k].pc \in {"reset", "resetTarget"} => Policy[engine'[k].step] = "branch"
      BY <2>4, <2>10 DEF TypeInv, EngineOK
    <3>2. ASSUME NEW k \in Engine, Making(k)'
          PROVE  /\ engine'[k].review \in DOMAIN reviews'
                 /\ reviews'[engine'[k].review].step = engine'[k].step
                 /\ \A n \in Steps : steps'[n].review # engine'[k].review
      <4>1. /\ k # h /\ Making(k) /\ engine'[k] = engine[k]
            /\ engine[k].review # engine[h].review
        BY <3>2, <2>9
      <4>2. /\ engine[k].review \in DOMAIN reviews
            /\ reviews[engine[k].review].step = engine[k].step
            /\ \A n \in Steps : steps[n].review # engine[k].review
        BY <4>1 DEF TypeInv, EngineOK
      <4> QED BY <1>2, <2>2, <2>3, <4>1, <4>2
    <3>3. \A k, m \in Engine : Making(k)' /\ Making(m)' /\ k # m =>
                                 engine'[k].review # engine'[m].review
      BY <2>9 DEF TypeInv, EngineOK
    <3> QED BY <3>1, <3>2, <3>3 DEF EngineOK
  <2>12. ReviewsOK'
    <3>1. \A i \in DOMAIN reviews' :
            reviews'[i].status = "decided" \/ i \in events' => reviews'[i].decision # "none"
      BY <1>2 DEF TypeInv, ReviewsOK
    <3>2. \A i \in DOMAIN reviews : run = "active" /\ Lapsed(i) => i # engine[h].review
      BY <1>0 DEF TypeInv, ReviewsOK
    <3>3. ASSUME NEW i \in DOMAIN reviews, run = "active", Lapsed(i)
          PROVE  /\ \A n \in Steps : steps'[n].review # i
                 /\ \A k \in Engine : engine'[k].pc = "flip" => engine'[k].review # i
      <4>1. /\ \A n \in Steps : steps[n].review # i
            /\ \A k \in Engine : engine[k].pc = "flip" => engine[k].review # i
        BY <3>3 DEF TypeInv, ReviewsOK
      <4> QED BY <2>2, <2>3, <2>4, <2>10, <3>2, <3>3, <4>1
    <3>4. \A i \in DOMAIN reviews : Lapsed(i)' = Lapsed(i)
      BY <1>2 DEF Lapsed
    <3> QED BY <1>2, <3>1, <3>3, <3>4 DEF ReviewsOK
  <2> QED BY <2>6, <2>7, <2>8, <2>11, <2>12 DEF TypeInv
<1> QED BY <1>3, <1>4, <1>5

LEMMA CloseReviewType ==
  ASSUME TypeInv, NEW h \in Engine, CloseReview(h) PROVE TypeInv'
<1>0. /\ Typed /\ engine[h] \in EngineType /\ steps \in [Steps -> StepType]
      /\ engine \in [Engine -> EngineType] /\ reviews \in Seq(ReviewType)
      /\ engine[h].pc = "close"
  BY DEF TypeInv, Typed, CloseReview
<1> DEFINE i == engine[h].review
<1>1. /\ UNCHANGED <<run, steps, events, halts, faults>>
      /\ engine' = [engine EXCEPT ![h] = Rest] /\ reviews' = Closed(i)
  BY DEF CloseReview, bounds, Leave
<1>2. /\ i \in DOMAIN reviews /\ \A n \in Steps : steps[n].review # i
      /\ \A k \in Engine : k # h /\ engine[k].pc = "flip" => engine[k].review # i
  BY <1>0 DEF TypeInv, EngineOK, Making
<1>3. reviews[i] \in ReviewType
  BY <1>0, <1>2
<1> DEFINE r == [reviews[i] EXCEPT !.status = "expired"]
<1>4. r \in ReviewType /\ r.step = reviews[i].step /\ r.status = "expired"
      /\ r.decision = reviews[i].decision
  BY <1>3 DEF ReviewType
<1>5. reviews' = reviews \/ reviews' = [reviews EXCEPT ![i] = r]
  BY <1>1 DEF Closed
<1> HIDE DEF i, r
<1>6. /\ reviews' \in Seq(ReviewType) /\ Len(reviews') = Len(reviews)
      /\ reviews'[i] = reviews[i] \/ reviews'[i] = r
      /\ \A j \in DOMAIN reviews : j # i => reviews'[j] = reviews[j]
  <2>1. CASE reviews' = reviews
    BY <1>0, <2>1
  <2>2. CASE reviews' = [reviews EXCEPT ![i] = r]
    BY <1>0, <1>2, <1>4, <2>2, ChangeReview
  <2> QED BY <1>5, <2>1, <2>2
<1>7. /\ engine' \in [Engine -> EngineType] /\ engine'[h].pc = "rest"
      /\ \A k \in Engine : k # h => engine'[k] = engine[k]
  BY <1>0, <1>1, RestType
<1>8. run # "absent"
  BY <1>0, Underway
<1>9. \A j \in DOMAIN reviews : reviews'[j].step = reviews[j].step
  BY <1>4, <1>6
<1>10. \A j \in DOMAIN reviews :
         reviews'[j].status = "decided" \/ j \in events' => reviews'[j].decision # "none"
  BY <1>1, <1>4, <1>6 DEF TypeInv, ReviewsOK
<1>11. \A j \in DOMAIN reviews : Lapsed(j)' => Lapsed(j) \/ j = i
  BY <1>6 DEF Lapsed
<1>12. /\ \A n \in Steps : steps'[n].review # i
       /\ \A k \in Engine : engine'[k].pc = "flip" => engine'[k].review # i
  BY <1>1, <1>2, <1>7
<1>13. events' \subseteq DOMAIN reviews /\ \A n \in Steps : steps'[n] = steps[n]
  BY <1>0, <1>1 DEF Typed
<1>14. \A k \in Engine : engine'[k] = engine[k] \/ engine'[k].pc = "rest"
  BY <1>7
<1> QED BY <1>0, <1>1, <1>6, <1>7, <1>8, <1>9, <1>10, <1>11, <1>12, <1>13, <1>14, ReviewsMove

LEMMA AbortType ==
  ASSUME TypeInv, Abort PROVE TypeInv'
<1>0. /\ Typed /\ steps \in [Steps -> StepType] /\ reviews \in Seq(ReviewType)
      /\ engine \in [Engine -> EngineType]
  BY DEF TypeInv, Typed
<1>1. /\ run = "active" /\ run' = "aborted"
      /\ UNCHANGED <<engine, events, halts, faults>>
  BY DEF Abort, bounds
<1>2. \A n \in Steps : /\ steps'[n] \in StepType /\ steps'[n].review = steps[n].review
                       /\ steps'[n].status # "pending"
  <2> TAKE n \in Steps
  <2>1. steps[n] \in StepType
    BY <1>0
  <2>2. steps'[n] = IF steps[n].status \in {"pending", "active"}
                    THEN [steps[n] EXCEPT !.status = "skipped"] ELSE steps[n]
    BY DEF Abort
  <2> QED BY <2>1, <2>2 DEF StepType
<1>3. steps' \in [Steps -> StepType]
  <2>1. steps' = [n \in Steps |-> IF steps[n].status \in {"pending", "active"}
                    THEN [steps[n] EXCEPT !.status = "skipped"] ELSE steps[n]]
    BY DEF Abort
  <2> QED BY <1>2, <2>1
<1>4. \A i \in DOMAIN reviews :
        /\ reviews'[i] \in ReviewType /\ reviews'[i].step = reviews[i].step
        /\ reviews'[i].decision = reviews[i].decision
        /\ reviews'[i].status = "decided" => reviews[i].status = "decided"
  <2> TAKE i \in DOMAIN reviews
  <2>1. reviews[i] \in ReviewType
    BY <1>0
  <2>2. reviews'[i] = IF reviews[i].status = "open"
                      THEN [reviews[i] EXCEPT !.status = "expired"] ELSE reviews[i]
    BY DEF Abort
  <2> QED BY <2>1, <2>2 DEF ReviewType
<1>5. reviews' \in Seq(ReviewType) /\ Len(reviews') = Len(reviews)
  <2>1. reviews' = [i \in DOMAIN reviews |->
                      IF reviews[i].status = "open"
                      THEN [reviews[i] EXCEPT !.status = "expired"] ELSE reviews[i]]
    BY DEF Abort
  <2>2. reviews' \in [1..Len(reviews) -> ReviewType] /\ Len(reviews) \in Nat
    BY <1>0, <1>4, <2>1
  <2> QED BY <2>2
<1>6. \A i \in DOMAIN reviews :
        reviews'[i].status = "decided" \/ i \in events' => reviews'[i].decision # "none"
  BY <1>1, <1>4 DEF TypeInv, ReviewsOK
<1>7. events' \subseteq DOMAIN reviews
  BY <1>0, <1>1 DEF Typed
<1> QED BY <1>0, <1>1, <1>2, <1>3, <1>4, <1>5, <1>6, <1>7, ReviewsMove

LEMMA SweepType ==
  ASSUME TypeInv, Reconcile \/ \E n \in halts : HaltStep(n) PROVE TypeInv'
<1>0. /\ Typed /\ LinksOK /\ steps \in [Steps -> StepType] /\ faults \in Nat
      /\ engine \in [Engine -> EngineType] /\ halts \subseteq Steps
      /\ run \in {"absent", "active", "completed", "rejected", "aborted"}
      /\ events \subseteq DOMAIN reviews
  BY DEF TypeInv, Typed, BoundsOK
<1>1. CASE Reconcile
  <2>1. /\ UNCHANGED <<run, steps, reviews, engine, faults>> /\ run = "active"
        /\ \E n \in Steps :
             \/ Stranded(n) /\ events' = events \cup {steps[n].review} /\ halts' = halts
             \/ halts' = halts \cup {n} /\ events' = events
    BY <1>1 DEF Reconcile, bounds
  <2>2. \A n \in Steps : Stranded(n) => /\ steps[n].review \in DOMAIN reviews
                                        /\ reviews[steps[n].review].decision # "none"
    <3>1. ASSUME NEW n \in Steps, Stranded(n)
          PROVE  /\ steps[n].review \in DOMAIN reviews
                 /\ reviews[steps[n].review].decision # "none"
      <4>1. steps[n].review \in DOMAIN reviews
        BY <1>0, <3>1 DEF Stranded, Filed, LinksOK
      <4>2. ~Lapsed(steps[n].review)
        BY <2>1, <4>1 DEF TypeInv, ReviewsOK
      <4> QED BY <3>1, <4>1, <4>2 DEF Stranded, Filed, Lapsed, TypeInv, ReviewsOK
    <3> QED BY <3>1
  <2>3. /\ events' \subseteq DOMAIN reviews /\ halts' \subseteq Steps
        /\ \A i \in events' : i \in events \/ reviews[i].decision # "none"
    BY <1>0, <2>1, <2>2
  <2>4. /\ run' \in {"active", "completed", "rejected", "aborted"}
        /\ \A n \in Steps : steps'[n] = steps[n]
        /\ \A h \in Engine : engine'[h] = engine[h]
    BY <2>1
  <2> QED BY <1>0, <2>1, <2>3, <2>4, EngineMoves
<1>2. ASSUME NEW n \in halts, HaltStep(n) PROVE TypeInv'
  <2>1. /\ UNCHANGED <<run, reviews, engine, events, faults>> /\ halts' = halts \ {n}
        /\ n \in Steps /\ run # "absent"
    BY <1>0, <1>2, Underway DEF HaltStep, bounds
  <2>2. /\ steps' \in [Steps -> StepType]
        /\ \A m \in Steps : \/ steps'[m] = steps[m]
                            \/ /\ steps'[m].review = steps[m].review
                               /\ steps'[m].status # "pending"
    <3> DEFINE s == [steps[n] EXCEPT !.status = "skipped"]
    <3>1. steps' = steps \/ steps' = [steps EXCEPT ![n] = s]
      BY <1>2 DEF HaltStep
    <3>2. s \in StepType /\ s.review = steps[n].review /\ s.status = "skipped"
      BY <1>0, <2>1 DEF StepType
    <3> HIDE DEF s
    <3> QED BY <1>0, <2>1, <3>1, <3>2
  <2>3. /\ run' \in {"active", "completed", "rejected", "aborted"}
        /\ \A h \in Engine : engine'[h] = engine[h]
        /\ halts' \subseteq Steps
    BY <1>0, <2>1
  <2> QED BY <1>0, <2>1, <2>2, <2>3, EngineMoves
<1> QED BY <1>1, <1>2

LEMMA FaultType ==
  ASSUME TypeInv, Crash \/ \E h \in Engine : Throws(h) PROVE TypeInv'
<1>0. /\ Typed /\ steps \in [Steps -> StepType] /\ faults \in Nat
      /\ engine \in [Engine -> EngineType] /\ halts \subseteq Steps
      /\ run \in {"absent", "active", "completed", "rejected", "aborted"}
  BY DEF TypeInv, Typed, BoundsOK
<1>1. UNCHANGED <<run, steps, reviews>> /\ faults' = faults + 1 /\ faults' \in Nat
  BY <1>0 DEF Crash, Throws
<1>2. ASSUME NEW h \in Engine, Throws(h) PROVE TypeInv'
  <2>1. engine[h].pc # "rest" /\ engine' = [engine EXCEPT ![h] = Rest]
        /\ UNCHANGED <<events, halts>>
    BY <1>2 DEF Throws, Leave
  <2> QED BY <1>0, <1>1, <2>1, RestType, OneEngineMoves
<1>3. CASE Crash
  <2>1. /\ engine' = [h \in Engine |-> Rest] /\ events' = {} /\ halts' = {}
    BY <1>3 DEF Crash
  <2>2. /\ engine' \in [Engine -> EngineType] /\ \A h \in Engine : engine'[h] = Rest
    BY <2>1, RestType
  <2>3. CASE run = "absent"
    <3>1. Typed' /\ LinksOK' /\ BoundsOK' /\ NothingBeforeRun'
      BY <1>0, <1>1, <2>1, <2>2, <2>3
      DEF TypeInv, Typed, LinksOK, BoundsOK, NothingBeforeRun
    <3>2. EngineOK' /\ ReviewsOK'
      BY <1>0, <1>1, <2>1, <2>2, <2>3, RestType
      DEF TypeInv, NothingBeforeRun, EngineOK, ReviewsOK, Making
    <3> QED BY <3>1, <3>2 DEF TypeInv
  <2>4. CASE run # "absent"
    BY <1>0, <1>1, <2>1, <2>2, <2>4, RestType, EngineMoves
  <2> QED BY <2>3, <2>4
<1> QED BY <1>2, <1>3

LEMMA CreateRunType ==
  ASSUME TypeInv, CreateRun PROVE TypeInv'
<1>0. /\ Typed /\ run = "absent" /\ engine \in [Engine -> EngineType]
      /\ reviews = <<>> /\ events = {} /\ halts = {}
      /\ \A h \in Engine : engine[h] = Rest
  BY DEF TypeInv, Typed, NothingBeforeRun, CreateRun
<1> DEFINE e == [Rest EXCEPT !.pc = "insert", !.step = 1]
<1>1. e \in EngineType /\ e.pc = "insert" /\ e.step = 1
  BY RestType, StepsType DEF EngineType
<1>2. /\ run' = "active" /\ UNCHANGED <<reviews, events, halts, faults>>
      /\ steps' = [n \in Steps |-> [status |-> "pending", review |-> NoReview]]
      /\ engine' = [engine EXCEPT ![Creator] = e]
  BY DEF CreateRun, bounds
<1> HIDE DEF e
<1>3. /\ engine' \in [Engine -> EngineType]
      /\ \A h \in Engine : engine'[h] = Rest \/ engine'[h] = e
  BY <1>0, <1>1, <1>2 DEF Engine
<1>4. [status |-> "pending", review |-> NoReview] \in StepType
  BY ChainConstants DEF StepType, NoReview
<1>5. Typed' /\ LinksOK'
  BY <1>0, <1>2, <1>3, <1>4 DEF Typed, LinksOK
<1>6. BoundsOK' /\ NothingBeforeRun'
  BY <1>2 DEF TypeInv, BoundsOK, NothingBeforeRun
<1>7. EngineOK'
  BY <1>1, <1>3, RestType, StepsType DEF EngineOK, Making
<1>8. ReviewsOK'
  BY <1>0, <1>2 DEF ReviewsOK
<1> QED BY <1>5, <1>6, <1>7, <1>8 DEF TypeInv

LEMMA NextTypeInv == TypeInv /\ [Next]_vars => TypeInv'
<1> SUFFICES ASSUME TypeInv, [Next]_vars PROVE TypeInv'
  OBVIOUS
<1>1. ASSUME NEW h \in Engine, Proceed(h) PROVE TypeInv'
  BY <1>1, ProceedType, InsertReviewType, FlipStepType, CloseReviewType DEF Proceed
<1>2. CASE UNCHANGED vars
  BY <1>2 DEF vars, bounds, TypeInv, Typed, LinksOK, BoundsOK, NothingBeforeRun, EngineOK, ReviewsOK,
        Lapsed, Making
<1> QED BY <1>1, <1>2, CreateRunType, ReviewStepType, HandleType, AbortType, SweepType, FaultType
    DEF Next

\* Every variable stays in its domain, and a step's review is one that was materialised
\* for it, for every number of steps, handlers and faults and every policy.
THEOREM TypeCorrect == Spec => []TypeOK
<1>1. Spec => []TypeInv
  BY InitTypeInv, NextTypeInv, PTL DEF Spec
<1> QED BY <1>1, TypeInvType, PTL

-----------------------------------------------------------------------------
(***************************************************************************)
(* One token goes from step to step: the run is carried by one invocation  *)
(* at most, from the claim of a step to the activation of the next, and    *)
(* while nobody carries it at most one step is up.                         *)
(***************************************************************************)
Carries(h) == engine[h].pc \in {"claimed", "complete", "reject", "reset", "resetTarget",
                                "insert", "flip"}

SettledBelow(n) == \A m \in Steps : m < n => Settled(m)
OpenFrom(n) == \A m \in Steps : n <= m => steps[m].status \in {"pending", "skipped"}

CarrierOK(h, n) ==
    /\ engine[h].pc # "resetTarget" => SettledBelow(n)
    /\ engine[h].pc = "claimed" => steps[n].status = engine[h].decision
    /\ engine[h].pc \in {"reject", "reset"} => steps[n].status = "rejected"
    /\ engine[h].pc \in {"claimed", "reject", "reset"} => OpenFrom(n + 1)
    /\ engine[h].pc = "reject" => Policy[n] = "abort"
    /\ engine[h].pc = "complete" => n = Last /\ Settled(n)
    /\ engine[h].pc = "resetTarget" => /\ SettledBelow(BranchTo[n] + 1)
                                       /\ OpenFrom(BranchTo[n] + 1)
    /\ engine[h].pc \in {"insert", "flip"} => OpenFrom(n)

OneCarrier == \A h, k \in Engine : Carries(h) /\ Carries(k) => h = k

Carried ==
    \A h \in Engine : Carries(h) =>
        /\ run \in {"active", "aborted"}
        /\ \A n \in Steps : steps[n].status # "active"
        /\ CarrierOK(h, engine[h].step)

UpInTurn ==
    \A n \in Steps : steps[n].status = "active" =>
        run = "active" /\ SettledBelow(n) /\ OpenFrom(n + 1)

AllSettled == run = "completed" => \A n \in Steps : Settled(n)

RouteInv == OneCarrier /\ Carried /\ UpInTurn /\ AllSettled

LEMMA RouteInvSays == RouteInv => NobodyPassedOver
<1> SUFFICES ASSUME RouteInv, NEW n \in Steps, steps[n].status = "active",
                    NEW m \in 1..(n - 1)
             PROVE  Settled(m)
  BY DEF NobodyPassedOver, RouteInv, AllSettled
<1>1. m \in Steps /\ m < n
  BY ChainConstants DEF Steps
<1> QED BY <1>1 DEF RouteInv, UpInTurn, SettledBelow

LEMMA InitRouteInv == Init => RouteInv
  BY DEF Init, Rest, RouteInv, OneCarrier, Carried, UpInTurn, AllSettled, Carries

\* Where the token is.
LEMMA TokenAt ==
  ASSUME TypeInv, NEW h \in Engine, Carries(h)
  PROVE  /\ engine[h].pc # "rest" /\ run # "absent"
         /\ engine[h].step \in Steps /\ engine[h].step \in Int /\ engine[h].step \in Nat
         /\ engine[h].pc \in {"reset", "resetTarget"} =>
               /\ Policy[engine[h].step] = "branch"
               /\ BranchTo[engine[h].step] \in Steps /\ BranchTo[engine[h].step] \in Int
               /\ BranchTo[engine[h].step] < engine[h].step
<1>1. engine[h].pc # "rest" /\ run # "absent" /\ engine[h].step \in Steps
  BY Underway DEF Carries
<1>2. engine[h].pc \in {"reset", "resetTarget"} => Policy[engine[h].step] = "branch"
  BY DEF TypeInv, EngineOK
<1> QED BY <1>1, <1>2, ChainConstants DEF Steps

\* Nobody takes the token: it stays where it is, or is dropped.
LEMMA TokenStays ==
  ASSUME RouteInv, TypeInv,
         \/ run' = run
         \/ run = "active" /\ run' = "aborted" /\ \A n \in Steps : steps'[n].status # "active",
         \A n \in Steps :
            \/ steps'[n].status = steps[n].status
            \/ /\ steps[n].status \in {"active", "pending"} /\ steps'[n].status = "skipped",
         \A h \in Engine : Carries(h)' =>
            /\ Carries(h) /\ engine'[h].step = engine[h].step
            /\ engine'[h].decision = engine[h].decision
            /\ \/ engine'[h].pc = engine[h].pc
               \/ engine[h].pc = "insert" /\ engine'[h].pc = "flip"
  PROVE  RouteInv'
<1>1. \A n \in Steps : Settled(n) => Settled(n)'
  BY DEF Settled
<1>2. \A n \in Int : SettledBelow(n) => SettledBelow(n)'
  BY <1>1 DEF SettledBelow
<1>3. \A n \in Int : OpenFrom(n) => OpenFrom(n)'
  BY DEF OpenFrom
<1>4. OneCarrier'
  BY DEF RouteInv, OneCarrier
<1>5. Carried'
  <2>1. ASSUME NEW h \in Engine, Carries(h)'
        PROVE  /\ run' \in {"active", "aborted"}
               /\ \A n \in Steps : steps'[n].status # "active"
               /\ CarrierOK(h, engine[h].step)'
    <3>0. PICK n : n = engine[h].step
      OBVIOUS
    <3>1. /\ Carries(h) /\ engine'[h].step = n /\ engine'[h].decision = engine[h].decision
          /\ \/ engine'[h].pc = engine[h].pc
             \/ engine[h].pc = "insert" /\ engine'[h].pc = "flip"
      BY <2>1, <3>0
    <3>2. /\ run \in {"active", "aborted"} /\ \A m \in Steps : steps[m].status # "active"
          /\ CarrierOK(h, n)
      BY <3>0, <3>1 DEF RouteInv, Carried
    <3>3. /\ n \in Steps /\ n \in Int /\ n + 1 \in Int
          /\ engine[h].pc = "resetTarget" => BranchTo[n] + 1 \in Int
      BY <3>0, <3>1, TokenAt
    <3>4. /\ engine[h].pc # "resetTarget" => SettledBelow(n)'
          /\ engine[h].pc \in {"claimed", "reject", "reset"} => OpenFrom(n + 1)'
          /\ engine[h].pc = "resetTarget" => SettledBelow(BranchTo[n] + 1)' /\ OpenFrom(BranchTo[n] + 1)'
          /\ engine[h].pc \in {"insert", "flip"} => OpenFrom(n)'
          /\ engine[h].pc = "complete" => Settled(n)'
      BY <1>1, <1>2, <1>3, <3>2, <3>3 DEF CarrierOK
    <3>5. engine[h].pc \in {"reject", "reset"} => steps'[n].status = "rejected"
      BY <3>2, <3>3 DEF CarrierOK
    <3>6. engine[h].pc = "claimed" => steps'[n].status = engine[h].decision
      <4>1. engine[h].pc = "claimed" => engine[h].decision \in {"approved", "rejected"}
        BY DEF TypeInv, EngineOK, Typed, EngineType
      <4> QED BY <3>2, <3>3, <4>1 DEF CarrierOK
    <3>7. CarrierOK(h, engine[h].step)'
      BY <3>1, <3>2, <3>4, <3>5, <3>6 DEF CarrierOK, SettledBelow, OpenFrom, Settled
    <3> QED BY <3>2, <3>7
  <2> QED BY <2>1 DEF Carried
<1>6. UpInTurn'
  <2>1. ASSUME NEW n \in Steps, steps'[n].status = "active"
        PROVE  run' = "active" /\ SettledBelow(n)' /\ OpenFrom(n + 1)'
    <3>1. run = "active" /\ SettledBelow(n) /\ OpenFrom(n + 1) /\ n \in Int /\ n + 1 \in Int
      BY <2>1, ChainConstants DEF RouteInv, UpInTurn, Steps
    <3> QED BY <1>2, <1>3, <2>1, <3>1
  <2> QED BY <2>1 DEF UpInTurn
<1>7. AllSettled'
  BY <1>1 DEF RouteInv, AllSettled
<1> QED BY <1>4, <1>5, <1>6, <1>7 DEF RouteInv

\* One invocation acts; whoever carried the run, nobody else does afterwards.
LEMMA TokenMoves ==
  ASSUME TypeInv, RouteInv, NEW h \in Engine, NEW n,
         \A k \in Engine : k # h => engine'[k] = engine[k] /\ ~Carries(k),
         run' \in {"active", "aborted"}, engine'[h].step = n,
         \A m \in Steps : steps'[m].status # "active",
         CarrierOK(h, n)'
  PROVE  RouteInv'
<1>1. \A k \in Engine : Carries(k)' => k = h
  BY DEF Carries
<1>2. OneCarrier'
  BY <1>1 DEF OneCarrier
<1>3. Carried'
  BY <1>1 DEF Carried
<1>4. UpInTurn' /\ AllSettled'
  BY DEF UpInTurn, AllSettled
<1> QED BY <1>2, <1>3, <1>4 DEF RouteInv

\* The invocation that carries the run, the step it carries it at, and nobody else.
LEMMA TokenAlone ==
  ASSUME TypeInv, RouteInv, NEW h \in Engine, Carries(h)
  PROVE  \E n \in Steps :
           /\ n = engine[h].step /\ n \in Int /\ n + 1 \in Int
           /\ CarrierOK(h, n)
           /\ run \in {"active", "aborted"} /\ \A m \in Steps : steps[m].status # "active"
           /\ \A k \in Engine : k # h => ~Carries(k)
           /\ engine[h].pc \in {"reset", "resetTarget"} =>
                 /\ BranchTo[n] \in Steps /\ BranchTo[n] \in Int /\ BranchTo[n] < n
  BY TokenAt DEF RouteInv, OneCarrier, Carried

LEMMA CreateRunRoute ==
  ASSUME TypeInv, RouteInv, CreateRun PROVE RouteInv'
<1>0. /\ engine \in [Engine -> EngineType] /\ \A h \in Engine : engine[h] = Rest
  BY DEF TypeInv, Typed, NothingBeforeRun, CreateRun
<1> DEFINE e == [Rest EXCEPT !.pc = "insert", !.step = 1]
<1>1. e.pc = "insert" /\ e.step = 1
  BY DEF Rest
<1>2. /\ run' = "active" /\ engine' = [engine EXCEPT ![Creator] = e]
      /\ \A n \in Steps : steps'[n].status = "pending"
  BY DEF CreateRun
<1> HIDE DEF e
<1>3. /\ Creator \in Engine /\ engine'[Creator] = e
      /\ \A k \in Engine : k # Creator => engine'[k] = engine[k] /\ ~Carries(k)
  BY <1>0, <1>2, RestType DEF Engine, Carries
<1>4. SettledBelow(1)' /\ OpenFrom(1)'
  BY <1>2, ChainConstants DEF SettledBelow, OpenFrom, Steps
<1>5. CarrierOK(Creator, 1)'
  BY <1>1, <1>3, <1>4 DEF CarrierOK
<1> QED BY <1>1, <1>2, <1>3, <1>5, TokenMoves

LEMMA ClaimRoute ==
  ASSUME TypeInv, RouteInv, NEW h \in Engine, Claim(h) PROVE RouteInv'
<1>0. /\ engine \in [Engine -> EngineType] /\ engine[h] \in EngineType
      /\ engine[h].pc = "claim" /\ engine[h].decision \in {"approved", "rejected"}
      /\ steps \in [Steps -> StepType] /\ run' = run
  BY DEF TypeInv, Typed, EngineOK, EngineType, Claim
<1>1. PICK n \in Steps : n = engine[h].step /\ n \in Int /\ n + 1 \in Int
  BY <1>0, Underway, ChainConstants DEF Steps
<1>2. CASE Claimable(n)
  <2>1. /\ run = "active" /\ SettledBelow(n) /\ OpenFrom(n + 1) /\ steps[n].status = "active"
        /\ \A k \in Engine : ~Carries(k)
    BY <1>2 DEF Claimable, RouteInv, UpInTurn, Carried
  <2>2. /\ engine'[h].pc = "claimed" /\ engine'[h].step = n
        /\ engine'[h].decision = engine[h].decision
        /\ \A k \in Engine : k # h => engine'[k] = engine[k]
    BY <1>0, <1>1, <1>2 DEF Claim, Goto, EngineType
  <2>3. /\ steps'[n].status = engine[h].decision
        /\ \A m \in Steps : m # n => steps'[m] = steps[m]
    BY <1>0, <1>1, <1>2 DEF Claim, StepType
  <2>4. SettledBelow(n)' /\ OpenFrom(n + 1)'
    BY <1>1, <2>1, <2>3, ChainConstants DEF SettledBelow, OpenFrom, Settled, Steps
  <2>5. \A m \in Steps : steps'[m].status # "active"
    <3>1. \A m \in Steps : m < n => steps'[m].status # "active"
      BY <2>4 DEF SettledBelow, Settled
    <3>2. \A m \in Steps : n + 1 <= m => steps'[m].status # "active"
      BY <2>4 DEF OpenFrom
    <3>3. \A m \in Steps : m = n \/ m < n \/ n + 1 <= m
      BY <1>1, ChainConstants DEF Steps
    <3> QED BY <1>0, <2>3, <3>1, <3>2, <3>3
  <2>6. CarrierOK(h, n)'
    BY <2>2, <2>3, <2>4 DEF CarrierOK
  <2> QED BY <1>0, <2>1, <2>2, <2>5, <2>6, TokenMoves
<1>3. CASE ~Claimable(n)
  <2>1. engine' = [engine EXCEPT ![h] = Rest] /\ steps' = steps
    BY <1>1, <1>3 DEF Claim, Leave
  <2>2. \A k \in Engine : Carries(k)' => Carries(k) /\ engine'[k] = engine[k]
    BY <1>0, <2>1, RestType DEF Carries
  <2> QED BY <1>0, <2>1, <2>2, TokenStays
<1> QED BY <1>2, <1>3

LEMMA RecheckRoute ==
  ASSUME TypeInv, RouteInv, NEW h \in Engine, Recheck(h) PROVE RouteInv'
<1>0. /\ engine \in [Engine -> EngineType] /\ engine[h] \in EngineType
      /\ engine[h].pc = "claimed" /\ engine[h].decision \in {"approved", "rejected"}
      /\ steps' = steps /\ run' = run
  BY DEF TypeInv, Typed, EngineOK, EngineType, Recheck
<1>1. PICK n \in Steps :
        /\ n = engine[h].step /\ n \in Int /\ n + 1 \in Int
        /\ CarrierOK(h, n)
        /\ \A m \in Steps : steps[m].status # "active"
        /\ \A k \in Engine : k # h => ~Carries(k)
  BY <1>0, TokenAlone DEF Carries
<1>2. SettledBelow(n) /\ OpenFrom(n + 1) /\ steps[n].status = engine[h].decision
  BY <1>0, <1>1 DEF CarrierOK
<1>3. CASE run # "active"
  <2>1. engine' = [engine EXCEPT ![h] = Rest]
    BY <1>3 DEF Recheck
  <2>2. \A k \in Engine : Carries(k)' => Carries(k) /\ engine'[k] = engine[k]
    BY <1>0, <2>1, RestType DEF Carries
  <2> QED BY <1>0, <2>2, TokenStays
<1>4. CASE run = "active"
  <2>1. /\ engine'[h] = Consequence(h)
        /\ \A k \in Engine : k # h => engine'[k] = engine[k]
    BY <1>0, <1>4 DEF Recheck
  <2>2. Forward(h) <=> Settled(n)
    BY <1>0, <1>1, <1>2 DEF Forward, Settled
  <2>3. (SettledBelow(n) => SettledBelow(n)') /\ (OpenFrom(n + 1) => OpenFrom(n + 1)')
        /\ (Settled(n) => Settled(n)')
    BY <1>0 DEF SettledBelow, OpenFrom, Settled
  <2>4. CASE Forward(h) /\ n = Last
    <3>1. engine'[h].pc = "complete" /\ engine'[h].step = n
      BY <1>0, <1>1, <2>1, <2>4 DEF Consequence, EngineType
    <3>2. CarrierOK(h, n)'
      BY <1>2, <2>2, <2>3, <2>4, <3>1 DEF CarrierOK
    <3> QED BY <1>0, <1>1, <1>4, <2>1, <3>1, <3>2, TokenMoves
  <2>5. CASE Forward(h) /\ n # Last
    <3>1. engine'[h].pc = "insert" /\ engine'[h].step = n + 1
      BY <1>0, <1>1, <2>1, <2>5 DEF Consequence, EngineType
    <3>2. SettledBelow(n + 1)'
      <4>1. \A m \in Steps : m < n + 1 => m < n \/ m = n
        BY <1>1, ChainConstants DEF Steps
      <4> QED BY <1>2, <2>2, <2>3, <2>5, <4>1 DEF SettledBelow
    <3>3. CarrierOK(h, n + 1)'
      BY <1>2, <2>3, <3>1, <3>2 DEF CarrierOK
    <3> QED BY <1>0, <1>1, <1>4, <2>1, <3>1, <3>3, TokenMoves
  <2>6. CASE ~Forward(h)
    <3>1. /\ engine'[h].step = n
          /\ engine'[h].pc = IF Policy[n] = "branch" THEN "reset" ELSE "reject"
      BY <1>0, <1>1, <2>1, <2>6 DEF Consequence, EngineType
    <3>2. steps[n].status = "rejected" /\ (Policy[n] # "branch" => Policy[n] = "abort")
      BY <1>0, <1>1, <1>2, <2>6, ChainConstants DEF Forward
    <3>3. CarrierOK(h, n)'
      BY <1>0, <1>2, <2>3, <3>1, <3>2 DEF CarrierOK
    <3> QED BY <1>0, <1>1, <1>4, <2>1, <3>1, <3>3, TokenMoves
  <2> QED BY <2>4, <2>5, <2>6
<1> QED BY <1>3, <1>4

LEMMA EndRoute ==
  ASSUME TypeInv, RouteInv, NEW h \in Engine, CompleteRun(h) \/ RejectRun(h) PROVE RouteInv'
<1>0. /\ engine \in [Engine -> EngineType] /\ engine[h].pc \in {"complete", "reject"}
      /\ steps' = steps /\ engine' = [engine EXCEPT ![h] = Rest]
  BY DEF TypeInv, Typed, CompleteRun, RejectRun, Leave
<1>1. PICK n \in Steps :
        /\ n = engine[h].step /\ n \in Int
        /\ CarrierOK(h, n)
        /\ \A m \in Steps : steps[m].status # "active"
        /\ \A k \in Engine : k # h => ~Carries(k)
  BY <1>0, TokenAlone DEF Carries
<1>2. \A k \in Engine : ~Carries(k)'
  BY <1>0, <1>1, RestType DEF Carries
<1>3. CASE run # "active"
  <2>1. run' = run
    BY <1>3 DEF CompleteRun, RejectRun, StillActive
  <2> QED BY <1>0, <1>2, <2>1, TokenStays
<1>4. CASE run = "active" /\ CompleteRun(h)
  <2>1. \A m \in Steps : Settled(m)
    <3>1. SettledBelow(Last) /\ Settled(Last) /\ engine[h].pc = "complete"
      BY <1>1, <1>4 DEF CompleteRun, CarrierOK
    <3>2. \A m \in Steps : m < Last \/ m = Last
      BY ChainConstants DEF Steps
    <3> QED BY <3>1, <3>2 DEF SettledBelow
  <2>2. \A m \in Steps : Settled(m)'
    BY <1>0, <2>1 DEF Settled
  <2> QED BY <1>0, <1>1, <1>2, <2>2 DEF RouteInv, OneCarrier, Carried, UpInTurn, AllSettled
<1>5. CASE run = "active" /\ RejectRun(h)
  <2>1. run' = "rejected"
    BY <1>5 DEF RejectRun, StillActive
  <2> QED BY <1>0, <1>1, <1>2, <2>1 DEF RouteInv, OneCarrier, Carried, UpInTurn, AllSettled
<1> QED BY <1>3, <1>4, <1>5

LEMMA BranchRoute ==
  ASSUME TypeInv, RouteInv, NEW h \in Engine, BranchResetSteps(h) \/ BranchResetTarget(h)
  PROVE  RouteInv'
<1>0. /\ engine \in [Engine -> EngineType] /\ engine[h] \in EngineType
      /\ engine[h].pc \in {"reset", "resetTarget"} /\ run' = run
  BY DEF TypeInv, Typed, BranchResetSteps, BranchResetTarget
<1>1. PICK n \in Steps :
        /\ n = engine[h].step /\ n \in Int /\ n + 1 \in Int
        /\ CarrierOK(h, n)
        /\ run \in {"active", "aborted"} /\ \A m \in Steps : steps[m].status # "active"
        /\ \A k \in Engine : k # h => ~Carries(k)
        /\ BranchTo[n] \in Steps /\ BranchTo[n] \in Int /\ BranchTo[n] < n
  BY <1>0, TokenAlone DEF Carries
<1> DEFINE b == BranchTo[n]
<1>2. CASE BranchResetSteps(h)
  <2>1. /\ engine'[h].pc = "resetTarget" /\ engine'[h].step = n
        /\ \A k \in Engine : k # h => engine'[k] = engine[k]
    BY <1>0, <1>1, <1>2 DEF BranchResetSteps, Goto, EngineType
  <2>2. \A m \in Steps : steps'[m] = IF m \in (b + 1)..n
                                     THEN [status |-> "pending", review |-> NoReview] ELSE steps[m]
    BY <1>1, <1>2 DEF BranchResetSteps, Reset, Rerun
  <2>3. SettledBelow(n) /\ OpenFrom(n + 1)
    BY <1>1, <1>2 DEF BranchResetSteps, CarrierOK
  <2>4. SettledBelow(b + 1)'
    <3>1. \A m \in Steps : m < b + 1 => m < n /\ m \notin (b + 1)..n
      BY <1>1, ChainConstants DEF Steps
    <3> QED BY <2>2, <2>3, <3>1 DEF SettledBelow, Settled
  <2>5. OpenFrom(b + 1)'
    <3>1. \A m \in Steps : b + 1 <= m => m \in (b + 1)..n \/ n + 1 <= m
      BY <1>1, ChainConstants DEF Steps
    <3> QED BY <2>2, <2>3, <3>1 DEF OpenFrom
  <2>6. \A m \in Steps : steps'[m].status # "active"
    BY <1>1, <2>2
  <2>7. CarrierOK(h, n)'
    BY <2>1, <2>4, <2>5 DEF CarrierOK
  <2> QED BY <1>0, <1>1, <2>1, <2>6, <2>7, TokenMoves
<1>3. CASE BranchResetTarget(h)
  <2>1. /\ engine'[h].pc = "insert" /\ engine'[h].step = b
        /\ \A k \in Engine : k # h => engine'[k] = engine[k]
    BY <1>0, <1>1, <1>3 DEF BranchResetTarget, EngineType
  <2>2. \A m \in Steps : steps'[m] = IF m = b
                                     THEN [status |-> "pending", review |-> NoReview] ELSE steps[m]
    BY <1>1, <1>3 DEF BranchResetTarget, Reset
  <2>3. SettledBelow(b + 1) /\ OpenFrom(b + 1)
    BY <1>1, <1>3 DEF BranchResetTarget, CarrierOK
  <2>4. SettledBelow(b)'
    <3>1. \A m \in Steps : m < b => m < b + 1 /\ m # b
      BY <1>1, ChainConstants DEF Steps
    <3> QED BY <2>2, <2>3, <3>1 DEF SettledBelow, Settled
  <2>5. OpenFrom(b)'
    <3>1. \A m \in Steps : b <= m => m = b \/ b + 1 <= m
      BY <1>1, ChainConstants DEF Steps
    <3> QED BY <2>2, <2>3, <3>1 DEF OpenFrom
  <2>6. \A m \in Steps : steps'[m].status # "active"
    BY <1>1, <2>2
  <2>7. CarrierOK(h, b)'
    BY <2>1, <2>4, <2>5 DEF CarrierOK
  <2> QED BY <1>0, <1>1, <2>1, <2>6, <2>7, TokenMoves
<1> QED BY <1>2, <1>3

LEMMA MaterializeRoute ==
  ASSUME TypeInv, RouteInv, NEW h \in Engine,
         InsertReview(h) \/ FlipStep(h) \/ CloseReview(h)
  PROVE  RouteInv'
<1>0. /\ engine \in [Engine -> EngineType] /\ engine[h] \in EngineType /\ run' = run
      /\ steps \in [Steps -> StepType]
  BY DEF TypeInv, Typed, InsertReview, FlipStep, CloseReview
<1>1. CASE InsertReview(h)
  <2>1. /\ engine'[h].pc = "flip" /\ engine'[h].step = engine[h].step
        /\ engine'[h].decision = engine[h].decision /\ engine[h].pc = "insert"
        /\ \A k \in Engine : k # h => engine'[k] = engine[k]
        /\ steps' = steps
    BY <1>0, <1>1 DEF InsertReview, EngineType
  <2>2. \A k \in Engine : Carries(k)' =>
            /\ Carries(k) /\ engine'[k].step = engine[k].step
            /\ engine'[k].decision = engine[k].decision
            /\ \/ engine'[k].pc = engine[k].pc
               \/ engine[k].pc = "insert" /\ engine'[k].pc = "flip"
    BY <2>1 DEF Carries
  <2> QED BY <1>0, <2>1, <2>2, TokenStays
<1>2. CASE steps' = steps /\ (FlipStep(h) \/ CloseReview(h))
  <2>1. /\ engine'[h].pc \in {"rest", "close"}
        /\ \A k \in Engine : k # h => engine'[k] = engine[k]
    BY <1>0, <1>2, RestType DEF FlipStep, CloseReview, Goto, Leave, EngineType
  <2>2. \A k \in Engine : Carries(k)' => Carries(k) /\ engine'[k] = engine[k]
    BY <2>1 DEF Carries
  <2> QED BY <1>0, <1>2, <2>2, TokenStays
<1>3. CASE /\ FlipStep(h) /\ Flippable(engine[h].step)
           /\ reviews[engine[h].review].status # "gone"
  <2>1. PICK n \in Steps :
          /\ n = engine[h].step /\ n \in Int /\ n + 1 \in Int
          /\ CarrierOK(h, n)
          /\ \A m \in Steps : steps[m].status # "active"
          /\ \A k \in Engine : k # h => ~Carries(k)
    BY <1>3, TokenAlone DEF FlipStep, Carries
  <2>2. /\ SettledBelow(n) /\ OpenFrom(n) /\ run = "active" /\ steps[n].status = "pending"
    BY <1>3, <2>1 DEF FlipStep, CarrierOK, Flippable
  <2>3. \A k \in Engine : ~Carries(k)'
    BY <1>0, <1>3, <2>1, RestType DEF FlipStep, Leave, Carries
  <2>4. /\ steps'[n].status = "active" /\ \A m \in Steps : m # n => steps'[m] = steps[m]
    BY <1>0, <1>3, <2>1 DEF FlipStep
  <2>5. SettledBelow(n)' /\ OpenFrom(n + 1)'
    BY <2>1, <2>2, <2>4, ChainConstants DEF SettledBelow, OpenFrom, Settled, Steps
  <2>6. UpInTurn'
    <3>1. \A m \in Steps : steps'[m].status = "active" => m = n
      BY <2>1, <2>4
    <3> QED BY <1>0, <2>2, <2>5, <3>1 DEF UpInTurn
  <2> QED BY <1>0, <2>2, <2>3, <2>6 DEF RouteInv, OneCarrier, Carried, AllSettled
<1> QED BY <1>1, <1>2, <1>3 DEF FlipStep, CloseReview

LEMMA OtherRoute ==
  ASSUME TypeInv, RouteInv,
         \/ ReviewStep \/ Abort \/ Reconcile \/ Crash \/ UNCHANGED vars
         \/ \E h \in Handlers, i \in events : Handle(h, i)
         \/ \E n \in halts : HaltStep(n)
         \/ \E h \in Engine : Throws(h)
  PROVE  RouteInv'
<1>0. /\ engine \in [Engine -> EngineType] /\ steps \in [Steps -> StepType]
  BY DEF TypeInv, Typed
<1>1. CASE ReviewStep
  <2>1. run' = run /\ engine' = engine
    BY <1>1 DEF ReviewStep, Decide, Archive, Unarchive, Delete
  <2>2. \A n \in Steps : steps'[n].status = steps[n].status
    BY <1>0, <1>1 DEF ReviewStep, Decide, Archive, Unarchive, Delete, StepType
  <2> QED BY <2>1, <2>2, TokenStays DEF Carries
<1>2. CASE Abort
  <2>1. run = "active" /\ run' = "aborted" /\ engine' = engine
    BY <1>2 DEF Abort
  <2>2. \A n \in Steps :
          /\ steps'[n].status # "active"
          /\ \/ steps'[n].status = steps[n].status
             \/ /\ steps[n].status \in {"active", "pending"} /\ steps'[n].status = "skipped"
    BY <1>0, <1>2 DEF Abort, StepType
  <2> QED BY <2>1, <2>2, TokenStays DEF Carries
<1>3. CASE Reconcile \/ UNCHANGED vars
  <2>1. UNCHANGED <<run, engine, steps>>
    BY <1>3 DEF Reconcile, vars
  <2> QED BY <2>1, TokenStays DEF Carries
<1>4. ASSUME NEW h \in Handlers, NEW i \in events, Handle(h, i) PROVE RouteInv'
  <2>1. run' = run /\ steps' = steps
    BY <1>4 DEF Handle
  <2>2. \A k \in Engine : Carries(k)' => Carries(k) /\ engine'[k] = engine[k]
    BY <1>0, <1>4 DEF Handle, Carries
  <2> QED BY <2>1, <2>2, TokenStays DEF Carries
<1>5. ASSUME NEW n \in halts, HaltStep(n) PROVE RouteInv'
  <2>1. run' = run /\ engine' = engine /\ n \in Steps
    BY <1>5 DEF HaltStep, TypeInv, Typed
  <2>2. \A m \in Steps :
          \/ steps'[m].status = steps[m].status
          \/ /\ steps[m].status \in {"active", "pending"} /\ steps'[m].status = "skipped"
    BY <1>0, <1>5, <2>1 DEF HaltStep, StepType
  <2> QED BY <2>1, <2>2, TokenStays DEF Carries
<1>6. ASSUME NEW h \in Engine, Throws(h) PROVE RouteInv'
  <2>1. run' = run /\ steps' = steps
    BY <1>6 DEF Throws
  <2>2. \A k \in Engine : Carries(k)' => Carries(k) /\ engine'[k] = engine[k]
    BY <1>0, <1>6, RestType DEF Throws, Leave, Carries
  <2> QED BY <2>1, <2>2, TokenStays
<1>7. CASE Crash
  <2>1. run' = run /\ steps' = steps /\ \A k \in Engine : ~Carries(k)'
    BY <1>7, RestType DEF Crash, Carries
  <2> QED BY <2>1, TokenStays
<1> QED BY <1>1, <1>2, <1>3, <1>4, <1>5, <1>6, <1>7

LEMMA NextRouteInv == TypeInv /\ RouteInv /\ [Next]_vars => RouteInv'
<1> SUFFICES ASSUME TypeInv, RouteInv, [Next]_vars PROVE RouteInv'
  OBVIOUS
<1>1. ASSUME NEW h \in Engine, Proceed(h) PROVE RouteInv'
  BY <1>1, ClaimRoute, RecheckRoute, EndRoute, BranchRoute, MaterializeRoute DEF Proceed
<1> QED BY <1>1, CreateRunRoute, OtherRoute DEF Next

\* Approvers are asked in order and none is passed over, for every number of steps and
\* handlers, every policy, and whatever is lost, repeated or aborted on the way.
THEOREM ApproversInOrder == Spec => []NobodyPassedOver
<1>1. Spec => [](TypeInv /\ RouteInv)
  BY InitTypeInv, NextTypeInv, InitRouteInv, NextRouteInv, PTL DEF Spec
<1> QED BY <1>1, RouteInvSays, PTL

-----------------------------------------------------------------------------
(***************************************************************************)
(* The end.                                                                *)
(***************************************************************************)
EndKept ==
    Over => /\ run' = run
            /\ \A n \in Steps : steps'[n].status = "active" => steps[n].status = "active"

LEMMA EndIsKept ==
  ASSUME Typed, [Next]_vars PROVE EndKept
<1> SUFFICES ASSUME Over PROVE EndKept
  BY DEF EndKept
<1>0. run # "absent" /\ run # "active" /\ steps \in [Steps -> StepType]
      /\ engine \in [Engine -> EngineType] /\ halts \subseteq Steps
  BY DEF Over, Typed
<1>1. run' = run
  BY <1>0 DEF Next, vars, CreateRun, ReviewStep, Decide, Archive, Unarchive, Delete, Handle,
     Proceed, Claim, Recheck, CompleteRun, RejectRun, StillActive, BranchResetSteps,
     BranchResetTarget, InsertReview, FlipStep, CloseReview, Abort, Reconcile, HaltStep,
     Throws, Crash
<1>2. ASSUME NEW n \in Steps, steps'[n].status = "active" PROVE steps[n].status = "active"
  <2>1. CASE ReviewStep
    BY <1>0, <1>2, <2>1 DEF ReviewStep, Decide, Archive, Unarchive, Delete, StepType
  <2>2. ASSUME NEW h \in Engine, Proceed(h) PROVE steps[n].status = "active"
    <3>1. CASE Claim(h)
      BY <1>0, <1>2, <3>1 DEF Claim, Claimable, StepType
    <3>2. CASE BranchResetSteps(h) \/ BranchResetTarget(h)
      BY <1>0, <1>2, <3>2 DEF BranchResetSteps, BranchResetTarget, Reset
    <3>3. CASE ~(Claim(h) \/ BranchResetSteps(h) \/ BranchResetTarget(h))
      BY <1>0, <1>2, <2>2, <3>3 DEF Proceed, Recheck, CompleteRun, RejectRun, InsertReview,
         FlipStep, Flippable, CloseReview
    <3> QED BY <3>1, <3>2, <3>3
  <2>3. CASE \E m \in halts : HaltStep(m)
    BY <1>0, <1>2, <2>3 DEF HaltStep, StepType
  <2>4. CASE \/ \E h \in Handlers, i \in events : Handle(h, i)
             \/ \E h \in Engine : Throws(h)
             \/ Reconcile \/ Crash \/ UNCHANGED vars
    BY <1>2, <2>4 DEF Handle, Throws, Reconcile, Crash, vars
  <2>5. ~CreateRun /\ ~Abort
    BY <1>0 DEF CreateRun, Abort
  <2> QED BY <2>1, <2>2, <2>3, <2>4, <2>5 DEF Next
<1> QED BY <1>1, <1>2 DEF EndKept

\* What is over is over, for every policy and any number of handlers about to advance,
\* branch or complete.
THEOREM EndIsFinal == Spec => OverIsOver
<1>1. Spec => []TypeInv
  BY InitTypeInv, NextTypeInv, PTL DEF Spec
<1> DEFINE Kept ==
      Over => /\ run' = run
              /\ \A n \in Steps : steps'[n].status = "active" => steps[n].status = "active"
<1>2. TypeInv /\ [Next]_vars => Kept
  BY EndIsKept DEF EndKept, TypeInv
<1>3. Spec => [][Kept]_vars
  BY <1>1, <1>2, PTL DEF Spec
<1> QED BY <1>3 DEF OverIsOver

-----------------------------------------------------------------------------
Held(i) == \E h \in Engine : engine[h].review = i /\ Making(h)

NoLoose ==
    run = "aborted" /\ faults = 0 =>
        \A i \in DOMAIN reviews : reviews[i].status = "open" => Held(i)

LEMMA NoLooseSays == NoLoose => NothingLeftOpen
  BY DEF NoLoose, NothingLeftOpen, Held, Making

\* No review is opened, and whoever holds one goes on holding it.
LEMMA NoneOpened ==
  ASSUME NoLoose, run' = run, faults' = faults, DOMAIN reviews' = DOMAIN reviews,
         \A i \in DOMAIN reviews : reviews'[i].status = "open" => reviews[i].status = "open",
         \A h \in Engine : Making(h) =>
            \/ Making(h)' /\ engine'[h].review = engine[h].review
            \/ run # "aborted"
            \/ engine[h].review \in DOMAIN reviews
               => reviews'[engine[h].review].status # "open"
  PROVE  NoLoose'
  BY DEF NoLoose, Held

LEMMA NextNoLoose == TypeInv /\ NoLoose /\ [Next]_vars => NoLoose'
<1> SUFFICES ASSUME TypeInv, NoLoose, [Next]_vars PROVE NoLoose'
  OBVIOUS
<1>0. /\ engine \in [Engine -> EngineType] /\ reviews \in Seq(ReviewType) /\ faults \in Nat
  BY DEF TypeInv, Typed, BoundsOK
<1>1. CASE \/ CreateRun
           \/ run' # run /\ \E h \in Engine : CompleteRun(h) \/ RejectRun(h)
  BY <1>1 DEF CreateRun, CompleteRun, RejectRun, NoLoose
<1>2. CASE ReviewStep
  <2>1. /\ run' = run /\ engine' = engine /\ faults' = faults
        /\ DOMAIN reviews' = DOMAIN reviews
    BY <1>0, <1>2 DEF ReviewStep, Decide, Archive, Unarchive, Delete, bounds
  <2>2. \A i \in DOMAIN reviews : reviews'[i].status = "open" => reviews[i].status = "open"
    <3>1. ASSUME NEW i \in DOMAIN reviews, NEW d, Decide(i, d)
          PROVE  \A j \in DOMAIN reviews : reviews'[j].status = "open" => reviews[j].status = "open"
      <4>1. \A j \in DOMAIN reviews :
              reviews'[j] = IF j = i THEN [reviews[i] EXCEPT !.status = "decided", !.decision = d]
                                     ELSE reviews[j]
        BY <1>0, <3>1 DEF Decide
      <4>2. reviews[i] \in ReviewType
        BY <1>0
      <4>3. [reviews[i] EXCEPT !.status = "decided", !.decision = d].status = "decided"
        BY <4>2 DEF ReviewType
      <4> QED BY <4>1, <4>3
    <3>2. ASSUME NEW i \in DOMAIN reviews, Archive(i) \/ Unarchive(i) \/ Delete(i)
          PROVE  \A j \in DOMAIN reviews : reviews'[j].status = "open" => reviews[j].status = "open"
      <4>1. PICK s : s # "open" /\ reviews' = [reviews EXCEPT ![i].status = s]
        BY <3>2 DEF Archive, Unarchive, Delete
      <4>2. reviews[i] \in ReviewType
        BY <1>0
      <4>3. \A j \in DOMAIN reviews :
              reviews'[j] = IF j = i THEN [reviews[i] EXCEPT !.status = s] ELSE reviews[j]
        BY <1>0, <4>1
      <4>4. [reviews[i] EXCEPT !.status = s].status = s
        BY <4>2 DEF ReviewType
      <4> QED BY <4>1, <4>3, <4>4
    <3> QED BY <1>2, <3>1, <3>2 DEF ReviewStep
  <2> QED BY <2>1, <2>2, NoneOpened DEF Making
<1>3. ASSUME NEW h \in Handlers, NEW i \in events, Handle(h, i) PROVE NoLoose'
  <2>1. UNCHANGED <<run, reviews, faults>> /\ \A k \in Engine : Making(k) => engine'[k] = engine[k]
    BY <1>0, <1>3 DEF Handle, Making, bounds
  <2> QED BY <2>1, NoneOpened DEF Making
<1>4. ASSUME NEW h \in Engine, Proceed(h) PROVE NoLoose'
  <2>1. CASE \/ Claim(h) \/ Recheck(h) \/ BranchResetSteps(h) \/ BranchResetTarget(h)
             \/ (CompleteRun(h) \/ RejectRun(h)) /\ run' = run
    <3>1. ~Making(h) /\ UNCHANGED <<run, reviews, faults>>
      BY <2>1 DEF Claim, Recheck, CompleteRun, RejectRun, BranchResetSteps, BranchResetTarget,
         Making, bounds
    <3>2. \A k \in Engine : k # h => engine'[k] = engine[k]
      BY <1>0, <2>1 DEF Claim, Recheck, CompleteRun, RejectRun, BranchResetSteps, BranchResetTarget,
         Goto, Leave
    <3>3. \A k \in Engine : Making(k) => engine'[k] = engine[k]
      BY <3>1, <3>2
    <3> QED BY <3>1, <3>3, NoneOpened DEF Making
  <2>2. CASE InsertReview(h)
    <3>0. PICK new : new = Len(reviews) + 1
      OBVIOUS
    <3>1. /\ run' = run /\ faults' = faults /\ engine[h].pc = "insert"
          /\ engine'[h].pc = "flip" /\ engine'[h].review = new
          /\ \A k \in Engine : k # h => engine'[k] = engine[k]
      BY <1>0, <2>2, <3>0 DEF InsertReview, bounds, EngineType
    <3>2. \A i \in DOMAIN reviews' :
            \/ i \in DOMAIN reviews /\ reviews'[i] = reviews[i]
            \/ i = new
      BY <1>0, <2>2, <3>0 DEF InsertReview
    <3>3. \A k \in Engine : Making(k) => Making(k)' /\ engine'[k] = engine[k]
      BY <3>1 DEF Making
    <3>4. Held(new)'
      BY <3>1 DEF Held, Making
    <3>5. ASSUME NEW i, Held(i) PROVE Held(i)'
      BY <3>3, <3>5 DEF Held
    <3> QED BY <3>1, <3>2, <3>4, <3>5 DEF NoLoose
  <2>3. CASE FlipStep(h)
    <3>1. UNCHANGED <<run, reviews, faults>> /\ engine[h].pc = "flip"
      BY <2>3 DEF FlipStep, bounds
    <3>2. /\ \A k \in Engine : k # h => engine'[k] = engine[k]
          /\ \/ run = "active"
             \/ engine'[h].pc = "close" /\ engine'[h].review = engine[h].review
      BY <1>0, <2>3 DEF FlipStep, Goto, Leave, Flippable, EngineType
    <3> QED BY <3>1, <3>2, NoneOpened DEF Making
  <2>4. CASE CloseReview(h)
    <3>1. /\ run' = run /\ faults' = faults
          /\ \A k \in Engine : k # h => engine'[k] = engine[k]
          /\ reviews' = Closed(engine[h].review)
      BY <1>0, <2>4 DEF CloseReview, Leave, bounds
    <3>2. PICK c : c = engine[h].review
      OBVIOUS
    <3>3. /\ DOMAIN reviews' = DOMAIN reviews
          /\ \A j \in DOMAIN reviews : j # c => reviews'[j] = reviews[j]
          /\ c \in DOMAIN reviews => reviews'[c].status # "open"
      BY <1>0, <3>1, <3>2 DEF Closed, ReviewType
    <3> QED BY <3>1, <3>2, <3>3, NoneOpened DEF Making
  <2> QED BY <1>1, <1>4, <2>1, <2>2, <2>3, <2>4 DEF Proceed
<1>5. CASE Abort
  <2>1. run' = "aborted" /\ \A i \in DOMAIN reviews' : reviews'[i].status # "open"
    <3>1. DOMAIN reviews' = DOMAIN reviews /\ run' = "aborted"
      BY <1>5 DEF Abort
    <3>2. ASSUME NEW i \in DOMAIN reviews PROVE reviews'[i].status # "open"
      <4>1. reviews[i] \in ReviewType
        BY <1>0
      <4> QED BY <1>5, <4>1 DEF Abort, ReviewType
    <3> QED BY <3>1, <3>2
  <2> QED BY <2>1 DEF NoLoose
<1>6. CASE Reconcile \/ UNCHANGED vars \/ \E n \in halts : HaltStep(n)
  <2>1. UNCHANGED <<run, reviews, engine, faults>>
    BY <1>6 DEF Reconcile, HaltStep, vars, bounds
  <2> QED BY <2>1, NoneOpened DEF Making
<1>7. CASE Crash \/ \E h \in Engine : Throws(h)
  <2>1. faults' # 0
    BY <1>0, <1>7 DEF Crash, Throws
  <2> QED BY <2>1 DEF NoLoose
<1> QED BY <1>1, <1>2, <1>3, <1>4, <1>5, <1>6, <1>7 DEF Next

\* An aborted run leaves nothing in an inbox that no invocation is about to close, for
\* any number of steps and handlers, as long as none died or threw.
THEOREM AbortLeavesNothing == Spec => []NothingLeftOpen
<1>1. Init => NoLoose
  BY DEF Init, NoLoose
<1>2. Spec => [](TypeInv /\ NoLoose)
  BY <1>1, InitTypeInv, NextTypeInv, NextNoLoose, PTL DEF Spec
<1> QED BY <1>2, NoLooseSays, PTL

-----------------------------------------------------------------------------
(***************************************************************************)
(* The token is never lost without a crash, an error, an archived or a     *)
(* deleted review: the part of RouteEnds that is no matter of fairness.    *)
(***************************************************************************)
Calm == faults = 0 /\ removals = 0

NothingRemoved ==
    halts = {} /\ \A i \in DOMAIN reviews : reviews[i].status \notin {"archived", "gone"}

\* A reviewer can still decide it, or has.
Wanted(i) == reviews[i].status \in {"open", "decided"}

StepsUp ==
    /\ \A n \in Steps : steps[n].status # "skipped"
    /\ \A n \in Steps : steps[n].status = "active" =>
          steps[n].review # NoReview /\ Wanted(steps[n].review)
    /\ \A h \in Engine : engine[h].pc = "flip" => Wanted(engine[h].review)

Token == \/ \E h \in Engine : Carries(h)
         \/ \E n \in Steps : steps[n].status = "active"

Alive == /\ removals \in Nat
         /\ Calm => NothingRemoved /\ (run = "active" => StepsUp /\ Token)

\* An invocation or a sweep that leaves the reviews alone and activates no step.
LEMMA AliveKept ==
  ASSUME Alive, reviews' = reviews, halts' = halts, removals' = removals, faults' = faults,
         run' = "active" => run = "active",
         \A n \in Steps : \/ steps'[n] = steps[n]
                          \/ steps'[n].status \in {"pending", "approved", "rejected"},
         \A k \in Engine : engine'[k].pc = "flip" =>
            engine[k].pc = "flip" /\ engine'[k].review = engine[k].review,
         run' = "active" /\ Token => Token'
  PROVE  Alive'
<1>1. NothingRemoved => NothingRemoved'
  BY DEF NothingRemoved
<1>2. StepsUp => StepsUp'
  BY DEF StepsUp, Wanted
<1> QED BY <1>1, <1>2 DEF Alive, Calm

\* The invocation has the token afterwards, or never had it.
LEMMA TokenKept ==
  ASSUME Token, NEW h \in Engine, \A k \in Engine : k # h => engine'[k] = engine[k],
         \/ Carries(h)'
         \/ ~Carries(h) /\ \A n \in Steps : steps'[n] = steps[n]
  PROVE  Token'
  BY DEF Token, Carries

LEMMA ProceedAlive ==
  ASSUME TypeInv, Alive, NEW h \in Engine,
         \/ Claim(h) \/ Recheck(h) \/ CompleteRun(h) \/ RejectRun(h)
         \/ BranchResetSteps(h) \/ BranchResetTarget(h)
  PROVE  Alive'
<1>0. /\ engine \in [Engine -> EngineType] /\ steps \in [Steps -> StepType]
      /\ engine[h].pc # "rest" => engine[h].step \in Steps
  BY DEF TypeInv, Typed, EngineOK
<1>1. /\ UNCHANGED <<reviews, halts, removals, faults>>
      /\ \A k \in Engine : k # h => engine'[k] = engine[k]
      /\ run' = "active" => run = "active"
  BY <1>0 DEF Claim, Recheck, CompleteRun, RejectRun, BranchResetSteps, BranchResetTarget,
     StillActive, Goto, Leave, bounds
<1>2. engine'[h].pc # "flip"
  <2>1. CASE Claim(h)
    <3>1. engine'[h].pc = "claimed" \/ engine'[h] = Rest
      BY <1>0, <2>1 DEF Claim, Goto, Leave, EngineType
    <3> QED BY <3>1 DEF Rest
  <2>2. CASE Recheck(h)
    <3>1. engine'[h] = Consequence(h) \/ engine'[h] = Rest
      BY <1>0, <2>2 DEF Recheck
    <3>2. Consequence(h).pc \in {"complete", "insert", "reset", "reject"}
      BY <1>0 DEF Consequence, EngineType
    <3> QED BY <3>1, <3>2 DEF Rest
  <2>3. CASE CompleteRun(h) \/ RejectRun(h)
    BY <1>0, <2>3 DEF CompleteRun, RejectRun, Leave, Rest
  <2>4. CASE BranchResetSteps(h)
    BY <1>0, <2>4 DEF BranchResetSteps, Goto, EngineType
  <2>5. CASE BranchResetTarget(h)
    BY <1>0, <2>5 DEF BranchResetTarget, EngineType
  <2> QED BY <2>1, <2>2, <2>3, <2>4, <2>5
<1>3. \A n \in Steps : \/ steps'[n] = steps[n]
                       \/ steps'[n].status \in {"pending", "approved", "rejected"}
  <2>1. CASE Claim(h)
    <3>1. engine[h].decision \in {"approved", "rejected"}
      BY <1>0, <2>1 DEF Claim, TypeInv, EngineOK, EngineType
    <3> QED BY <1>0, <2>1, <3>1 DEF Claim, StepType
  <2>2. CASE BranchResetSteps(h) \/ BranchResetTarget(h)
    BY <1>0, <2>2 DEF BranchResetSteps, BranchResetTarget, Reset
  <2>3. CASE Recheck(h) \/ CompleteRun(h) \/ RejectRun(h)
    BY <2>3 DEF Recheck, CompleteRun, RejectRun
  <2> QED BY <2>1, <2>2, <2>3
<1>4. ASSUME run' = "active", Token PROVE Token'
  <2>1. CASE Claim(h)
    <3>1. \/ engine'[h].pc = "claimed"
          \/ engine[h].pc = "claim" /\ steps' = steps
      <4>1. CASE Claimable(engine[h].step)
        BY <1>0, <2>1, <4>1 DEF Claim, Goto, EngineType
      <4>2. CASE ~Claimable(engine[h].step)
        BY <2>1, <4>2 DEF Claim
      <4> QED BY <4>1, <4>2
    <3> QED BY <1>1, <1>4, <3>1, TokenKept DEF Carries
  <2>2. CASE Recheck(h)
    <3>1. engine'[h] = Consequence(h)
      BY <1>0, <1>4, <2>2 DEF Recheck
    <3>2. engine'[h].pc \in {"complete", "insert", "reset", "reject"}
      BY <1>0, <3>1 DEF Consequence, EngineType
    <3> QED BY <1>1, <1>4, <3>2, TokenKept DEF Carries
  <2>3. CASE CompleteRun(h) \/ RejectRun(h)
    BY <1>4, <2>3 DEF CompleteRun, RejectRun, StillActive
  <2>4. CASE BranchResetSteps(h) \/ BranchResetTarget(h)
    <3>1. engine'[h].pc \in {"resetTarget", "insert"}
      BY <1>0, <2>4 DEF BranchResetSteps, BranchResetTarget, Goto, EngineType
    <3> QED BY <1>1, <1>4, <3>1, TokenKept DEF Carries
  <2> QED BY <2>1, <2>2, <2>3, <2>4
<1> QED BY <1>1, <1>2, <1>3, <1>4, AliveKept

LEMMA MaterializeAlive ==
  ASSUME TypeInv, RouteInv, Alive, NEW h \in Engine,
         InsertReview(h) \/ FlipStep(h) \/ CloseReview(h)
  PROVE  Alive'
<1>0. /\ engine \in [Engine -> EngineType] /\ steps \in [Steps -> StepType]
      /\ reviews \in Seq(ReviewType)
      /\ engine[h].pc # "rest" => engine[h].step \in Steps
  BY DEF TypeInv, Typed, EngineOK
<1>1. /\ UNCHANGED <<run, halts, removals, faults>>
      /\ \A k \in Engine : k # h => engine'[k] = engine[k]
  BY <1>0 DEF InsertReview, FlipStep, CloseReview, Goto, Leave, bounds
<1> SUFFICES ASSUME Calm, NothingRemoved, run = "active" => StepsUp /\ Token
             PROVE  NothingRemoved' /\ (run = "active" => StepsUp' /\ Token')
  BY <1>1 DEF Alive, Calm
<1>2. CASE InsertReview(h)
  <2>1. PICK row \in ReviewType : row.status = "open" /\ reviews' = Append(reviews, row)
    <3>1. engine[h].step \in Steps
      BY <1>0, <1>2 DEF InsertReview
    <3> DEFINE row == [step |-> engine[h].step, status |-> "open", decision |-> "none"]
    <3>2. row \in ReviewType /\ row.status = "open"
      BY <3>1 DEF ReviewType
    <3>3. reviews' = Append(reviews, row)
      BY <1>2 DEF InsertReview
    <3> QED BY <3>2, <3>3
  <2>2. /\ DOMAIN reviews = 1..Len(reviews) /\ DOMAIN reviews' = 1..(Len(reviews) + 1)
        /\ \A i \in DOMAIN reviews : reviews'[i] = reviews[i]
        /\ reviews'[Len(reviews) + 1].status = "open" /\ Len(reviews) \in Nat
    BY <1>0, <2>1
  <2>3. \A i \in DOMAIN reviews' : i \in DOMAIN reviews \/ i = Len(reviews) + 1
    BY <2>2
  <2>4. /\ steps' = steps /\ engine'[h].pc = "flip"
        /\ engine'[h].review = Len(reviews) + 1
    BY <1>0, <1>2 DEF InsertReview, EngineType
  <2>5. NothingRemoved'
    BY <1>1, <2>2, <2>3 DEF NothingRemoved
  <2>6. ASSUME run = "active" PROVE StepsUp' /\ Token'
    <3>1. \A n \in Steps : steps[n].review # NoReview => steps[n].review \in DOMAIN reviews
      BY DEF TypeInv, LinksOK
    <3>2. \A k \in Engine : engine[k].pc = "flip" => engine[k].review \in DOMAIN reviews
      BY DEF TypeInv, EngineOK, Making
    <3>3. StepsUp'
      BY <1>1, <2>2, <2>4, <2>6, <3>1, <3>2 DEF StepsUp, Wanted
    <3> QED BY <2>4, <3>3 DEF Token, Carries
  <2> QED BY <2>5, <2>6
<1>3. CASE FlipStep(h)
  <2>0. engine[h].pc = "flip" /\ reviews' = reviews /\ engine[h].step \in Steps
    BY <1>0, <1>3 DEF FlipStep
  <2>1. PICK n \in Steps : n = engine[h].step
    BY <2>0
  <2> DEFINE i == engine[h].review
  <2>2. i \in DOMAIN reviews /\ i # NoReview /\ reviews' = reviews /\ engine[h].pc = "flip"
    <3>1. i \in DOMAIN reviews
      BY <2>0 DEF TypeInv, EngineOK, Making
    <3> QED BY <1>0, <2>0, <3>1 DEF NoReview
  <2>3. NothingRemoved'
    BY <1>1, <2>2 DEF NothingRemoved
  <2>4. ASSUME run = "active" PROVE StepsUp' /\ Token'
    <3>1. steps[n].status = "pending"
      <4>1. OpenFrom(n) /\ n \in Int
        BY <2>1, <2>2, TokenAlone DEF Carries, CarrierOK
      <4> QED BY <2>4, <4>1 DEF OpenFrom, StepsUp
    <3>2. reviews[i].status # "gone"
      BY <2>2 DEF NothingRemoved
    <3>3. /\ steps'[n] = [status |-> "active", review |-> i]
          /\ \A m \in Steps : m # n => steps'[m] = steps[m]
          /\ engine'[h].pc = "rest"
      BY <1>0, <1>3, <2>1, <2>4, <3>1, <3>2 DEF FlipStep, Flippable, Leave, Rest
    <3>4. StepsUp'
      BY <1>1, <2>1, <2>2, <2>4, <3>3 DEF StepsUp, Wanted
    <3> QED BY <3>3, <3>4 DEF Token
  <2> QED BY <2>3, <2>4
<1>4. CASE CloseReview(h)
  <2>1. PICK i : i = engine[h].review
    OBVIOUS
  <2>2. /\ i \in DOMAIN reviews /\ engine[h].pc = "close" /\ engine'[h].pc = "rest"
        /\ steps' = steps
    BY <1>0, <1>4, <2>1 DEF CloseReview, Leave, Rest, TypeInv, EngineOK, Making
  <2>3. /\ DOMAIN reviews' = DOMAIN reviews /\ reviews'[i].status = "expired"
        /\ \A j \in DOMAIN reviews : j # i => reviews'[j] = reviews[j]
    BY <1>0, <1>4, <2>1, <2>2 DEF CloseReview, Closed, NothingRemoved, ReviewType
  <2>4. NothingRemoved'
    BY <1>1, <2>3 DEF NothingRemoved
  <2>5. ASSUME run = "active" PROVE StepsUp' /\ Token'
    <3>1. \A n \in Steps : /\ steps[n].review # i
                           /\ steps[n].review # NoReview => steps[n].review \in DOMAIN reviews
      BY <2>1, <2>2 DEF TypeInv, EngineOK, LinksOK, Making
    <3>2. \A k \in Engine : k # h /\ engine[k].pc = "flip" =>
             engine[k].review # i /\ engine[k].review \in DOMAIN reviews
      BY <2>1, <2>2 DEF TypeInv, EngineOK, Making
    <3>3. StepsUp'
      BY <1>1, <2>2, <2>3, <2>5, <3>1, <3>2 DEF StepsUp, Wanted
    <3>4. ~Carries(h) /\ Token
      BY <2>2, <2>5 DEF Carries
    <3> QED BY <1>1, <2>2, <3>3, <3>4, TokenKept
  <2> QED BY <2>4, <2>5
<1> QED BY <1>2, <1>3, <1>4

LEMMA ReviewStepAlive == ASSUME TypeInv, Alive, ReviewStep PROVE Alive'
<1>0. reviews \in Seq(ReviewType)
  BY DEF TypeInv, Typed
<1>1. PICK i \in DOMAIN reviews :
         \/ \E d \in {"approved", "rejected"} : Decide(i, d)
         \/ Archive(i) \/ Unarchive(i) \/ Delete(i)
  BY DEF ReviewStep
<1>2. ASSUME NEW d \in {"approved", "rejected"}, Decide(i, d) PROVE Alive'
  <2>1. /\ UNCHANGED <<run, steps, engine, halts, removals, faults>>
        /\ DOMAIN reviews' = DOMAIN reviews /\ reviews'[i].status = "decided"
        /\ \A j \in DOMAIN reviews : j # i => reviews'[j] = reviews[j]
    <3>1. UNCHANGED <<run, steps, engine, halts, removals, faults>>
      BY <1>2 DEF Decide
    <3>2. reviews' = [reviews EXCEPT ![i].status = "decided", ![i].decision = d]
      BY <1>2 DEF Decide
    <3>3. reviews[i] \in ReviewType
      BY <1>0
    <3> QED BY <1>0, <3>1, <3>2, <3>3 DEF ReviewType
  <2>2. NothingRemoved => NothingRemoved'
    BY <2>1 DEF NothingRemoved
  <2>3. ASSUME StepsUp PROVE StepsUp'
    <3>1. \A n \in Steps : steps[n].review # NoReview => steps[n].review \in DOMAIN reviews
      BY DEF TypeInv, LinksOK
    <3>2. \A k \in Engine : engine[k].pc = "flip" => engine[k].review \in DOMAIN reviews
      BY DEF TypeInv, EngineOK, Making
    <3> QED BY <2>1, <2>3, <3>1, <3>2 DEF StepsUp, Wanted
  <2>4. Token => Token'
    BY <2>1 DEF Token, Carries
  <2> QED BY <2>1, <2>2, <2>3, <2>4 DEF Alive, Calm
<1>3. CASE Archive(i) \/ Delete(i)
  BY <1>3 DEF Archive, Delete, Alive, Calm
<1>4. CASE Unarchive(i)
  BY <1>1, <1>4 DEF Unarchive, bounds, Alive, Calm, NothingRemoved
<1> QED BY <1>1, <1>2, <1>3, <1>4

LEMMA NextAlive == TypeInv /\ RouteInv /\ Alive /\ [Next]_vars => Alive'
<1> SUFFICES ASSUME TypeInv, RouteInv, Alive, [Next]_vars PROVE Alive'
  OBVIOUS
<1>0. /\ engine \in [Engine -> EngineType] /\ steps \in [Steps -> StepType] /\ faults \in Nat
  BY DEF TypeInv, Typed, BoundsOK
<1>1. CASE CreateRun
  <2>1. /\ reviews = <<>> /\ UNCHANGED <<reviews, halts, removals, faults>>
        /\ \A k \in Engine : engine[k].pc = "rest"
    BY <1>1 DEF CreateRun, bounds, TypeInv, NothingBeforeRun, Rest
  <2>2. /\ Creator \in Engine /\ engine'[Creator].pc = "insert"
        /\ \A k \in Engine : engine'[k].pc # "flip"
        /\ \A n \in Steps : steps'[n].status = "pending"
    BY <1>0, <1>1, <2>1 DEF CreateRun, Engine, Rest
  <2>3. StepsUp' /\ Token'
    BY <2>2 DEF StepsUp, Token, Carries
  <2> QED BY <2>1, <2>3 DEF Alive, Calm, NothingRemoved
<1>2. ASSUME NEW h \in Handlers, NEW i \in events, Handle(h, i) PROVE Alive'
  <2>1. /\ UNCHANGED <<run, steps, reviews, halts, removals, faults>>
        /\ h \in Engine /\ engine[h].pc = "rest"
        /\ \A k \in Engine : k # h => engine'[k] = engine[k]
        /\ engine'[h].pc \in {"rest", "claim"}
    BY <1>0, <1>2 DEF Handle, Engine, bounds
  <2>2. Token => Token'
    BY <2>1, TokenKept DEF Carries
  <2> QED BY <2>1, <2>2, AliveKept
<1>3. ASSUME NEW h \in Engine, Proceed(h) PROVE Alive'
  BY <1>3, ProceedAlive, MaterializeAlive DEF Proceed
<1>4. CASE Abort
  BY <1>4 DEF Abort, bounds, Alive, Calm, NothingRemoved
<1>5. CASE Reconcile
  <2>1. UNCHANGED <<run, steps, reviews, engine, removals, faults>> /\ run = "active"
    BY <1>5 DEF Reconcile, bounds
  <2>2. Calm => halts' = halts
    BY <1>5 DEF Reconcile, Alive, StepsUp
  <2>3. Calm' = Calm /\ (NothingRemoved /\ halts' = halts => NothingRemoved')
        /\ (StepsUp => StepsUp') /\ (Token => Token')
    BY <2>1 DEF Calm, NothingRemoved, StepsUp, Wanted, Token, Carries
  <2> QED BY <2>1, <2>2, <2>3 DEF Alive
<1>6. ASSUME NEW n \in halts, HaltStep(n) PROVE Alive'
  <2>1. UNCHANGED <<removals, faults>> /\ ~NothingRemoved
    BY <1>6 DEF HaltStep, bounds, NothingRemoved
  <2> QED BY <2>1 DEF Alive, Calm
<1>7. CASE Crash \/ \E h \in Engine : Throws(h)
  BY <1>0, <1>7 DEF Crash, Throws, Alive, Calm
<1>8. CASE UNCHANGED vars
  <2>1. UNCHANGED <<run, steps, reviews, engine, halts, removals, faults>>
    BY <1>8 DEF vars, bounds
  <2>2. Token => Token'
    BY <2>1 DEF Token, Carries
  <2> QED BY <2>1, <2>2, AliveKept
<1> QED BY <1>1, <1>2, <1>3, <1>4, <1>5, <1>6, <1>7, <1>8, ReviewStepAlive DEF Next

\* Somebody is to act for an active run, and one only: an invocation that carries it to
\* its next step, or the reviewer (or the handler of the decision) of the step that is
\* up, whose review can be decided.
RunInOnePlace ==
    faults = 0 /\ removals = 0 /\ run = "active" =>
        \/ /\ \E h \in Engine : Carries(h) /\ \A k \in Engine : Carries(k) => k = h
           /\ \A n \in Steps : steps[n].status # "active"
        \/ /\ \A h \in Engine : ~Carries(h)
           /\ \E n \in Steps : /\ steps[n].status = "active"
                               /\ \A m \in Steps : steps[m].status = "active" => m = n
                               /\ steps[n].review \in DOMAIN reviews
                               /\ reviews[steps[n].review].status \in {"open", "decided"}

\* Without a crash, an error or a review removed under it an active run is never
\* left with nobody to move it on, however it branches back and whoever decides twice:
\* the deadlock the comment in branchToStep tells of cannot come back.
THEOREM RouteNeverStranded == Spec => []RunInOnePlace
<1>1. Init => Alive
  BY DEF Init, Alive, Calm, NothingRemoved
<1>2. Spec => [](TypeInv /\ RouteInv /\ Alive)
  BY <1>1, InitTypeInv, NextTypeInv, InitRouteInv, NextRouteInv, NextAlive, PTL DEF Spec
<1>3. TypeInv /\ RouteInv /\ Alive => RunInOnePlace
  <2> SUFFICES ASSUME TypeInv, RouteInv, Alive, faults = 0, removals = 0, run = "active"
               PROVE  \/ /\ \E h \in Engine : Carries(h) /\ \A k \in Engine : Carries(k) => k = h
                         /\ \A n \in Steps : steps[n].status # "active"
                      \/ /\ \A h \in Engine : ~Carries(h)
                         /\ \E n \in Steps :
                               /\ steps[n].status = "active"
                               /\ \A m \in Steps : steps[m].status = "active" => m = n
                               /\ steps[n].review \in DOMAIN reviews
                               /\ reviews[steps[n].review].status \in {"open", "decided"}
    BY DEF RunInOnePlace
  <2>1. StepsUp /\ Token
    BY DEF Alive, Calm
  <2>2. CASE \E h \in Engine : Carries(h)
    BY <2>2 DEF RouteInv, OneCarrier, Carried
  <2>3. CASE \A h \in Engine : ~Carries(h)
    <3>1. PICK n \in Steps : steps[n].status = "active"
      BY <2>1, <2>3 DEF Token
    <3>2. steps[n].review \in DOMAIN reviews /\ Wanted(steps[n].review)
      BY <2>1, <3>1 DEF StepsUp, TypeInv, LinksOK
    <3>3. ASSUME NEW m \in Steps, steps[m].status = "active", m # n PROVE FALSE
      <4>1. m \in Int /\ n \in Int /\ OpenFrom(m + 1) /\ OpenFrom(n + 1)
        BY <3>1, <3>3, ChainConstants DEF Steps, RouteInv, UpInTurn
      <4>2. m + 1 <= n \/ n + 1 <= m
        BY <3>3, <4>1
      <4> QED BY <3>1, <3>3, <4>1, <4>2 DEF OpenFrom
    <3> QED BY <2>3, <3>1, <3>2, <3>3 DEF Wanted
  <2> QED BY <2>2, <2>3
<1> QED BY <1>2, <1>3, PTL

-----------------------------------------------------------------------------
(***************************************************************************)
(* The refinement of ChainRoute: how far the route has come is where the   *)
(* leading settled steps end, and a step of the engine moves that frontier *)
(* as a step of the route does.                                            *)
(***************************************************************************)
LEMMA FrontCount ==
  ASSUME NEW S, NEW k \in 0..Last,
         \A m \in Steps : m <= k => m \in S,
         k # Last => k + 1 \notin S
  PROVE  Cardinality({n \in Steps : \A m \in 1..n : m \in S}) = k
<1>1. {n \in Steps : \A m \in 1..n : m \in S} = 1..k
  <2>1. ASSUME NEW n \in Steps, \A m \in 1..n : m \in S PROVE n \in 1..k
    BY <2>1, ChainConstants DEF Steps
  <2>2. ASSUME NEW n \in 1..k PROVE n \in Steps /\ \A m \in 1..n : m \in S
    BY <2>2, ChainConstants DEF Steps
  <2> QED BY <2>1, <2>2
<1>2. Cardinality(1..k) = IF 1 > k THEN 0 ELSE k - 1 + 1
  BY FS_Interval
<1>3. Cardinality(1..k) = k
  BY <1>2, ChainConstants
<1> QED BY <1>1, <1>3

Front(k) ==
    /\ \A m \in Steps : m <= k => Settled(m)
    /\ k # Last => ~Settled(k + 1)

LEMMA FrontIsPrefix ==
  ASSUME NEW k \in 0..Last
  PROVE  (Front(k) => Prefix = k) /\ (Front(k)' => Prefix' = k)
<1>0. \A n \in Steps : 1..n \subseteq Steps
  BY ChainConstants DEF Steps
<1>1. ASSUME Front(k) PROVE Prefix = k
  <2> DEFINE S == {m \in Steps : Settled(m)}
  <2>1. {n \in Steps : \A m \in 1..n : Settled(m)} = {n \in Steps : \A m \in 1..n : m \in S}
    BY <1>0
  <2>2. Cardinality({n \in Steps : \A m \in 1..n : m \in S}) = k
    BY <1>1, FrontCount DEF Front
  <2> QED BY <2>1, <2>2 DEF Prefix
<1>2. ASSUME Front(k)' PROVE Prefix' = k
  <2> DEFINE S == {m \in Steps : Settled(m)'}
  <2>1. {n \in Steps : \A m \in 1..n : Settled(m)'} = {n \in Steps : \A m \in 1..n : m \in S}
    BY <1>0
  <2>2. Cardinality({n \in Steps : \A m \in 1..n : m \in S}) = k
    BY <1>2, FrontCount DEF Front
  <2> QED BY <2>1, <2>2 DEF Prefix
<1> QED BY <1>1, <1>2

LEMMA FrontStays ==
  ASSUME \A n \in Steps : Settled(n)' <=> Settled(n)
  PROVE  Prefix' = Prefix
<1>0. \A n \in Steps : 1..n \subseteq Steps
  BY ChainConstants DEF Steps
<1>1. {n \in Steps : \A m \in 1..n : Settled(m)'} = {n \in Steps : \A m \in 1..n : Settled(m)}
  BY <1>0
<1> QED BY <1>1 DEF Prefix

\* The frontier is just below a step that is up, or carried and not settled.
LEMMA FrontBelow ==
  ASSUME NEW n \in Steps
  PROVE  /\ n - 1 \in 0..Last /\ n \in 0..Last
         /\ SettledBelow(n) /\ ~Settled(n) => Front(n - 1)
         /\ SettledBelow(n)' /\ ~Settled(n)' => Front(n - 1)'
         /\ SettledBelow(n + 1) /\ OpenFrom(n + 1) => Front(n)
         /\ SettledBelow(n + 1)' /\ OpenFrom(n + 1)' => Front(n)'
<1>0. Last \in Nat /\ n \in 1..Last /\ n \in Int
  BY ChainConstants DEF Steps
<1>1. n - 1 \in 0..Last /\ n \in 0..Last /\ n - 1 + 1 = n
  BY <1>0
<1>2. \A m \in Steps : m \in Int /\ (m <= n - 1 <=> m < n) /\ (m <= n <=> m < n + 1)
  BY <1>0 DEF Steps
<1>3. n # Last => n + 1 \in Steps /\ n + 1 <= n + 1
  BY <1>0 DEF Steps
<1>4. SettledBelow(n) /\ ~Settled(n) => Front(n - 1)
  BY <1>1, <1>2 DEF SettledBelow, Front
<1>5. SettledBelow(n)' /\ ~Settled(n)' => Front(n - 1)'
  BY <1>1, <1>2 DEF SettledBelow, Front
<1>6. SettledBelow(n + 1) /\ OpenFrom(n + 1) => Front(n)
  BY <1>2, <1>3 DEF SettledBelow, OpenFrom, Front, Settled
<1>7. SettledBelow(n + 1)' /\ OpenFrom(n + 1)' => Front(n)'
  BY <1>2, <1>3 DEF SettledBelow, OpenFrom, Front, Settled
<1> QED BY <1>1, <1>4, <1>5, <1>6, <1>7

LEMMA RouteInit == Init => Route!Init
<1> SUFFICES ASSUME Init PROVE Route!Init
  OBVIOUS
<1>1. Front(0)
  BY ChainConstants DEF Init, Front, Settled, Steps
<1>2. 0 \in 0..Last
  BY ChainConstants
<1> QED BY <1>1, <1>2, FrontIsPrefix DEF Init, Route!Init

LEMMA ClaimOnRoute ==
  ASSUME TypeInv, RouteInv, NEW h \in Engine, Claim(h)
  PROVE  Route!Advance \/ UNCHANGED <<run, Prefix>>
<1>0. /\ engine[h].pc = "claim" /\ steps \in [Steps -> StepType] /\ run' = run
      /\ engine[h].decision \in {"approved", "rejected"}
  BY DEF TypeInv, Typed, EngineOK, EngineType, Claim
<1>1. PICK n \in Steps : n = engine[h].step /\ n \in Int /\ n + 1 \in Int /\ n <= Last
  BY <1>0, Underway, ChainConstants DEF Steps
<1>2. CASE ~Claimable(n)
  <2>1. steps' = steps
    BY <1>1, <1>2 DEF Claim
  <2> QED BY <1>0, <2>1, FrontStays DEF Settled
<1>3. CASE Claimable(n)
  <2>1. /\ run = "active" /\ SettledBelow(n) /\ OpenFrom(n + 1) /\ ~Settled(n)
    BY <1>3 DEF Claimable, RouteInv, UpInTurn, Settled
  <2>2. \A m \in Steps : m # n => steps'[m] = steps[m]
    BY <1>0, <1>1, <1>3 DEF Claim
  <2>3. CASE ~Settled(n)'
    BY <1>0, <2>1, <2>2, <2>3, FrontStays DEF Settled
  <2>4. CASE Settled(n)'
    <3>1. SettledBelow(n + 1)' /\ OpenFrom(n + 1)'
      <4>1. \A m \in Steps : m < n + 1 => m < n \/ m = n
        BY <1>1, ChainConstants DEF Steps
      <4>2. \A m \in Steps : n + 1 <= m => m # n
        BY <1>1
      <4> QED BY <2>1, <2>2, <2>4, <4>1, <4>2 DEF SettledBelow, OpenFrom, Settled
    <3>2. Prefix = n - 1 /\ Prefix' = n
      BY <2>1, <3>1, FrontBelow, FrontIsPrefix
    <3> QED BY <1>0, <1>1, <2>1, <3>2, ChainConstants DEF Route!Advance
  <2> QED BY <2>3, <2>4
<1> QED BY <1>2, <1>3

LEMMA EndOnRoute ==
  ASSUME TypeInv, RouteInv, NEW h \in Engine, CompleteRun(h) \/ RejectRun(h)
  PROVE  Route!Complete \/ Route!Reject \/ UNCHANGED <<run, Prefix>>
<1>0. engine[h].pc \in {"complete", "reject"} /\ steps' = steps /\ Prefix' = Prefix
  BY FrontStays DEF CompleteRun, RejectRun, Settled
<1>1. PICK n \in Steps : n = engine[h].step /\ n \in Int /\ CarrierOK(h, n)
  BY <1>0, TokenAlone DEF Carries
<1>2. CASE run # "active"
  BY <1>0, <1>2 DEF CompleteRun, RejectRun, StillActive
<1>3. CASE run = "active" /\ CompleteRun(h)
  <2>1. SettledBelow(Last) /\ Settled(Last) /\ run' = "completed"
    BY <1>1, <1>3 DEF CompleteRun, CarrierOK, StillActive
  <2>2. Front(Last)
    <3>1. \A m \in Steps : m < Last \/ m = Last
      BY ChainConstants DEF Steps
    <3> QED BY <2>1, <3>1 DEF SettledBelow, Front
  <2>3. Prefix = Last
    BY <2>2, FrontIsPrefix, ChainConstants
  <2> QED BY <1>0, <1>3, <2>1, <2>3 DEF Route!Complete
<1>4. CASE run = "active" /\ RejectRun(h)
  <2>1. /\ SettledBelow(n) /\ ~Settled(n) /\ Policy[n] = "abort" /\ run' = "rejected"
    BY <1>1, <1>4 DEF RejectRun, CarrierOK, StillActive, Settled
  <2>2. Prefix = n - 1
    BY <2>1, FrontBelow, FrontIsPrefix
  <2>3. n - 1 < Last /\ n - 1 + 1 = n
    BY <1>1, ChainConstants DEF Steps
  <2> QED BY <1>0, <1>4, <2>1, <2>2, <2>3 DEF Route!Reject
<1> QED BY <1>2, <1>3, <1>4

LEMMA BranchOnRoute ==
  ASSUME TypeInv, RouteInv, RouteInv', NEW h \in Engine, BranchResetSteps(h) \/ BranchResetTarget(h)
  PROVE  Route!GoBack
<1>0. /\ engine \in [Engine -> EngineType] /\ engine[h] \in EngineType
      /\ engine[h].pc \in {"reset", "resetTarget"} /\ run' = run
  BY DEF TypeInv, Typed, BranchResetSteps, BranchResetTarget
<1>1. PICK n \in Steps :
        /\ n = engine[h].step /\ n \in Int /\ CarrierOK(h, n)
        /\ run \in {"active", "aborted"}
        /\ BranchTo[n] \in Steps /\ BranchTo[n] \in Int /\ BranchTo[n] < n
        /\ Policy[n] = "branch"
  BY <1>0, TokenAlone, TokenAt DEF Carries
<1>2. PICK b \in Steps : b = BranchTo[n] /\ b \in Int
  BY <1>1
<1>3. CASE BranchResetSteps(h)
  <2>1. SettledBelow(n) /\ ~Settled(n)
    BY <1>1, <1>3 DEF BranchResetSteps, CarrierOK, Settled
  <2>2. engine'[h].pc = "resetTarget" /\ engine'[h].step = n
    BY <1>0, <1>1, <1>3 DEF BranchResetSteps, Goto, EngineType
  <2>3. SettledBelow(b + 1)' /\ OpenFrom(b + 1)'
    BY <1>2, <2>2 DEF RouteInv, Carried, Carries, CarrierOK, SettledBelow, OpenFrom, Settled
  <2>4. Prefix = n - 1 /\ Prefix' = b
    BY <2>1, <2>3, FrontBelow, FrontIsPrefix
  <2> QED BY <1>0, <1>1, <1>2, <2>4 DEF Route!GoBack, Steps
<1>4. CASE BranchResetTarget(h)
  <2>1. SettledBelow(b + 1) /\ OpenFrom(b + 1)
    BY <1>1, <1>2, <1>4 DEF BranchResetTarget, CarrierOK
  <2>2. engine'[h].pc = "insert" /\ engine'[h].step = b
    BY <1>0, <1>1, <1>2, <1>4 DEF BranchResetTarget, EngineType
  <2>3. SettledBelow(b)' /\ OpenFrom(b)'
    BY <2>2 DEF RouteInv, Carried, Carries, CarrierOK, SettledBelow, OpenFrom, Settled
  <2>4. ~Settled(b)'
    BY <1>2, <2>3 DEF OpenFrom, Settled
  <2>5. Prefix = b /\ Prefix' = b - 1
    BY <2>1, <2>3, <2>4, FrontBelow, FrontIsPrefix
  <2> QED BY <1>0, <1>1, <1>2, <2>5 DEF Route!GoBack, Steps
<1> QED BY <1>3, <1>4

LEMMA OthersOnRoute ==
  ASSUME TypeInv,
         \/ ReviewStep \/ Reconcile \/ Crash \/ UNCHANGED vars
         \/ \E h \in Handlers, i \in events : Handle(h, i)
         \/ \E n \in halts : HaltStep(n)
         \/ \E h \in Engine : \/ Throws(h) \/ Recheck(h)
                              \/ InsertReview(h) \/ FlipStep(h) \/ CloseReview(h)
  PROVE  UNCHANGED <<run, Prefix>>
<1>0. /\ steps \in [Steps -> StepType] /\ engine \in [Engine -> EngineType] /\ halts \subseteq Steps
  BY DEF TypeInv, Typed
<1>1. run' = run
  BY DEF ReviewStep, Decide, Archive, Unarchive, Delete, Reconcile, Crash, vars, Handle, HaltStep,
     Throws, Recheck, InsertReview, FlipStep, CloseReview
<1>2. ASSUME NEW n \in Steps
      PROVE  \/ steps'[n].status = steps[n].status
             \/ /\ steps[n].status \in {"active", "pending"}
                /\ steps'[n].status \in {"active", "skipped"}
  <2>1. CASE ReviewStep
    BY <1>0, <2>1 DEF ReviewStep, Decide, Archive, Unarchive, Delete, StepType
  <2>2. CASE \E m \in halts : HaltStep(m)
    BY <1>0, <2>2 DEF HaltStep, StepType
  <2>3. ASSUME NEW h \in Engine, FlipStep(h)
        PROVE  \/ steps'[n].status = steps[n].status
               \/ /\ steps[n].status \in {"active", "pending"}
                  /\ steps'[n].status \in {"active", "skipped"}
    BY <1>0, <2>3 DEF FlipStep, Flippable, StepType
  <2>4. CASE steps' = steps
    BY <2>4
  <2> QED BY <2>1, <2>2, <2>3, <2>4 DEF Reconcile, Crash, vars, Handle, Throws, Recheck,
             InsertReview, CloseReview
<1>3. \A n \in Steps : Settled(n)' <=> Settled(n)
  BY <1>2 DEF Settled
<1> QED BY <1>1, <1>3, FrontStays

LEMMA StepOnRoute ==
  TypeInv /\ RouteInv /\ RouteInv' /\ [Next]_vars => [Route!Next]_(Route!route)
<1> SUFFICES ASSUME TypeInv, RouteInv, RouteInv', [Next]_vars
             PROVE  Route!Next \/ UNCHANGED <<run, Prefix>>
  BY DEF Route!route
<1>1. CASE CreateRun
  <2>1. /\ run = "absent" /\ run' = "active"
        /\ \A n \in Steps : steps[n].status = "pending" /\ steps'[n].status = "pending"
    BY <1>1 DEF CreateRun, TypeInv, NothingBeforeRun
  <2>2. Prefix' = Prefix
    BY <2>1, FrontStays DEF Settled
  <2> QED BY <2>1, <2>2 DEF Route!Next, Route!Start
<1>2. CASE Abort
  <2>1. run = "active" /\ run' = "aborted"
    BY <1>2 DEF Abort
  <2>2. ASSUME NEW n \in Steps PROVE Settled(n)' <=> Settled(n)
    <3>1. steps[n] \in StepType
      BY DEF TypeInv, Typed
    <3>2. steps'[n] = IF steps[n].status \in {"pending", "active"}
                      THEN [steps[n] EXCEPT !.status = "skipped"] ELSE steps[n]
      BY <1>2 DEF Abort
    <3>3. CASE steps[n].status \in {"pending", "active"}
      BY <3>1, <3>2, <3>3 DEF Settled, StepType
    <3>4. CASE steps[n].status \notin {"pending", "active"}
      BY <3>2, <3>4 DEF Settled
    <3> QED BY <3>3, <3>4
  <2>3. Prefix' = Prefix
    BY <2>2, FrontStays
  <2> QED BY <2>1, <2>3 DEF Route!Next, Route!Abort
<1>3. ASSUME NEW h \in Engine, Claim(h) PROVE Route!Next \/ UNCHANGED <<run, Prefix>>
  BY <1>3, ClaimOnRoute DEF Route!Next
<1>4. ASSUME NEW h \in Engine, CompleteRun(h) \/ RejectRun(h)
      PROVE  Route!Next \/ UNCHANGED <<run, Prefix>>
  BY <1>4, EndOnRoute DEF Route!Next
<1>5. ASSUME NEW h \in Engine, BranchResetSteps(h) \/ BranchResetTarget(h)
      PROVE  Route!Next \/ UNCHANGED <<run, Prefix>>
  BY <1>5, BranchOnRoute DEF Route!Next
<1>6. ASSUME NEW h \in Engine,
             \/ Throws(h) \/ Recheck(h) \/ InsertReview(h) \/ FlipStep(h) \/ CloseReview(h)
      PROVE  UNCHANGED <<run, Prefix>>
  BY <1>6, OthersOnRoute
<1>7. CASE \/ ReviewStep \/ Reconcile \/ Crash \/ UNCHANGED vars
           \/ \E h \in Handlers, i \in events : Handle(h, i)
           \/ \E n \in halts : HaltStep(n)
  BY <1>7, OthersOnRoute
<1> QED BY <1>1, <1>2, <1>3, <1>4, <1>5, <1>6, <1>7 DEF Next, Proceed

\* The engine keeps the promise of a route for every number of steps, every policy and
\* any number of handlers, events, decisions, faults and aborts: each step of it is a
\* step of ChainRoute or none.
THEOREM EngineImplementsRoute == Spec => ImplementsRoute
<1>1. Spec => [](TypeInv /\ RouteInv)
  BY InitTypeInv, NextTypeInv, InitRouteInv, NextRouteInv, PTL DEF Spec
<1>2. Spec => Route!Init /\ [][Route!Next]_(Route!route)
  BY <1>1, RouteInit, StepOnRoute, PTL DEF Spec
<1> QED BY <1>2 DEF ImplementsRoute, Route!Spec
=============================================================================
