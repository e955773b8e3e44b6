---------------------------- MODULE ReviewTokens ----------------------------
(***************************************************************************)
(* Share links (review_tokens) on top of the review's lifecycle: issuing,  *)
(* revoking and reclaiming, and the recipient who decides or declines      *)
(* through one.                                                            *)
(*                                                                         *)
(* A recipient's decision is three statements by two services: the link is *)
(* spent in a transaction of its own, executeReviewAction then loads and   *)
(* writes the review, and when it refuses the link is made usable again.   *)
(***************************************************************************)
EXTENDS ReviewLifecycle, Sequences

CONSTANTS
    Recipients,     \* requests that come through a share link
    MaxTokens       \* bound: links issued for the review

ASSUME TokenConstants == Recipients \subseteq Requests /\ MaxTokens \in Nat

VARIABLES
    tokens,         \* the review's rows of review_tokens, oldest first
    visit,          \* how far each recipient's request got with its link
    written,        \* history: decisions written with each link
    thrown          \* history: those of them whose handler failed after the write

history == <<written, thrown>>
tokenVars == <<tokens, visit, history>>
allVars == <<vars, tokenVars>>

Link == [preview : BOOLEAN, used : BOOLEAN, revoked : BOOLEAN, expired : BOOLEAN]
NoVisit == [step |-> "none", link |-> 0]

Spendable(link) == ~link.used /\ ~link.revoked /\ ~link.expired

\* The predicate revoke, extend and the reclaim sweep select with.
Active(i) == i \in DOMAIN tokens /\ Spendable(tokens[i]) /\ ~tokens[i].preview

Shared == review.status \in {"pending", "awaiting_external"}

-----------------------------------------------------------------------------
(***************************************************************************)
(* The operator's side.                                                    *)
(***************************************************************************)
Generate(preview) ==
    /\ Len(tokens) < MaxTokens
    /\ \/ review.status = "pending"
       \/ preview /\ review.status = "awaiting_external"
    /\ tokens' = Append(tokens, [preview |-> preview, used |-> FALSE,
                                 revoked |-> FALSE, expired |-> FALSE])
    /\ review' = IF preview THEN review
                 ELSE [review EXCEPT !.status = "awaiting_external"]
    /\ UNCHANGED <<due, creator, req, worker, told, snoozes, faults, visit, history>>

\* The newest active link is revoked; the review goes back to pending, whatever
\* its status.
Revoke ==
    \E i \in DOMAIN tokens :
        /\ Active(i) /\ \A j \in DOMAIN tokens : Active(j) => j <= i
        /\ tokens' = [tokens EXCEPT ![i].revoked = TRUE]
        /\ review' = [review EXCEPT !.status = "pending"]
        /\ UNCHANGED <<due, creator, req, worker, told, snoozes, faults, visit, history>>

\* expires_at passes; extend only moves that moment.
LinkExpires(i) ==
    /\ i \in DOMAIN tokens /\ ~tokens[i].expired
    /\ tokens' = [tokens EXCEPT ![i].expired = TRUE]
    /\ UNCHANGED <<vars, visit, history>>

\* Mutant: the sweep takes an expired link for an active one.
HeldByUnspent == \E i \in DOMAIN tokens :
                     ~tokens[i].used /\ ~tokens[i].revoked /\ ~tokens[i].preview

HeldByLink == \E i \in DOMAIN tokens : Active(i)

\* reclaimOrphanedExternalReviews, a sweep of the timeout worker.
Reclaim ==
    /\ review.status = "awaiting_external" /\ ~HeldByLink
    /\ review' = [review EXCEPT !.status = "pending"]
    /\ UNCHANGED <<due, creator, req, worker, told, snoozes, faults, tokenVars>>

-----------------------------------------------------------------------------
(***************************************************************************)
(* The recipient's side.                                                   *)
(***************************************************************************)
AtDoor(r) == req[r].pc = IF r \in Locking THEN "open" ELSE "idle"

\* validate and the preflight of the review's status.
Validate(r, i) ==
    /\ AtDoor(r) /\ visit[r] = NoVisit
    /\ Active(i) /\ Shared
    /\ visit' = [visit EXCEPT ![r] = [step |-> "validated", link |-> i]]
    /\ UNCHANGED <<vars, tokens, history>>

\* Mutants: consume does not look whether the link was revoked, or spent, since it was
\* validated.
ConsumableUnrevoked(i) ==
    i \in DOMAIN tokens /\ ~tokens[i].used /\ ~tokens[i].expired
ConsumableUnused(i) ==
    i \in DOMAIN tokens /\ ~tokens[i].revoked /\ ~tokens[i].expired

Consumable(i) == i \in DOMAIN tokens /\ Spendable(tokens[i])

\* consume: checks and stamps the link under its row lock, and the link only.
Consume(r) ==
    /\ visit[r].step = "validated" /\ Consumable(visit[r].link)
    /\ tokens' = [tokens EXCEPT ![visit[r].link].used = TRUE]
    /\ visit' = [visit EXCEPT ![r].step = "consumed"]
    /\ UNCHANGED <<vars, history>>

Refused(r) ==
    /\ visit[r].step = "validated" /\ ~Consumable(visit[r].link)
    /\ visit' = [visit EXCEPT ![r] = NoVisit]
    /\ UNCHANGED <<vars, tokens, history>>

\* executeReviewAction with the link's actor.
RecipientLoad(r, a) ==
    /\ visit[r].step = "consumed" /\ a \in {"approve", "reject"}
    /\ LoadReview(r, a)
    /\ UNCHANGED tokenVars

RecipientCommit(r) ==
    /\ visit[r].step = "consumed" /\ CommitAction(r)
    /\ written' = [written EXCEPT ![visit[r].link] = @ + 1]
    /\ UNCHANGED <<tokens, visit, thrown>>

RecipientAnnounce(r) ==
    /\ Announce(r)
    /\ visit' = [visit EXCEPT ![r] = NoVisit]
    /\ UNCHANGED <<tokens, history>>

\* executeReviewAction throws after its UPDATE (a lookup for the callback fails): the
\* decision stands, nothing is announced, and the handler undoes the consume.
RecipientAnnounceFails(r) ==
    /\ visit[r].step = "consumed" /\ req[r].pc = "committed" /\ faults < MaxFaults
    /\ req' = [req EXCEPT ![r] = IdleRequest]
    /\ visit' = [visit EXCEPT ![r].step = "undo"]
    /\ thrown' = [thrown EXCEPT ![visit[r].link] = @ + 1]
    /\ faults' = faults + 1
    /\ UNCHANGED <<review, due, creator, worker, told, snoozes, tokens, written>>

\* executeReviewAction throws: the review moved on, or its version did.
RecipientRejected(r) ==
    /\ visit[r].step = "consumed"
    /\ \/ CommitConflict(r)
       \/ /\ AtDoor(r)
          /\ \/ ~Shared
             \/ r \in Locking /\ req[r].version # review.current_version
          /\ req' = [req EXCEPT ![r] = IdleRequest]
          /\ UNCHANGED <<review, due, creator, worker, told, snoozes, faults>>
    /\ visit' = [visit EXCEPT ![r].step = "undo"]
    /\ UNCHANGED <<tokens, history>>

\* The compensating UPDATE, keyed by the link's id.
UndoConsume(r) ==
    /\ visit[r].step = "undo"
    /\ tokens' = IF visit[r].link \in DOMAIN tokens
                 THEN [tokens EXCEPT ![visit[r].link].used = FALSE] ELSE tokens
    /\ visit' = [visit EXCEPT ![r] = NoVisit]
    /\ UNCHANGED <<vars, history>>

RecipientCrash(r) ==
    /\ visit[r].step \in {"consumed", "undo"} /\ faults < MaxFaults
    /\ req' = [req EXCEPT ![r] = IdleRequest]
    /\ visit' = [visit EXCEPT ![r] = NoVisit]
    /\ faults' = faults + 1
    /\ UNCHANGED <<review, due, creator, worker, told, snoozes, tokens, history>>

\* decline and raise-questions: link and review in one transaction, both locked.
ConsumeAsRecipientAction(i) ==
    /\ Active(i) /\ Shared
    /\ tokens' = [tokens EXCEPT ![i].used = TRUE]
    /\ review' = [review EXCEPT !.status = "pending", !.current_version = @ + 1]
    /\ UNCHANGED <<due, creator, req, worker, told, snoozes, faults, visit, history>>

-----------------------------------------------------------------------------
\* Deleting the review deletes its links (ON DELETE CASCADE).
Cascade == tokens' = IF review'.status = "absent" THEN <<>> ELSE tokens

LifecycleStep ==
    /\ \/ CreateStep
       \/ \E r \in Requests \ Recipients : RequestStep(r)
       \/ \E w \in Workers : WorkerStep(w)
       \/ RowStep
       \/ TimeStep
    /\ Cascade
    /\ UNCHANGED <<visit, history>>

LinkStep ==
    \/ \E preview \in BOOLEAN : Generate(preview)
    \/ Revoke
    \/ \E i \in DOMAIN tokens : LinkExpires(i) \/ ConsumeAsRecipientAction(i)
    \/ Reclaim

RecipientStep(r) ==
    \/ visit[r] = NoVisit /\ (OpenPage(r) \/ LeavePage(r)) /\ UNCHANGED tokenVars
    \/ \E i \in DOMAIN tokens : Validate(r, i)
    \/ Consume(r) \/ Refused(r)
    \/ \E a \in OfferedActions : RecipientLoad(r, a)
    \/ RecipientCommit(r) \/ RecipientRejected(r) \/ UndoConsume(r)
    \/ RecipientAnnounce(r) \/ RecipientAnnounceFails(r) \/ RecipientCrash(r)

TokensInit ==
    /\ Init
    /\ tokens = <<>>
    /\ visit = [r \in Recipients |-> NoVisit]
    /\ written = [i \in 1..MaxTokens |-> 0] /\ thrown = written

TokensNext ==
    \/ LifecycleStep
    \/ LinkStep
    \/ \E r \in Recipients : RecipientStep(r)

TokensSpec == TokensInit /\ [][TokensNext]_allVars

\* Deadlines pass and the worker ticks every 30 s.
TokensFairSpec ==
    /\ TokensSpec
    /\ WF_allVars(\E i \in DOMAIN tokens : LinkExpires(i))
    /\ WF_allVars(Reclaim)

-----------------------------------------------------------------------------
(***************************************************************************)
(* Properties                                                              *)
(***************************************************************************)
\* Every variable stays in its domain; the link a request has spent and may yet give back
\* is marked spent for as long as the request is at work.  No link is both revoked and
\* spent, in whichever order the operator's revoke and the recipient's consume reach it:
\* review-tokens.ts:51 allows for that, but both look at the row under its lock.
TokensTypeOK ==
    /\ TypeOK
    /\ tokens \in Seq(Link) /\ Len(tokens) <= MaxTokens
    /\ visit \in [Recipients -> [step : {"none", "validated", "consumed", "undo"},
                                 link : 0..MaxTokens]]
    /\ written \in [1..MaxTokens -> Nat] /\ thrown \in [1..MaxTokens -> Nat]
    /\ \A r \in Recipients :
         visit[r].step \in {"consumed", "undo"} /\ tokens # <<>> =>
           tokens[visit[r].link].used
    /\ \A i \in DOMAIN tokens : ~(tokens[i].revoked /\ tokens[i].used)

\* A link carries one decision, however many recipients hold it open and however consume,
\* decision and compensating revert of several requests fall between one another; it
\* carries a further one only for each handler that failed after its decision was written
\* (and gave the link back).  While one of its decisions stands the link is spent
\* (routes/token-reviews-action.ts).
LinkDecidesOnce ==
    \A i \in 1..MaxTokens :
       /\ written[i] <= thrown[i] + 1
       /\ written[i] > thrown[i] /\ i \in DOMAIN tokens => tokens[i].used

\* A review handed to a recipient comes back: it does not stay awaiting_external
\* after its link expired, was spent by a request that crashed, was revoked or only
\* previews are left (reclaimOrphanedExternalReviews: "so it does not strand").
SharedReviewReturns ==
    review.status = "awaiting_external" ~> review.status # "awaiting_external"

(***************************************************************************)
(* Statements of the repository that the code does not keep.               *)
(***************************************************************************)
\* "There is at most one active token per review at any time"
\* (docs advanced/external-review.md:10, review-tokens.ts:183).
OneActiveLink == \A i, j \in DOMAIN tokens : Active(i) /\ Active(j) => i = j

\* "a single-use token" (openapi/paths/review-tokens.ts:55): the link of a decision whose
\* handler failed after the write is given back, and carries a second decision once the
\* write of a slower reviewer has put the review back to pending.
SingleUse == \A i \in 1..MaxTokens : written[i] <= 1

=============================================================================
