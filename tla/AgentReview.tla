---------------------------- MODULE AgentReview ----------------------------
(***************************************************************************)
(* What people do with the proposals of a generation run: they review      *)
(* them into a store of immutable files, and then either promote one of    *)
(* them to the candidate of a manual candidate task or close the run as    *)
(* rejected.  The promotion is a command of five steps, in files and in    *)
(* the database, each of which commits on its own:                         *)
(* src/src/hcuopt/deployment/bw20_agent_m1_promotion.py.  A command may    *)
(* die after any of them, and is then given again.                         *)
(*                                                                         *)
(* What a file holds fixes its name, so to publish the same thing twice is *)
(* to publish it once.  Different proposals give different sources: a      *)
(* proposal stands for its patch and for the source the patch makes.       *)
(* Worktrees and staging directories are left out.                         *)
(***************************************************************************)
EXTENDS FiniteSets

CONSTANTS
  Proposal,      \* the retained proposals of the run
  Review,        \* the reviews that somebody may want to give
  ReviewKey,     \* idempotency keys of reviews
  CandidateKey,  \* idempotency keys of candidates: they make their identity
  Promoter,      \* promotions that may be under way
  NoReview,      \* what a key without a review is bound to
  NoCandidate    \* no candidate, no package, no origin

ASSUME ReviewAssumption ==
  /\ \A v \in Review : v.proposal \in Proposal /\ v.key \in ReviewKey
                       /\ v.decision \in {"approved", "rejected"}
  /\ NoReview \notin Review
  /\ NoCandidate \notin CandidateKey

VARIABLES
  run,        \* the run: its state and the evidence of its review
  reviewing,  \* the reviews that are being published
  binding,    \* binding[k]: the review that the key k stands for
  reviews,    \* the reviews in the store
  packages,   \* packages[q]: the manifest of the package with the source of q
  candidate,  \* the candidate of the task: key, source and state
  origin,     \* the event that says where the candidate comes from
  promotion,  \* promotion[p]: the promotion that p is at
  closing     \* the reviews with which the run is being closed

rvars == <<run, reviewing, binding, reviews, packages, candidate, origin,
           promotion, closing>>

\* The evidence of a run's review says which candidate came of it, if any.
Evidence == [candidate : CandidateKey \cup {NoCandidate}, reviews : SUBSET Review]
Unreviewed == [candidate |-> NoCandidate, reviews |-> {}]
Summary(v, c) == [candidate |-> c, reviews |-> {v}]
Manifest == [candidate : CandidateKey, review : Review]
NoPackage == [candidate |-> NoCandidate, review |-> NoReview]
Unregistered == [key |-> NoCandidate, proposal |-> NoReview, state |-> "absent"]
Resting == [pc |-> "idle", review |-> NoReview, key |-> NoCandidate]

ReviewTypeOK ==
  /\ run \in [state : {"awaiting_review", "completed"}, evidence : Evidence]
  /\ reviewing \subseteq Review
  /\ binding \in [ReviewKey -> Review \cup {NoReview}]
  /\ reviews \subseteq Review
  /\ packages \in [Proposal -> Manifest \cup {NoPackage}]
  /\ candidate \in {Unregistered}
       \cup [key : CandidateKey, proposal : Proposal,
             state : {"queued", "awaiting_signoff", "accepted", "rejected"}]
  /\ origin \in Evidence
  /\ promotion \in [Promoter ->
       {Resting} \cup [pc : {"publish", "register", "complete", "record"},
                       review : Review, key : CandidateKey]]
  /\ closing \subseteq Review

ReviewInit ==
  /\ run = [state |-> "awaiting_review", evidence |-> Unreviewed]
  /\ reviewing = {} /\ reviews = {} /\ closing = {}
  /\ binding = [k \in ReviewKey |-> NoReview]
  /\ packages = [q \in Proposal |-> NoPackage]
  /\ candidate = Unregistered
  /\ origin = Unreviewed
  /\ promotion = [p \in Promoter |-> Resting]

-----------------------------------------------------------------------------
(* Reviews: agent-proposal-review                                          *)

\* review: the run has been read, its proposal resolved.
BeginReview(v) ==
  /\ run.state = "awaiting_review"
  /\ reviewing' = reviewing \cup {v}
  /\ UNCHANGED <<run, binding, reviews, packages, candidate, origin, promotion, closing>>

\* Mutant: the key is bound to whatever review comes with it.
BindReview_Anew(v) ==
  /\ v \in reviewing
  /\ binding' = [binding EXCEPT ![v.key] = v]
  /\ UNCHANGED <<run, reviewing, reviews, packages, candidate, origin, promotion, closing>>

\* _publish_idempotency_binding: the file is there for good.
BindReview(v) ==
  /\ v \in reviewing
  /\ binding[v.key] = NoReview
  /\ binding' = [binding EXCEPT ![v.key] = v]
  /\ UNCHANGED <<run, reviewing, reviews, packages, candidate, origin, promotion, closing>>

\* publish_review, once the key is bound to the review.
StoreReview(v) ==
  /\ v \in reviewing
  /\ binding[v.key] = v
  /\ reviews' = reviews \cup {v}
  /\ reviewing' = reviewing \ {v}
  /\ UNCHANGED <<run, binding, packages, candidate, origin, promotion, closing>>

\* The key stands for another review, or the command dies.
LeaveReview(v) ==
  /\ v \in reviewing
  /\ reviewing' = reviewing \ {v}
  /\ UNCHANGED <<run, binding, reviews, packages, candidate, origin, promotion, closing>>

-----------------------------------------------------------------------------
(* The review of the run is completed by a promotion or by a closure.      *)

\* Mutant: a replay is not compared with the evidence on record.
ReviewCompleted_Any(e) == run.state = "completed"

\* complete_generation_review answers: the same evidence once more is a replay.
ReviewCompleted(e) == run.state = "completed" /\ run.evidence = e

\* complete_generation_review writes.
CompleteRun(e) == run' = IF run.state = "awaiting_review"
                         THEN [state |-> "completed", evidence |-> e]
                         ELSE run

\* agent-generation-close-rejected: a rejected review of each proposal.
BeginClosing(R) ==
  /\ closing = {} /\ R # {}
  /\ run.state = "awaiting_review"
  /\ R \subseteq reviews
  /\ {v.proposal : v \in R} = Proposal
  /\ \A v \in R : v.decision = "rejected"
  /\ closing' = R
  /\ UNCHANGED <<run, reviewing, binding, reviews, packages, candidate, origin, promotion>>

CloseRejected ==
  /\ closing # {}
  /\ CompleteRun([candidate |-> NoCandidate, reviews |-> closing])
  /\ closing' = {}
  /\ UNCHANGED <<reviewing, binding, reviews, packages, candidate, origin, promotion>>

ClosingDies ==
  /\ closing # {}
  /\ closing' = {}
  /\ UNCHANGED <<run, reviewing, binding, reviews, packages, candidate, origin, promotion>>

-----------------------------------------------------------------------------
(* promote                                                                 *)

Goes(p, pc) == promotion' = [promotion EXCEPT ![p].pc = pc]
Stops(p) == promotion' = [promotion EXCEPT ![p] = Resting]

\* resolve, load_review and the checks at the head of publish.
MayPromote(v) ==
  run.state = "awaiting_review" /\ v \in reviews /\ v.decision = "approved"

BeginPromotion(p, v, c) ==
  /\ promotion[p].pc = "idle"
  /\ MayPromote(v)
  /\ promotion' = [promotion EXCEPT ![p] = [pc |-> "publish", review |-> v, key |-> c]]
  /\ UNCHANGED <<run, reviewing, binding, reviews, packages, candidate, origin, closing>>

\* The directory is named for the source it holds.  It may be there already,
\* but then with the same manifest.
PackageIsMine(q, manifest) == packages[q] \in {NoPackage, manifest}

\* CandidateSourcePackagePublisher.publish
PublishPackage(p) ==
  LET m == promotion[p]
      manifest == [candidate |-> m.key, review |-> m.review]
  IN /\ m.pc = "publish"
     /\ \/ /\ PackageIsMine(m.review.proposal, manifest)
           /\ packages' = [packages EXCEPT ![m.review.proposal] = manifest]
           /\ Goes(p, "register")
        \/ /\ ~PackageIsMine(m.review.proposal, manifest)
           /\ Stops(p)
           /\ UNCHANGED packages
     /\ UNCHANGED <<run, reviewing, binding, reviews, candidate, origin, closing>>

\* create_manual_candidate: the one candidate of the task, or a replay.
Register(p) ==
  LET m == promotion[p]
  IN /\ m.pc = "register"
     /\ \/ /\ candidate = Unregistered
           /\ candidate' = [key |-> m.key, proposal |-> m.review.proposal, state |-> "queued"]
           /\ Goes(p, "complete")
        \/ /\ candidate.key = m.key /\ candidate.proposal = m.review.proposal
           /\ Goes(p, "complete")
           /\ UNCHANGED candidate
        \/ /\ candidate # Unregistered
           /\ candidate.key # m.key \/ candidate.proposal # m.review.proposal
           /\ Stops(p)
           /\ UNCHANGED candidate
     /\ UNCHANGED <<run, reviewing, binding, reviews, packages, origin, closing>>

\* complete_generation_review, with the summary of the promotion.
CompletePromotion(p) ==
  LET e == Summary(promotion[p].review, promotion[p].key)
  IN /\ promotion[p].pc = "complete"
     /\ IF run.state = "awaiting_review" \/ ReviewCompleted(e)
        THEN Goes(p, "record") ELSE Stops(p)
     /\ CompleteRun(e)
     /\ UNCHANGED <<reviewing, binding, reviews, packages, candidate, origin, closing>>

\* record_manual_candidate_agent_origin: one event that nothing replaces.
RecordOrigin(p) ==
  LET e == Summary(promotion[p].review, promotion[p].key)
  IN /\ promotion[p].pc = "record"
     /\ origin' = IF origin = Unreviewed THEN e ELSE origin
     /\ Stops(p)
     /\ UNCHANGED <<run, reviewing, binding, reviews, packages, candidate, closing>>

PromotionDies(p) ==
  /\ promotion[p].pc # "idle"
  /\ Stops(p)
  /\ UNCHANGED <<run, reviewing, binding, reviews, packages, candidate, origin, closing>>

-----------------------------------------------------------------------------
(* The manual candidate workflow takes the candidate to its sign-off.      *)

\* The build, the checks and the measurements of ManualCandidate, in one.
Adjudicate ==
  /\ candidate.state = "queued"
  /\ \E s \in {"awaiting_signoff", "rejected"} : candidate' = [candidate EXCEPT !.state = s]
  /\ UNCHANGED <<run, reviewing, binding, reviews, packages, origin, promotion, closing>>

\* require_bw20_agent_origin_for_approval
OriginBinds == origin # Unreviewed /\ origin.candidate = candidate.key

\* signoff_manual_candidate_task
SignCandidate(decision) ==
  /\ candidate.state = "awaiting_signoff"
  /\ decision = "accepted" => OriginBinds
  /\ candidate' = [candidate EXCEPT !.state = decision]
  /\ UNCHANGED <<run, reviewing, binding, reviews, packages, origin, promotion, closing>>

-----------------------------------------------------------------------------
PromotionStep(p) ==
  PublishPackage(p) \/ Register(p) \/ CompletePromotion(p) \/ RecordOrigin(p)

ReviewNext ==
  \/ \E v \in Review : BeginReview(v) \/ BindReview(v) \/ StoreReview(v) \/ LeaveReview(v)
  \/ \E R \in SUBSET Review : BeginClosing(R)
  \/ CloseRejected \/ ClosingDies
  \/ \E p \in Promoter :
       \/ \E v \in Review, c \in CandidateKey : BeginPromotion(p, v, c)
       \/ PromotionStep(p) \/ PromotionDies(p)
  \/ Adjudicate
  \/ \E d \in {"accepted", "rejected"} : SignCandidate(d)

ReviewSpec == ReviewInit /\ [][ReviewNext]_rvars

\* A promotion that has not died goes on, and one that has is given again.
ReviewFairness == \A p \in Promoter :
  /\ WF_rvars(PromotionStep(p))
  /\ WF_rvars(\E v \in Review, c \in CandidateKey : BeginPromotion(p, v, c))

FairReviewSpec == ReviewSpec /\ ReviewFairness

-----------------------------------------------------------------------------
\* An idempotency key stands for one review, whoever tries to give another
\* one at the same time and wherever a command dies: of two reviews with the
\* same key at most one is ever in the store (publish_review).
KeyIsOneReview == \A v, w \in reviews : v.key = w.key => v = w

\* A candidate is accepted only if its history is told without a gap, by
\* records that were written one by one and perhaps by several commands: the
\* run was completed by the promotion that its origin names and not closed as
\* rejected, the review is stored and approved, and the package that was
\* built has the manifest of that very promotion
\* (require_bw20_agent_origin_for_approval, repository.py:160).
AcceptedIsTraced ==
  candidate.state = "accepted" =>
    \E v \in reviews :
      /\ v.decision = "approved" /\ v.proposal = candidate.proposal
      /\ origin = Summary(v, candidate.key)
      /\ run.state = "completed" /\ run.evidence = origin
      /\ packages[v.proposal] = [candidate |-> candidate.key, review |-> v]

\* What reviews leave behind: one review for a key, a history for what is accepted.
ReviewsTraced == KeyIsOneReview /\ AcceptedIsTraced

\* docs/mvp-single-candidate-operations.md:89: a promotion that is repeated
\* replays the same binding.  When a promotion has completed the review of the
\* run, the origin of its candidate is recorded in the end.
PromotedHasOrigin ==
  (run.state = "completed" /\ run.evidence.candidate # NoCandidate) ~> origin # Unreviewed
=============================================================================
