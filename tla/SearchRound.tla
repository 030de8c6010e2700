----------------------------- MODULE SearchRound -----------------------------
(***************************************************************************)
(* SearchRound: one scripted M2a search round, from intake to its end:     *)
(* the family of candidates and its three freezes, the two barriers, the   *)
(* budget reservations and their ledger, the final evidence, cancellation  *)
(* and the audit that names the next action.                               *)
(*                                                                         *)
(* Every operation is one transaction that locks the search_rounds row, so *)
(* every operation is one action.  A request that is replayed with the     *)
(* same inputs changes nothing, and one that is refused changes nothing;   *)
(* neither is an action.  A hash is modelled by the value it commits to.   *)
(***************************************************************************)
EXTENDS Integers, FiniteSets, Functions

CONSTANTS
    Declared,        \* declared_candidate_count
    Candidate,       \* candidates that may be submitted
    MaxPromoted,     \* max_promoted
    Reservation,     \* reservation ids
    Job,             \* jobs of the round's task
    MaxAttempts,     \* jobs.max_attempts
    Budget,          \* the round budget, in one charge kind
    MaxActual,       \* bound: no attempt uses more than this
    None

ASSUME DeclaredAssumption == Declared \in Nat \ {0}
ASSUME ReservationAssumption == IsFiniteSet(Reservation)
ASSUME AmountAssumption   == Budget \in Nat /\ MaxActual \in Nat /\ MaxAttempts \in Nat

VARIABLES
    round,          \* the search_rounds row
    task,           \* tasks.state of the round's task
    members,        \* round_candidates, by ordinal, with candidates.state
    search,         \* the search row of round_barriers
    revealed,       \* whether round_holdout_reveals has its row
    holdout,        \* the holdout row of round_barriers
    comparison,     \* whether multiple_comparison_results has its row
    evidence,       \* the row of round_evidence_bundles
    draft,          \* the ledger an evidence bundle has been built from
    reservations,   \* round_budget_reservations
    ledger,         \* round_budget_ledger
    jobs            \* the jobs of the task, owned by the job queue

authority   == <<search, revealed, holdout, comparison>>
budgetVars  == <<reservations, ledger>>
evidenceVars == <<evidence, draft>>
vars == <<round, task, members, authority, evidenceVars, budgetVars, jobs>>

Ordinal == 0 .. Declared - 1
Amount  == 0 .. MaxActual

BuildTerminal   == {"built", "build_failed", "invalid"}
SearchTerminal  == {"search_measured", "search_failed", "build_failed",
                    "correctness_failed", "invalid"}
HoldoutTerminal == {"holdout_measured", "holdout_failed", "invalid"}
RoundState      == {"absent", "intake_open", "intake_closed", "building", "correctness",
                    "search_barrier", "holdout_measuring", "holdout_barrier",
                    "scripted_completed", "cancelled"}
Over            == {"scripted_completed", "cancelled"}

RoundRow  == [state     : RoundState,
              family    : [Ordinal -> Candidate] \cup {None},
              artifacts : [Ordinal -> BuildTerminal \cup {None}] \cup {None},
              promoted  : (SUBSET Ordinal) \cup {None}]
MemberRow == [candidate : Candidate,
              state     : {"intake_accepted"} \cup BuildTerminal \cup SearchTerminal
                                              \cup HoldoutTerminal,
              build     : BuildTerminal \cup {None},
              generic   : {"proposed", "built", "build_failed", "rejected"}]
SearchRow == [states : [Ordinal -> SearchTerminal], promoted : SUBSET Ordinal]
JobRow    == [state    : {"absent", "queued", "running", "ended"},
              attempts : 0 .. MaxAttempts]
ReservationRow == [state : {"absent", "reserved", "settled", "released"},
                   job : Job \cup {None}, attempt : Nat, planned : Nat]
Entry == [reservation : Reservation, type : {"reserve", "settle", "release"}, actual : Nat]
Document == [reservations : [Reservation -> ReservationRow], entries : SUBSET Entry]

\* A null column is none of the values that the column may hold.
ASSUME NoneAssumption ==
    /\ None \notin Candidate \cup Job
    /\ None \notin MemberRow
    /\ None \notin [Ordinal -> Candidate]
    /\ None \notin [Ordinal -> BuildTerminal \cup {None}]
    /\ None \notin SearchRow
    /\ \A S \in SUBSET Ordinal : None \notin [S -> HoldoutTerminal]
    /\ None \notin Document

\* One type invariant.
TypeOK ==
    /\ round \in RoundRow
    /\ task \in {"absent", "created", "completed", "cancelled"}
    /\ members \in [Ordinal -> MemberRow \cup {None}]
    /\ search \in SearchRow \cup {None}
    /\ revealed \in BOOLEAN /\ comparison \in BOOLEAN
    /\ holdout # None => \E S \in SUBSET Ordinal : holdout \in [S -> HoldoutTerminal]
    /\ evidence \in Document \cup {None}
    /\ draft \in Document \cup {None}
    /\ reservations \in [Reservation -> ReservationRow]
    /\ ledger \subseteq Entry
    /\ jobs \in [Job -> JobRow]

Init ==
    /\ round = [state |-> "absent", family |-> None, artifacts |-> None, promoted |-> None]
    /\ task = "absent"
    /\ members = [o \in Ordinal |-> None]
    /\ search = None /\ revealed = FALSE /\ holdout = None /\ comparison = FALSE
    /\ evidence = None /\ draft = None
    /\ reservations = [r \in Reservation |->
                         [state |-> "absent", job |-> None, attempt |-> 0, planned |-> 0]]
    /\ ledger = {}
    /\ jobs = [j \in Job |-> [state |-> "absent", attempts |-> 0]]

-----------------------------------------------------------------------------
(* What the hashes commit to, and what the ledger adds up to.              *)

Complete == \A o \in Ordinal : members[o] # None

\* candidate_family_hash and artifact_family_hash.
CandidateFamily == [o \in Ordinal |-> members[o].candidate]
ArtifactFamily  == [o \in Ordinal |-> members[o].build]

\* round_budget_ledger_hash covers the reservations and their entries.
LedgerDocument == [reservations |-> reservations, entries |-> ledger]

Outstanding == {r \in Reservation : reservations[r].state = "reserved"}
Settled     == {e \in ledger : e.type = "settle"}

\* Mutant: what has been settled no longer counts.
Usage_OutstandingOnly == SumFunction([r \in Outstanding |-> reservations[r].planned])

\* The amounts that reserve_round_budget adds up before it admits another.
Usage == SumFunction([r \in Outstanding |-> reservations[r].planned])
       + SumFunction([e \in Settled |-> e.actual])

-----------------------------------------------------------------------------
(* Intake and build.                                                       *)

CreateSearchRound ==
    /\ round.state = "absent"
    /\ round' = [round EXCEPT !.state = "intake_open"]
    /\ task' = "created"
    /\ UNCHANGED <<members, authority, evidenceVars, budgetVars, jobs>>

\* add_round_candidate for a new identity: neither the ordinal nor the
\* candidate is in the family yet.
AddRoundCandidate(o, c) ==
    /\ round.state = "intake_open"
    /\ members[o] = None
    /\ \A p \in Ordinal : members[p] # None => members[p].candidate # c
    /\ members' = [members EXCEPT ![o] = [candidate |-> c, state |-> "intake_accepted",
                                          build |-> None, generic |-> "proposed"]]
    /\ UNCHANGED <<round, task, authority, evidenceVars, budgetVars, jobs>>

\* close_search_round_intake
CloseIntake ==
    /\ round.state = "intake_open"
    /\ Complete
    /\ \A o \in Ordinal : members[o].state = "intake_accepted"
    /\ round' = [round EXCEPT !.state = "intake_closed", !.family = CandidateFamily]
    /\ UNCHANGED <<task, members, authority, evidenceVars, budgetVars, jobs>>

\* record_round_candidate_build: a member's first terminal.
RecordBuild(o, b) ==
    /\ members[o] # None
    /\ members[o].state \notin BuildTerminal
    /\ round.family # None
    /\ round.artifacts = None
    /\ round.state \in {"intake_closed", "building"}
    /\ members' = [members EXCEPT ![o].state = b, ![o].build = b,
                                  ![o].generic = IF b = "built" THEN b ELSE "build_failed"]
    /\ round' = [round EXCEPT !.state = "building"]
    /\ UNCHANGED <<task, authority, evidenceVars, budgetVars, jobs>>

\* freeze_search_round_artifact_family
FreezeArtifactFamily ==
    /\ round.state = "building"
    /\ round.family # None
    /\ round.artifacts = None
    /\ Complete
    /\ \A o \in Ordinal : members[o].state \in BuildTerminal
    /\ round' = [round EXCEPT !.state = "correctness", !.artifacts = ArtifactFamily]
    /\ UNCHANGED <<task, members, authority, evidenceVars, budgetVars, jobs>>

-----------------------------------------------------------------------------
(* The barriers.                                                           *)

\* Mutant: the members' artifacts are not compared with the frozen ones.
CloseSearchBarrier_AnyArtifact(states, promoted) ==
    /\ search = None
    /\ round.state = "correctness"
    /\ round.artifacts # None
    /\ Complete
    /\ promoted \subseteq {o \in Ordinal : states[o] = "search_measured"}
    /\ Cardinality(promoted) <= MaxPromoted
    /\ search' = [states |-> states, promoted |-> promoted]
    /\ members' = [o \in Ordinal |-> [members[o] EXCEPT !.state = states[o]]]
    /\ round' = [round EXCEPT !.state = "search_barrier",
                              !.promoted = IF promoted = {} THEN None ELSE promoted]
    /\ UNCHANGED <<task, revealed, holdout, comparison, evidenceVars, budgetVars, jobs>>

\* Mutant: only from search_measuring, a state that no transaction writes.
CloseSearchBarrier_Measuring(states, promoted) ==
    /\ round.state = "search_measuring"
    /\ CloseSearchBarrier_AnyArtifact(states, promoted)

\* close_scripted_search_barrier: every member with its terminal.  Whatever
\* reached the device has an artifact, and at most MaxPromoted of the measured
\* members are promoted: the best eligible ones.
CloseSearchBarrier(states, promoted) ==
    /\ search = None
    /\ round.state \in {"correctness", "search_measuring"}
    /\ round.artifacts # None
    /\ Complete
    /\ \A o \in Ordinal : states[o] \in {"search_measured", "search_failed"}
                             => members[o].build = "built"
    /\ promoted \subseteq {o \in Ordinal : states[o] = "search_measured"}
    /\ Cardinality(promoted) <= MaxPromoted
    /\ search' = [states |-> states, promoted |-> promoted]
    /\ members' = [o \in Ordinal |-> [members[o] EXCEPT !.state = states[o]]]
    /\ round' = [round EXCEPT !.state = "search_barrier",
                              !.promoted = IF promoted = {} THEN None ELSE promoted]
    /\ UNCHANGED <<task, revealed, holdout, comparison, evidenceVars, budgetVars, jobs>>

\* record_scripted_holdout_reveal
RevealHoldout ==
    /\ ~ revealed
    /\ search # None
    /\ round.state = "search_barrier"
    /\ search.promoted # {}
    /\ round.promoted = search.promoted
    /\ revealed' = TRUE
    /\ round' = [round EXCEPT !.state = "holdout_measuring"]
    /\ UNCHANGED <<task, members, search, holdout, comparison, evidenceVars, budgetVars, jobs>>

\* close_scripted_holdout_barrier, for exactly the promoted members.
CloseHoldoutBarrier(states) ==
    /\ holdout = None
    /\ search # None /\ revealed
    /\ round.state = "holdout_measuring"
    /\ search.promoted # {}
    /\ DOMAIN states = search.promoted
    /\ \A o \in search.promoted : members[o] # None
    /\ holdout' = states
    /\ members' = [o \in Ordinal |-> IF o \in search.promoted
                                     THEN [members[o] EXCEPT !.state = states[o]]
                                     ELSE members[o]]
    /\ round' = [round EXCEPT !.state = "holdout_barrier"]
    /\ UNCHANGED <<task, search, revealed, comparison, evidenceVars, budgetVars, jobs>>

\* record_scripted_multiple_comparison
RecordComparison ==
    /\ ~ comparison
    /\ round.state = "holdout_barrier"
    /\ holdout # None
    /\ comparison' = TRUE
    /\ UNCHANGED <<round, task, members, search, revealed, holdout, evidenceVars,
                   budgetVars, jobs>>

-----------------------------------------------------------------------------
(* The end of a round.                                                     *)

\* build_scripted_round_evidence: the bundle is put together outside of any
\* transaction, from the ledger as its author last read it.
BuildEvidence ==
    /\ search # None
    /\ evidence = None
    /\ draft' = LedgerDocument
    /\ UNCHANGED <<round, task, members, authority, evidence, budgetVars, jobs>>

\* The two paths on which a round may be finalised.
TerminalPath ==
    \/ /\ round.state = "search_barrier"
       /\ search.promoted = {}
       /\ holdout = None /\ ~ comparison
    \/ /\ round.state = "holdout_barrier"
       /\ search.promoted # {}
       /\ holdout # None /\ comparison

\* Mutant: the bundle's ledger hash is not recomputed.
Finalize_TrustingHash ==
    /\ evidence = None /\ draft # None
    /\ search # None /\ TerminalPath
    /\ Outstanding = {}
    /\ evidence' = draft
    /\ round' = [round EXCEPT !.state = "scripted_completed"]
    /\ task' = "completed"
    /\ UNCHANGED <<members, authority, draft, budgetVars, jobs>>

\* finalize_scripted_search_round
Finalize ==
    /\ evidence = None /\ draft # None
    /\ search # None /\ TerminalPath
    /\ Outstanding = {}
    /\ draft = LedgerDocument
    /\ evidence' = draft
    /\ round' = [round EXCEPT !.state = "scripted_completed"]
    /\ task' = "completed"
    /\ UNCHANGED <<members, authority, draft, budgetVars, jobs>>

\* The effects that every variant of a cancellation has.
Cancelled ==
    /\ jobs' = [j \in Job |-> IF jobs[j].state = "queued" THEN [jobs[j] EXCEPT !.state = "ended"]
                                                          ELSE jobs[j]]
    /\ members' = [o \in Ordinal |->
                     IF members[o] = None \/ members[o].generic = "build_failed" THEN members[o]
                     ELSE [members[o] EXCEPT !.generic = "rejected"]]
    /\ round' = [round EXCEPT !.state = "cancelled"]
    /\ UNCHANGED <<authority, evidenceVars, budgetVars>>

\* Mutant: reservations that are still open do not stop the cancellation.
CancelRound_Reserved ==
    /\ round.state \notin Over \cup {"absent"}
    /\ evidence = None
    /\ \A j \in Job : jobs[j].state # "running"
    /\ task' = "cancelled"
    /\ Cancelled

\* Mutant: the task is left as it was.
CancelRound_TaskKept ==
    /\ round.state \notin Over \cup {"absent"}
    /\ evidence = None
    /\ Outstanding = {}
    /\ \A j \in Job : jobs[j].state # "running"
    /\ task' = task
    /\ Cancelled

\* cancel_scripted_search_round
CancelRound ==
    /\ round.state \notin Over \cup {"absent"}
    /\ evidence = None
    /\ Outstanding = {}
    /\ \A j \in Job : jobs[j].state # "running"
    /\ task' = "cancelled"
    /\ Cancelled

-----------------------------------------------------------------------------
(* The budget.                                                             *)

\* reserve_round_budget for the next attempt of a queued job.
ReserveBudget(r, j, planned) ==
    /\ reservations[r].state = "absent"
    /\ \A q \in Reservation : ~ /\ reservations[q].job = j
                                /\ reservations[q].attempt = jobs[j].attempts + 1
    /\ round.state \notin Over \cup {"absent", "intake_open"}
    /\ jobs[j].state = "queued"
    /\ planned > 0
    /\ Usage + planned <= Budget
    /\ reservations' = [reservations EXCEPT ![r] =
                          [state |-> "reserved", job |-> j,
                           attempt |-> jobs[j].attempts + 1, planned |-> planned]]
    /\ ledger' = ledger \cup {[reservation |-> r, type |-> "reserve", actual |-> 0]}
    /\ UNCHANGED <<round, task, members, authority, evidenceVars, jobs>>

\* finalize_round_budget: a settle reports what was really used, even if that
\* is more than was reserved; a release reports nothing.  Neither looks at the
\* job or at the round's state.
FinalizeBudget(r, type, actual) ==
    /\ reservations[r].state = "reserved"
    /\ type = "release" => actual = 0
    /\ reservations' = [reservations EXCEPT ![r].state =
                          IF type = "settle" THEN "settled" ELSE "released"]
    /\ ledger' = ledger \cup {[reservation |-> r, type |-> type, actual |-> actual]}
    /\ UNCHANGED <<round, task, members, authority, evidenceVars, jobs>>

-----------------------------------------------------------------------------
(* The job queue, as far as a round sees it: see JobQueue.                 *)

JobStep(j, row) ==
    /\ jobs' = [jobs EXCEPT ![j] = row]
    /\ UNCHANGED <<round, task, members, authority, evidenceVars, budgetVars>>

EnqueueJob(j) == jobs[j].state = "absent"  /\ JobStep(j, [jobs[j] EXCEPT !.state = "queued"])

ClaimJob(j) ==
    /\ jobs[j].state = "queued"
    /\ jobs[j].attempts < MaxAttempts
    /\ JobStep(j, [state |-> "running", attempts |-> jobs[j].attempts + 1])

RequeueJob(j) ==
    /\ jobs[j].state = "running"
    /\ jobs[j].attempts < MaxAttempts
    /\ JobStep(j, [jobs[j] EXCEPT !.state = "queued"])

EndJob(j) ==
    /\ jobs[j].state \in {"queued", "running"}
    /\ JobStep(j, [jobs[j] EXCEPT !.state = "ended"])

-----------------------------------------------------------------------------

Next ==
    \/ CreateSearchRound \/ CloseIntake \/ FreezeArtifactFamily
    \/ \E o \in Ordinal : \/ \E c \in Candidate : AddRoundCandidate(o, c)
                          \/ \E b \in BuildTerminal : RecordBuild(o, b)
    \/ \E states \in [Ordinal -> SearchTerminal], promoted \in SUBSET Ordinal :
          CloseSearchBarrier(states, promoted)
    \/ RevealHoldout
    \/ \E family \in SUBSET Ordinal : \E states \in [family -> HoldoutTerminal] :
          CloseHoldoutBarrier(states)
    \/ RecordComparison
    \/ BuildEvidence \/ Finalize \/ CancelRound
    \/ \E r \in Reservation : \/ \E j \in Job, p \in Amount : ReserveBudget(r, j, p)
                              \/ \E t \in {"settle", "release"}, a \in Amount :
                                    FinalizeBudget(r, t, a)
    \/ \E j \in Job : EnqueueJob(j) \/ ClaimJob(j) \/ RequeueJob(j) \/ EndJob(j)

Spec == Init /\ [][Next]_vars

-----------------------------------------------------------------------------
(* The audit, reconcile_scripted_search_round.                             *)

Built == {o \in Ordinal : members[o] # None /\ members[o].state \in BuildTerminal}

\* The state that the durable rows call for.
ExpectedState ==
    IF evidence # None             THEN "scripted_completed"
    ELSE IF holdout # None         THEN "holdout_barrier"
    ELSE IF revealed               THEN "holdout_measuring"
    ELSE IF search # None          THEN "search_barrier"
    ELSE IF round.artifacts # None THEN "correctness"
    ELSE IF round.family # None
         THEN IF Built # {} THEN "building" ELSE "intake_closed"
    ELSE "intake_open"

ExpectedTask == IF ExpectedState = "scripted_completed" THEN "completed" ELSE "created"

\* The graph has no row whose predecessor is missing.
GraphComplete ==
    /\ holdout # None => search # None /\ revealed
    /\ revealed => search # None /\ search.promoted # {}
    /\ comparison => holdout # None
    /\ evidence # None => search # None

NextAction ==
    IF evidence # None             THEN "none"
    ELSE IF comparison             THEN "finalize_scripted_round"
    ELSE IF holdout # None         THEN "record_multiple_comparison"
    ELSE IF revealed               THEN "close_holdout_barrier"
    ELSE IF search # None
         THEN IF search.promoted # {} THEN "record_holdout_reveal"
                                      ELSE "finalize_scripted_round"
    ELSE IF round.artifacts # None THEN "close_search_barrier"
    ELSE IF round.family # None
         THEN IF Built = Ordinal THEN "freeze_artifact_family" ELSE "await_build_terminals"
    ELSE IF Complete THEN "close_intake" ELSE "await_candidate_intake"

-----------------------------------------------------------------------------
(* Properties.                                                             *)

\* The audit never finds a round whose state, or whose task, disagrees with
\* the barriers, reveals and evidence that are durable: it accepts every
\* state that the transactions can reach.
AuthorityAgrees ==
    /\ round.state = "absent"    => task = "absent"
    /\ round.state = "cancelled" => task = "cancelled"
    /\ round.state \notin {"absent", "cancelled"} =>
          /\ GraphComplete
          /\ round.state = ExpectedState
          /\ task = ExpectedTask

\* The action that the audit of an unfinished round names is one that a
\* transaction accepts.  Finalising also takes a settled budget and a bundle
\* built from the ledger as it is.
NextActionPossible ==
    round.state \notin Over \cup {"absent"} =>
      CASE NextAction = "await_candidate_intake" ->
              ENABLED (\E o \in Ordinal, c \in Candidate : AddRoundCandidate(o, c))
        [] NextAction = "close_intake" -> ENABLED CloseIntake
        [] NextAction = "await_build_terminals" ->
              ENABLED (\E o \in Ordinal : RecordBuild(o, "built"))
        [] NextAction = "freeze_artifact_family" -> ENABLED FreezeArtifactFamily
        [] NextAction = "close_search_barrier" ->
              ENABLED CloseSearchBarrier([o \in Ordinal |-> "correctness_failed"], {})
        [] NextAction = "record_holdout_reveal" -> ENABLED RevealHoldout
        [] NextAction = "close_holdout_barrier" ->
              ENABLED CloseHoldoutBarrier([o \in search.promoted |-> "holdout_failed"])
        [] NextAction = "record_multiple_comparison" -> ENABLED RecordComparison
        [] NextAction = "finalize_scripted_round" ->
              Outstanding = {} /\ draft = LedgerDocument => ENABLED Finalize
        [] OTHER -> FALSE

\* What a hash committed to is still what the rows say: the family after
\* intake, the artifacts after the freeze, the promoted members at the
\* holdout barrier, all of them built and among those measured in the search.
FamiliesFrozen ==
    /\ round.family # None => Complete /\ CandidateFamily = round.family
    /\ round.artifacts # None => ArtifactFamily = round.artifacts
    /\ search # None /\ search.promoted # {} =>
          /\ round.promoted = search.promoted
          /\ \A o \in search.promoted : /\ round.artifacts[o] = "built"
                                        /\ search.states[o] = "search_measured"
    /\ holdout # None => DOMAIN holdout = round.promoted

\* The evidence of a completed round covers its whole ledger: no entry and no
\* reservation is added, settled or released after it was hashed.
EvidenceCoversLedger == evidence # None => evidence = LedgerDocument

\* The budget is overrun only by what attempts really used beyond their
\* reservation: counting each at most at its plan, the round stays within it.
BudgetOverrunOnlyInUse ==
    SumFunction([r \in Outstanding |-> reservations[r].planned])
  + SumFunction([e \in Settled |-> LET planned == reservations[e.reservation].planned
                                  IN IF e.actual < planned THEN e.actual ELSE planned])
       <= Budget

\* A round that is over never changes again, nor does its ledger, its family
\* or its task; in particular no late settle reaches a cancelled round.
OverForGood ==
    [][round.state \in Over => UNCHANGED <<round, task, members, authority, evidence,
                                           budgetVars>>]_vars
=============================================================================
