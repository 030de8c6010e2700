-------------------------- MODULE SearchRoundProofs --------------------------
(***************************************************************************)
(* Proofs about SearchRound: its types, the audit that never fails, the    *)
(* frozen families, the evidence that covers the ledger, and rounds that   *)
(* are over for good.                                                      *)
(***************************************************************************)
EXTENDS SearchRound, Sums, TLAPS

\* What the transactions between two audits rely on and the audit does not
\* say: a round that does not exist has no rows, and one that is over has no
\* open reservation and had no evidence unless it was completed.
Untouched ==
    round.state = "absent" =>
        /\ round.family = None /\ round.artifacts = None
        /\ search = None /\ ~ revealed /\ holdout = None /\ ~ comparison
        /\ evidence = None

Closed ==
    /\ round.state \in Over => Outstanding = {}
    /\ evidence # None => round.state = "scripted_completed"

IInv == TypeOK /\ AuthorityAgrees /\ Untouched

-----------------------------------------------------------------------------
(* Types.                                                                  *)

\* The families that are hashed are families, and so not null.
LEMMA FamilyTypes ==
    ASSUME TypeOK, Complete
    PROVE  /\ CandidateFamily \in [Ordinal -> Candidate]
           /\ ArtifactFamily \in [Ordinal -> BuildTerminal \cup {None}]
           /\ CandidateFamily # None /\ ArtifactFamily # None
<1>1. \A o \in Ordinal : members[o] \in MemberRow
  BY DEF TypeOK, Complete
<1>2. CandidateFamily \in [Ordinal -> Candidate]
  BY <1>1 DEF CandidateFamily, MemberRow
<1>3. ArtifactFamily \in [Ordinal -> BuildTerminal \cup {None}]
  BY <1>1 DEF ArtifactFamily, MemberRow
<1> QED  BY <1>2, <1>3, NoneAssumption

\* The actions of a member's intake and build keep the types.
LEMMA IntakeTypes ==
    ASSUME TypeOK
    PROVE  /\ CreateSearchRound \/ CloseIntake \/ FreezeArtifactFamily => TypeOK'
           /\ \A o \in Ordinal : /\ \A c \in Candidate : AddRoundCandidate(o, c) => TypeOK'
                                 /\ \A b \in BuildTerminal : RecordBuild(o, b) => TypeOK'
<1> USE DEF TypeOK, authority, evidenceVars, budgetVars
<1>1. ASSUME CreateSearchRound PROVE TypeOK'
  BY <1>1 DEF CreateSearchRound, RoundRow, RoundState
<1>2. ASSUME CloseIntake PROVE TypeOK'
  BY <1>2, FamilyTypes DEF CloseIntake, RoundRow, RoundState
<1>3. ASSUME FreezeArtifactFamily PROVE TypeOK'
  BY <1>3, FamilyTypes DEF FreezeArtifactFamily, RoundRow, RoundState
<1>4. ASSUME NEW o \in Ordinal, NEW c \in Candidate, AddRoundCandidate(o, c) PROVE TypeOK'
  BY <1>4 DEF AddRoundCandidate, MemberRow
<1>5. ASSUME NEW o \in Ordinal, NEW b \in BuildTerminal, RecordBuild(o, b) PROVE TypeOK'
  <2>1. members[o] \in MemberRow
    BY <1>5 DEF RecordBuild
  <2>2. [members[o] EXCEPT !.state = b, !.build = b,
                           !.generic = IF b = "built" THEN b ELSE "build_failed"] \in MemberRow
    BY <2>1 DEF MemberRow, BuildTerminal
  <2>3. members' \in [Ordinal -> MemberRow \cup {None}]
    BY <1>5, <2>2 DEF RecordBuild
  <2> QED  BY <1>5, <2>3 DEF RecordBuild, RoundRow, RoundState
<1> QED  BY <1>1, <1>2, <1>3, <1>4, <1>5

\* The barriers, the reveal and the comparison keep the types.
LEMMA BarrierTypes ==
    ASSUME TypeOK
    PROVE  /\ \A states \in [Ordinal -> SearchTerminal], promoted \in SUBSET Ordinal :
                 CloseSearchBarrier(states, promoted) => TypeOK'
           /\ RevealHoldout \/ RecordComparison => TypeOK'
           /\ \A family \in SUBSET Ordinal : \A states \in [family -> HoldoutTerminal] :
                 CloseHoldoutBarrier(states) => TypeOK'
<1> USE DEF TypeOK, evidenceVars, budgetVars
<1>1. ASSUME NEW states \in [Ordinal -> SearchTerminal], NEW promoted \in SUBSET Ordinal,
             CloseSearchBarrier(states, promoted)
      PROVE  TypeOK'
  <2>1. search' \in SearchRow
    BY <1>1 DEF CloseSearchBarrier, SearchRow
  <2>2. round' \in RoundRow
    BY <1>1 DEF CloseSearchBarrier, RoundRow, RoundState
  <2>3. ASSUME NEW o \in Ordinal
        PROVE  [members[o] EXCEPT !.state = states[o]] \in MemberRow \cup {None}
    <3>1. members[o] \in MemberRow
      BY <1>1 DEF CloseSearchBarrier, Complete
    <3> QED  BY <3>1 DEF MemberRow
  <2>4. members' \in [Ordinal -> MemberRow \cup {None}]
    BY <1>1, <2>3 DEF CloseSearchBarrier
  <2> QED  BY <1>1, <2>1, <2>2, <2>4 DEF CloseSearchBarrier
<1>2. ASSUME RevealHoldout PROVE TypeOK'
  BY <1>2 DEF RevealHoldout, RoundRow, RoundState
<1>3. ASSUME RecordComparison PROVE TypeOK'
  BY <1>3 DEF RecordComparison
<1>4. ASSUME NEW family \in SUBSET Ordinal, NEW states \in [family -> HoldoutTerminal],
             CloseHoldoutBarrier(states)
      PROVE  TypeOK'
  <2>1. ASSUME NEW o \in Ordinal, o \in search.promoted
        PROVE  [members[o] EXCEPT !.state = states[o]] \in MemberRow \cup {None}
    <3>1. members[o] \in MemberRow /\ states[o] \in HoldoutTerminal
      BY <1>4, <2>1 DEF CloseHoldoutBarrier
    <3> QED  BY <3>1 DEF MemberRow
  <2>2. members' \in [Ordinal -> MemberRow \cup {None}]
    BY <1>4, <2>1 DEF CloseHoldoutBarrier
  <2>3. round' \in RoundRow
    BY <1>4 DEF CloseHoldoutBarrier, RoundRow, RoundState
  <2> QED  BY <1>4, <2>2, <2>3 DEF CloseHoldoutBarrier
<1> QED  BY <1>1, <1>2, <1>3, <1>4

\* Evidence, cancellation, the budget and the queue keep the types.
LEMMA EndTypes ==
    ASSUME TypeOK
    PROVE  /\ BuildEvidence \/ Finalize \/ CancelRound => TypeOK'
           /\ \A r \in Reservation :
                 /\ \A j \in Job, p \in Amount : ReserveBudget(r, j, p) => TypeOK'
                 /\ \A t \in {"settle", "release"}, a \in Amount :
                       FinalizeBudget(r, t, a) => TypeOK'
           /\ \A j \in Job : EnqueueJob(j) \/ ClaimJob(j) \/ RequeueJob(j) \/ EndJob(j)
                                => TypeOK'
<1> USE AmountAssumption DEF TypeOK, authority, evidenceVars, budgetVars
<1>1. ASSUME BuildEvidence PROVE TypeOK'
  <2>1. LedgerDocument \in Document
    BY DEF LedgerDocument, Document
  <2> QED  BY <1>1, <2>1 DEF BuildEvidence
<1>2. ASSUME Finalize PROVE TypeOK'
  BY <1>2 DEF Finalize, RoundRow, RoundState
<1>3. ASSUME CancelRound PROVE TypeOK'
  <2>1. members' \in [Ordinal -> MemberRow \cup {None}]
    BY <1>3 DEF CancelRound, Cancelled, MemberRow
  <2>2. jobs' \in [Job -> JobRow]
    BY <1>3 DEF CancelRound, Cancelled, JobRow
  <2>3. round' \in RoundRow
    BY <1>3 DEF CancelRound, Cancelled, RoundRow, RoundState
  <2> QED  BY <1>3, <2>1, <2>2, <2>3 DEF CancelRound, Cancelled
<1>4. ASSUME NEW r \in Reservation, NEW j \in Job, NEW p \in Amount, ReserveBudget(r, j, p)
      PROVE  TypeOK'
  <2>1. jobs[j].attempts + 1 \in Nat /\ p \in Nat
    BY DEF JobRow, Amount
  <2>2. [state |-> "reserved", job |-> j, attempt |-> jobs[j].attempts + 1,
         planned |-> p] \in ReservationRow
    BY <2>1 DEF ReservationRow
  <2>3. reservations' \in [Reservation -> ReservationRow]
    BY <1>4, <2>2 DEF ReserveBudget
  <2>4. ledger' \subseteq Entry
    BY <1>4 DEF ReserveBudget, Entry
  <2> QED  BY <1>4, <2>3, <2>4 DEF ReserveBudget
<1>5. ASSUME NEW r \in Reservation, NEW t \in {"settle", "release"}, NEW a \in Amount,
             FinalizeBudget(r, t, a)
      PROVE  TypeOK'
  <2>1. reservations' \in [Reservation -> ReservationRow]
    BY <1>5 DEF FinalizeBudget, ReservationRow
  <2>2. ledger' \subseteq Entry
    BY <1>5 DEF FinalizeBudget, Entry, Amount
  <2> QED  BY <1>5, <2>1, <2>2 DEF FinalizeBudget
<1>6. ASSUME NEW j \in Job, EnqueueJob(j) \/ ClaimJob(j) \/ RequeueJob(j) \/ EndJob(j)
      PROVE  TypeOK'
  <2>1. jobs' \in [Job -> JobRow]
    <3>1. CASE EnqueueJob(j)
      BY <3>1 DEF EnqueueJob, JobStep, JobRow
    <3>2. CASE ClaimJob(j)
      <4>1. [state |-> "running", attempts |-> jobs[j].attempts + 1] \in JobRow
        BY <3>2 DEF ClaimJob, JobRow
      <4> QED  BY <3>2, <4>1 DEF ClaimJob, JobStep
    <3>3. CASE RequeueJob(j)
      BY <3>3 DEF RequeueJob, JobStep, JobRow
    <3>4. CASE EndJob(j)
      BY <3>4 DEF EndJob, JobStep, JobRow
    <3> QED  BY <1>6, <3>1, <3>2, <3>3, <3>4
  <2> QED  BY <1>6, <2>1 DEF EnqueueJob, ClaimJob, RequeueJob, EndJob, JobStep
<1> QED  BY <1>1, <1>2, <1>3, <1>4, <1>5, <1>6

\* Every step keeps the types.
LEMMA StepType == TypeOK /\ [Next]_vars => TypeOK'
<1> SUFFICES ASSUME TypeOK, [Next]_vars PROVE TypeOK'
  OBVIOUS
<1>1. CASE UNCHANGED vars
  BY <1>1 DEF TypeOK, vars, authority, evidenceVars, budgetVars
<1>2. CASE Next
  BY <1>2, IntakeTypes, BarrierTypes, EndTypes DEF Next
<1> QED  BY <1>1, <1>2

\* The initial rows have their types.
LEMMA InitType == Init => TypeOK
<1> SUFFICES ASSUME Init PROVE TypeOK
  OBVIOUS
<1>1. round \in RoundRow
  BY DEF Init, RoundRow, RoundState
<1>2. reservations \in [Reservation -> ReservationRow]
  BY DEF Init, ReservationRow
<1>3. jobs \in [Job -> JobRow]
  BY AmountAssumption DEF Init, JobRow
<1> QED  BY <1>1, <1>2, <1>3 DEF Init, TypeOK

\* The tables of a search round hold rows, and only rows.
THEOREM TypeCorrect == Spec => []TypeOK
BY InitType, StepType, PTL DEF Spec

-----------------------------------------------------------------------------
(* The audit never fails.                                                  *)

\* Every step keeps the durable rows in agreement with the round's state.
LEMMA StepAgrees == IInv /\ [Next]_vars => AuthorityAgrees' /\ Untouched'
<1> SUFFICES ASSUME IInv, [Next]_vars PROVE AuthorityAgrees' /\ Untouched'
  OBVIOUS
<1>0. TypeOK'
  BY StepType DEF IInv
<1> USE NoneAssumption
    DEF IInv, AuthorityAgrees, Untouched, GraphComplete, ExpectedState, ExpectedTask, Built,
        authority, evidenceVars, budgetVars, Over
<1>1. ASSUME UNCHANGED <<round, task, members, authority, evidence>>
      PROVE  AuthorityAgrees' /\ Untouched'
  BY <1>1
<1>2. CASE CreateSearchRound
  BY <1>2 DEF CreateSearchRound, TypeOK, RoundRow
<1>3. CASE CloseIntake
  <2>1. Built' = {}
    BY <1>3 DEF CloseIntake, BuildTerminal
  <2> QED  BY <1>3, <2>1, FamilyTypes DEF CloseIntake, TypeOK, RoundRow
<1>4. CASE FreezeArtifactFamily
  BY <1>4, FamilyTypes DEF FreezeArtifactFamily, TypeOK, RoundRow
<1>5. ASSUME NEW o \in Ordinal, NEW c \in Candidate, AddRoundCandidate(o, c)
      PROVE  AuthorityAgrees' /\ Untouched'
  BY <1>5 DEF AddRoundCandidate, TypeOK, RoundRow
<1>6. ASSUME NEW o \in Ordinal, NEW b \in BuildTerminal, RecordBuild(o, b)
      PROVE  AuthorityAgrees' /\ Untouched'
  <2>1. members'[o] # None /\ members'[o].state = b
    <3>1. members[o] \in MemberRow
      BY <1>6 DEF RecordBuild, TypeOK
    <3>2. /\ members'[o] = [members[o] EXCEPT !.state = b, !.build = b,
                                !.generic = IF b = "built" THEN b ELSE "build_failed"]
          /\ members'[o] \in MemberRow
      BY <1>6, <3>1 DEF RecordBuild, TypeOK, MemberRow, BuildTerminal
    <3> QED  BY <3>1, <3>2 DEF MemberRow
  <2>2. o \in Built'
    BY <2>1
  <2> QED  BY <1>6, <2>2 DEF RecordBuild, TypeOK, RoundRow
<1>7. ASSUME NEW states \in [Ordinal -> SearchTerminal], NEW promoted \in SUBSET Ordinal,
             CloseSearchBarrier(states, promoted)
      PROVE  AuthorityAgrees' /\ Untouched'
  <2>1. search' # None
    BY <1>7 DEF CloseSearchBarrier, SearchRow
  <2> QED  BY <1>7, <2>1 DEF CloseSearchBarrier, TypeOK, RoundRow
<1>8. CASE RevealHoldout
  BY <1>8 DEF RevealHoldout, TypeOK, RoundRow
<1>9. ASSUME NEW family \in SUBSET Ordinal, NEW states \in [family -> HoldoutTerminal],
             CloseHoldoutBarrier(states)
      PROVE  AuthorityAgrees' /\ Untouched'
  <2>1. holdout' # None
    BY <1>9 DEF CloseHoldoutBarrier
  <2> QED  BY <1>9, <2>1 DEF CloseHoldoutBarrier, TypeOK, RoundRow
<1>10. CASE RecordComparison
  BY <1>10 DEF RecordComparison
<1>11. CASE Finalize
  <2>1. evidence' # None /\ search' # None
    BY <1>11 DEF Finalize
  <2>2. round'.state = "scripted_completed" /\ task' = "completed"
    BY <1>11 DEF Finalize, TypeOK, RoundRow
  <2>3. GraphComplete
    BY <1>11 DEF Finalize, TerminalPath
  <2> QED  BY <1>11, <2>1, <2>2, <2>3 DEF Finalize
<1>12. CASE CancelRound
  BY <1>12 DEF CancelRound, Cancelled, TypeOK, RoundRow
<1>13. CASE BuildEvidence
  BY <1>1, <1>13 DEF BuildEvidence
<1>14. ASSUME NEW r \in Reservation,
              \/ \E j \in Job, p \in Amount : ReserveBudget(r, j, p)
              \/ \E t \in {"settle", "release"}, a \in Amount : FinalizeBudget(r, t, a)
       PROVE  AuthorityAgrees' /\ Untouched'
  BY <1>1, <1>14 DEF ReserveBudget, FinalizeBudget
<1>15. ASSUME NEW j \in Job, EnqueueJob(j) \/ ClaimJob(j) \/ RequeueJob(j) \/ EndJob(j)
       PROVE  AuthorityAgrees' /\ Untouched'
  BY <1>1, <1>15 DEF EnqueueJob, ClaimJob, RequeueJob, EndJob, JobStep
<1>16. CASE UNCHANGED vars
  BY <1>1, <1>16 DEF vars
<1> HIDE DEF IInv, AuthorityAgrees, Untouched
<1> QED
  BY <1>2, <1>3, <1>4, <1>5, <1>6, <1>7, <1>8, <1>9, <1>10, <1>11, <1>12, <1>13, <1>14,
     <1>15, <1>16 DEF Next

\* The invariant is inductive.
LEMMA Inductive == (Init => IInv) /\ (IInv /\ [Next]_vars => IInv')
<1>1. Init => AuthorityAgrees /\ Untouched
  BY DEF Init, AuthorityAgrees, Untouched
<1> QED  BY <1>1, InitType, StepType, StepAgrees DEF IInv

\* The audit accepts every state that the transactions can reach: a round and
\* its task always agree with the durable barriers, reveals and evidence.
THEOREM AuthorityAlwaysAgrees == Spec => []AuthorityAgrees
<1>1. IInv => AuthorityAgrees
  BY DEF IInv
<1> QED  BY <1>1, Inductive, PTL DEF Spec

-----------------------------------------------------------------------------
(* What a round that is over leaves behind.                                *)

\* A round that is over has no step left that writes a row of the round: a
\* settle or a release would need a reservation that is still open.
LEMMA OverStep ==
    ASSUME Closed, [Next]_vars, round.state \in Over
    PROVE  UNCHANGED <<round, task, members, authority, evidence, budgetVars>>
<1> USE DEF Over, authority, evidenceVars, budgetVars
<1>1. CASE UNCHANGED vars
  BY <1>1 DEF vars
<1>2. ASSUME NEW r \in Reservation, NEW t \in {"settle", "release"}, NEW a \in Amount,
             FinalizeBudget(r, t, a)
      PROVE  FALSE
  BY <1>2 DEF FinalizeBudget, Closed, Outstanding
<1>3. ASSUME NEW j \in Job, EnqueueJob(j) \/ ClaimJob(j) \/ RequeueJob(j) \/ EndJob(j)
      PROVE  UNCHANGED <<round, task, members, authority, evidence, budgetVars>>
  BY <1>3 DEF EnqueueJob, ClaimJob, RequeueJob, EndJob, JobStep
<1>4. CASE BuildEvidence
  BY <1>4 DEF BuildEvidence
<1>5. ASSUME NEW r \in Reservation, NEW j \in Job, NEW p \in Amount
      PROVE  ~ ReserveBudget(r, j, p)
  BY DEF ReserveBudget
<1>6. ASSUME NEW o \in Ordinal
      PROVE  /\ \A c \in Candidate : ~ AddRoundCandidate(o, c)
             /\ \A b \in BuildTerminal : ~ RecordBuild(o, b)
  BY DEF AddRoundCandidate, RecordBuild
<1>7. /\ \A states, promoted : ~ CloseSearchBarrier(states, promoted)
      /\ \A states : ~ CloseHoldoutBarrier(states)
  BY DEF CloseSearchBarrier, CloseHoldoutBarrier
<1>8. ~ (CreateSearchRound \/ CloseIntake \/ FreezeArtifactFamily \/ RevealHoldout
           \/ RecordComparison \/ Finalize \/ CancelRound)
  BY DEF CreateSearchRound, CloseIntake, FreezeArtifactFamily, RevealHoldout, RecordComparison,
         Finalize, TerminalPath, CancelRound
<1> QED  BY <1>1, <1>2, <1>3, <1>4, <1>5, <1>6, <1>7, <1>8 DEF Next

\* A round becomes over only by Finalize or CancelRound, and gets evidence
\* only by Finalize.
LEMMA EndingStep ==
    ASSUME TypeOK, Closed, [Next]_vars, round.state \notin Over
    PROVE  \/ Finalize
           \/ /\ round'.state \notin Over \/ CancelRound
              /\ evidence' = None
<1> USE DEF Over, authority, evidenceVars, budgetVars
<1>0. evidence = None
  BY DEF Closed
<1>1. CASE UNCHANGED <<round, evidence>>
  BY <1>0, <1>1
<1>2. CASE CreateSearchRound \/ CloseIntake \/ FreezeArtifactFamily \/ RevealHoldout
  BY <1>0, <1>2 DEF CreateSearchRound, CloseIntake, FreezeArtifactFamily, RevealHoldout,
                   TypeOK, RoundRow
<1>3. ASSUME NEW o \in Ordinal, NEW b \in BuildTerminal, RecordBuild(o, b)
      PROVE  round'.state \notin Over /\ evidence' = None
  BY <1>0, <1>3 DEF RecordBuild, TypeOK, RoundRow
<1>4. ASSUME NEW states, NEW promoted, CloseSearchBarrier(states, promoted)
      PROVE  round'.state \notin Over /\ evidence' = None
  BY <1>0, <1>4 DEF CloseSearchBarrier, TypeOK, RoundRow
<1>5. ASSUME NEW states, CloseHoldoutBarrier(states)
      PROVE  round'.state \notin Over /\ evidence' = None
  BY <1>0, <1>5 DEF CloseHoldoutBarrier, TypeOK, RoundRow
<1>6. CASE CancelRound
  BY <1>0, <1>6 DEF CancelRound, Cancelled
<1>7. CASE RecordComparison \/ BuildEvidence
  BY <1>1, <1>7 DEF RecordComparison, BuildEvidence
<1>8. ASSUME NEW r \in Reservation,
             \/ \E j \in Job, p \in Amount : ReserveBudget(r, j, p)
             \/ \E t \in {"settle", "release"}, a \in Amount : FinalizeBudget(r, t, a)
      PROVE  UNCHANGED <<round, evidence>>
  BY <1>8 DEF ReserveBudget, FinalizeBudget
<1>9. ASSUME NEW j \in Job, EnqueueJob(j) \/ ClaimJob(j) \/ RequeueJob(j) \/ EndJob(j)
      PROVE  UNCHANGED <<round, evidence>>
  BY <1>9 DEF EnqueueJob, ClaimJob, RequeueJob, EndJob, JobStep
<1>10. ASSUME NEW o \in Ordinal, NEW c \in Candidate, AddRoundCandidate(o, c)
       PROVE  UNCHANGED <<round, evidence>>
  BY <1>10 DEF AddRoundCandidate
<1>11. UNCHANGED vars => UNCHANGED <<round, evidence>>
  BY DEF vars
<1> QED
  BY <1>1, <1>2, <1>3, <1>4, <1>5, <1>6, <1>7, <1>8, <1>9, <1>10, <1>11 DEF Next

\* Nothing is open when a round ends, and nothing is opened afterwards, so
\* that the ledger that was hashed stays the ledger.
LEMMA StepClosed ==
    TypeOK /\ Closed /\ EvidenceCoversLedger /\ [Next]_vars => Closed' /\ EvidenceCoversLedger'
<1> SUFFICES ASSUME TypeOK, Closed, EvidenceCoversLedger, [Next]_vars
             PROVE  Closed' /\ EvidenceCoversLedger'
  OBVIOUS
<1> USE DEF Closed, EvidenceCoversLedger, LedgerDocument, Outstanding, budgetVars
<1>1. CASE round.state \in Over
  <2>1. UNCHANGED <<round, evidence, reservations, ledger>>
    BY <1>1, OverStep
  <2> QED  BY <2>1
<1>2. CASE Finalize
  BY <1>2 DEF Finalize, TypeOK, RoundRow
<1>3. CASE round.state \notin Over /\ CancelRound /\ evidence' = None
  BY <1>3 DEF CancelRound, Cancelled
<1> QED  BY <1>1, <1>2, <1>3, EndingStep

\* The evidence of a completed round covers its whole ledger, for good.
THEOREM EvidenceAlwaysCovers == Spec => []EvidenceCoversLedger
<1>1. Init => Closed /\ EvidenceCoversLedger
  BY DEF Init, Closed, Over, EvidenceCoversLedger
<1> QED  BY <1>1, InitType, StepType, StepClosed, PTL DEF Spec

\* A round that is over never changes again, nor does its ledger.
THEOREM OverIsForGood == Spec => OverForGood
<1>1. Init => Closed /\ EvidenceCoversLedger
  BY DEF Init, Closed, Over, EvidenceCoversLedger
<1>2. Closed /\ [Next]_vars =>
        [round.state \in Over => UNCHANGED <<round, task, members, authority, evidence,
                                            budgetVars>>]_vars
  BY OverStep
<1> QED  BY <1>1, <1>2, InitType, StepType, StepClosed, PTL DEF Spec, OverForGood

-----------------------------------------------------------------------------
(* Frozen families.                                                        *)

\* Writing states into members that are there leaves who they are, and what
\* was built for them.
LEMMA SameFamilies ==
    ASSUME \A o \in Ordinal : /\ members'[o] = None <=> members[o] = None
                              /\ members'[o].candidate = members[o].candidate
                              /\ members'[o].build = members[o].build
    PROVE  /\ Complete' <=> Complete
           /\ CandidateFamily' = CandidateFamily /\ ArtifactFamily' = ArtifactFamily
BY DEF Complete, CandidateFamily, ArtifactFamily

\* A row that is written stays a row.
LEMMA RowsStay ==
    ASSUME NEW m \in MemberRow, NEW s, NEW g
    PROVE  /\ [m EXCEPT !.state = s].candidate = m.candidate
           /\ [m EXCEPT !.state = s].build = m.build
           /\ [m EXCEPT !.generic = g].candidate = m.candidate
           /\ [m EXCEPT !.generic = g].build = m.build
BY DEF MemberRow

\* Every step keeps what the hashes have committed to.
LEMMA StepFrozen == IInv /\ FamiliesFrozen /\ [Next]_vars => FamiliesFrozen'
<1> SUFFICES ASSUME IInv, FamiliesFrozen, [Next]_vars PROVE FamiliesFrozen'
  OBVIOUS
<1>0. TypeOK /\ TypeOK' /\ (round.state = "intake_open" => round.family = None /\ round.artifacts = None)
        /\ (round.state \in {"absent", "intake_open", "intake_closed", "building", "correctness"}
               => search = None /\ holdout = None)
  BY StepType DEF IInv, AuthorityAgrees, ExpectedState, GraphComplete, Untouched
<1> USE DEF FamiliesFrozen, authority, evidenceVars, budgetVars
<1>1. ASSUME UNCHANGED <<round, members, search, holdout>> PROVE FamiliesFrozen'
  BY <1>1 DEF Complete, CandidateFamily, ArtifactFamily
<1>2. CASE CreateSearchRound
  BY <1>0, <1>2 DEF CreateSearchRound, Complete, CandidateFamily, ArtifactFamily, TypeOK, RoundRow
<1>3. CASE CloseIntake
  BY <1>0, <1>3 DEF CloseIntake, Complete, CandidateFamily, ArtifactFamily, TypeOK, RoundRow
<1>4. CASE FreezeArtifactFamily
  BY <1>0, <1>4 DEF FreezeArtifactFamily, Complete, CandidateFamily, ArtifactFamily,
                    TypeOK, RoundRow
<1>5. ASSUME NEW o \in Ordinal, NEW c \in Candidate, AddRoundCandidate(o, c)
      PROVE  FamiliesFrozen'
  BY <1>0, <1>5 DEF AddRoundCandidate
<1>6. ASSUME NEW o \in Ordinal, NEW b \in BuildTerminal, RecordBuild(o, b)
      PROVE  FamiliesFrozen'
  <2>1. Complete /\ CandidateFamily = round.family /\ round.artifacts = None
    BY <1>6 DEF RecordBuild
  <2>2. members[o] \in MemberRow
    BY <1>0, <1>6 DEF RecordBuild, TypeOK
  <2>3. members'[o] \in MemberRow /\ members'[o].candidate = members[o].candidate
    BY <1>0, <1>6, <2>2 DEF RecordBuild, TypeOK, MemberRow, BuildTerminal
  <2>4. \A p \in Ordinal : p # o => members'[p] = members[p]
    BY <1>0, <1>6 DEF RecordBuild, TypeOK
  <2>5. Complete' /\ CandidateFamily' = CandidateFamily
    BY <2>1, <2>3, <2>4, NoneAssumption DEF Complete, CandidateFamily
  <2>6. round'.family = round.family /\ round'.artifacts = None /\ search' = None /\ holdout' = None
    BY <1>0, <1>6 DEF RecordBuild, TypeOK, RoundRow
  <2> QED  BY <2>1, <2>5, <2>6
<1>7. ASSUME NEW states \in [Ordinal -> SearchTerminal], NEW promoted \in SUBSET Ordinal,
             CloseSearchBarrier(states, promoted)
      PROVE  FamiliesFrozen'
  <2>1. \A o \in Ordinal : members[o] \in MemberRow /\ members'[o] = [members[o] EXCEPT !.state = states[o]]
    BY <1>0, <1>7 DEF CloseSearchBarrier, Complete, TypeOK
  <2>2. \A o \in Ordinal : /\ members'[o] = None <=> members[o] = None
                           /\ members'[o].candidate = members[o].candidate
                           /\ members'[o].build = members[o].build
    BY <1>0, <2>1, RowsStay, NoneAssumption DEF TypeOK, MemberRow
  <2>3. /\ round'.family = round.family /\ round'.artifacts = round.artifacts
        /\ promoted # {} => round'.promoted = promoted
        /\ search'.states = states /\ search'.promoted = promoted
        /\ holdout' = None
    BY <1>0, <1>7 DEF CloseSearchBarrier, TypeOK, RoundRow, RoundState
  <2>4. ASSUME NEW o \in promoted
        PROVE  round.artifacts[o] = "built" /\ states[o] = "search_measured"
    BY <1>7 DEF CloseSearchBarrier, ArtifactFamily
  <2>5. Complete' <=> Complete
    BY <2>2, SameFamilies
  <2>6. CandidateFamily' = CandidateFamily /\ ArtifactFamily' = ArtifactFamily
    BY <2>2, SameFamilies
  <2> QED  BY <2>3, <2>4, <2>5, <2>6
<1>8. CASE RevealHoldout
  BY <1>0, <1>8 DEF RevealHoldout, Complete, CandidateFamily, ArtifactFamily, TypeOK, RoundRow
<1>9. ASSUME NEW family \in SUBSET Ordinal, NEW states \in [family -> HoldoutTerminal],
             CloseHoldoutBarrier(states)
      PROVE  FamiliesFrozen'
  <2>1. ASSUME NEW o \in Ordinal
        PROVE  /\ members'[o] = None <=> members[o] = None
               /\ members'[o].candidate = members[o].candidate
               /\ members'[o].build = members[o].build
    <3>1. CASE o \notin search.promoted
      BY <1>9, <3>1 DEF CloseHoldoutBarrier
    <3>2. CASE o \in search.promoted
      <4>1. members[o] \in MemberRow
        BY <1>0, <1>9, <3>2 DEF CloseHoldoutBarrier, TypeOK
      <4>2. members'[o] = [members[o] EXCEPT !.state = states[o]]
        BY <1>9, <3>2 DEF CloseHoldoutBarrier
      <4>3. states[o] \in HoldoutTerminal
        BY <1>9, <3>2 DEF CloseHoldoutBarrier
      <4>4. members'[o] \in MemberRow
        BY <4>1, <4>2, <4>3 DEF MemberRow
      <4> QED  BY <4>1, <4>2, <4>4, RowsStay, NoneAssumption
    <3> QED  BY <3>1, <3>2
  <2>2. /\ Complete' <=> Complete
        /\ CandidateFamily' = CandidateFamily /\ ArtifactFamily' = ArtifactFamily
    BY <2>1, SameFamilies
  <2>3. /\ round'.family = round.family /\ round'.artifacts = round.artifacts
        /\ round'.promoted = round.promoted /\ search' = search
        /\ DOMAIN holdout' = search.promoted /\ search # None /\ search.promoted # {}
    BY <1>0, <1>9 DEF CloseHoldoutBarrier, TypeOK, RoundRow
  <2> QED  BY <2>2, <2>3
<1>10. CASE CancelRound
  <2>1. ASSUME NEW o \in Ordinal
        PROVE  /\ members'[o] = None <=> members[o] = None
               /\ members'[o].candidate = members[o].candidate
               /\ members'[o].build = members[o].build
    <3>1. CASE members'[o] = members[o]
      BY <3>1
    <3>2. CASE members'[o] # members[o]
      <4>1. members[o] \in MemberRow
        BY <1>0, <1>10, <3>2 DEF CancelRound, Cancelled, TypeOK
      <4>2. members'[o] = [members[o] EXCEPT !.generic = "rejected"]
        BY <1>10, <3>2 DEF CancelRound, Cancelled
      <4>3. members'[o] \in MemberRow
        BY <4>1, <4>2 DEF MemberRow
      <4> QED  BY <4>1, <4>2, <4>3, RowsStay, NoneAssumption
    <3> QED  BY <3>1, <3>2
  <2>2. /\ Complete' <=> Complete
        /\ CandidateFamily' = CandidateFamily /\ ArtifactFamily' = ArtifactFamily
    BY <2>1, SameFamilies
  <2>3. /\ round'.family = round.family /\ round'.artifacts = round.artifacts
        /\ round'.promoted = round.promoted /\ search' = search /\ holdout' = holdout
    BY <1>0, <1>10 DEF CancelRound, Cancelled, TypeOK, RoundRow
  <2> QED  BY <2>2, <2>3
<1>11. CASE Finalize
  BY <1>0, <1>11 DEF Finalize, Complete, CandidateFamily, ArtifactFamily, TypeOK, RoundRow
<1>12. CASE RecordComparison \/ BuildEvidence
  BY <1>1, <1>12 DEF RecordComparison, BuildEvidence
<1>13. ASSUME NEW r \in Reservation,
              \/ \E j \in Job, p \in Amount : ReserveBudget(r, j, p)
              \/ \E t \in {"settle", "release"}, a \in Amount : FinalizeBudget(r, t, a)
       PROVE  FamiliesFrozen'
  BY <1>1, <1>13 DEF ReserveBudget, FinalizeBudget
<1>14. ASSUME NEW j \in Job, EnqueueJob(j) \/ ClaimJob(j) \/ RequeueJob(j) \/ EndJob(j)
       PROVE  FamiliesFrozen'
  BY <1>1, <1>14 DEF EnqueueJob, ClaimJob, RequeueJob, EndJob, JobStep
<1>15. CASE UNCHANGED vars
  BY <1>1, <1>15 DEF vars
<1> HIDE DEF FamiliesFrozen
<1> QED
  BY <1>2, <1>3, <1>4, <1>5, <1>6, <1>7, <1>8, <1>9, <1>10, <1>11, <1>12, <1>13, <1>14,
     <1>15 DEF Next

\* What a hash has committed to is what the rows go on saying.
THEOREM FamiliesStayFrozen == Spec => []FamiliesFrozen
<1>1. Init => FamiliesFrozen
  BY DEF Init, FamiliesFrozen
<1> QED  BY <1>1, Inductive, StepFrozen, PTL DEF Spec

-----------------------------------------------------------------------------
(* The budget.                                                             *)

\* What each reservation and each settled entry counts.
Planned == [r \in Outstanding |-> reservations[r].planned]
Actual  == [e \in Settled |-> e.actual]
Counted == [e \in Settled |-> LET planned == reservations[e.reservation].planned
                              IN IF e.actual < planned THEN e.actual ELSE planned]

LedgerKnows ==
    /\ IsFiniteSet(ledger)
    /\ \A e \in ledger : /\ reservations[e.reservation].state # "absent"
                         /\ e.type = "settle" => reservations[e.reservation].state = "settled"

LEMMA CountedAmounts ==
    ASSUME TypeOK, LedgerKnows
    PROVE  /\ IsFiniteSet(Outstanding) /\ IsFiniteSet(Settled)
           /\ Planned \in [Outstanding -> Nat] /\ Actual \in [Settled -> Nat]
           /\ Counted \in [Settled -> Nat]
           /\ \A e \in Settled : Counted[e] <= Actual[e]
           /\ Usage = SumFunctionOnSet(Planned, Outstanding) + SumFunctionOnSet(Actual, Settled)
           /\ BudgetOverrunOnlyInUse <=>
                 SumFunctionOnSet(Planned, Outstanding) + SumFunctionOnSet(Counted, Settled) <= Budget
<1>1. IsFiniteSet(Outstanding)
  BY ReservationAssumption, FS_Subset DEF Outstanding
<1>2. IsFiniteSet(Settled)
  BY FS_Subset DEF Settled, LedgerKnows
<1>3. \A r \in Reservation : reservations[r].planned \in Nat
  BY DEF TypeOK, ReservationRow
<1>4. \A e \in Settled : e.actual \in Nat /\ e.reservation \in Reservation
  BY DEF TypeOK, Settled, Entry
<1>5. Planned \in [Outstanding -> Nat] /\ Actual \in [Settled -> Nat]
  BY <1>3, <1>4 DEF Planned, Actual, Outstanding
<1>6. Counted \in [Settled -> Nat] /\ \A e \in Settled : Counted[e] <= Actual[e]
  BY <1>3, <1>4 DEF Counted, Actual
<1>7. Usage = SumFunctionOnSet(Planned, Outstanding) + SumFunctionOnSet(Actual, Settled)
  BY DEF Usage, SumFunction, Planned, Actual
<1>8. BudgetOverrunOnlyInUse <=>
        SumFunctionOnSet(Planned, Outstanding) + SumFunctionOnSet(Counted, Settled) <= Budget
  BY DEF BudgetOverrunOnlyInUse, SumFunction, Planned, Counted
<1> QED BY <1>1, <1>2, <1>5, <1>6, <1>7, <1>8

BudgetInv == LedgerKnows /\ BudgetOverrunOnlyInUse

\* Another reservation is admitted by what was really used, which is no less
\* than what is counted.
LEMMA ReserveFits ==
    ASSUME TypeOK, BudgetInv, NEW r \in Reservation, NEW j \in Job, NEW p \in Amount,
           ReserveBudget(r, j, p), TypeOK'
    PROVE  BudgetInv'
<1> USE DEF BudgetInv
<1> DEFINE e == [reservation |-> r, type |-> "reserve", actual |-> 0]
<1>1. /\ ledger' = ledger \cup {e} /\ reservations[r].state = "absent"
      /\ reservations'[r].state = "reserved" /\ reservations'[r].planned = p
      /\ \A q \in Reservation \ {r} : reservations'[q] = reservations[q]
      /\ Usage + p <= Budget /\ p \in Nat
  BY AmountAssumption DEF ReserveBudget, TypeOK, Amount
<1>2. \A d \in ledger : d.reservation \in Reservation \ {r}
  BY <1>1 DEF LedgerKnows, TypeOK, Entry
<1>3. LedgerKnows'
  <2>1. IsFiniteSet(ledger')
    BY <1>1, FS_AddElement DEF LedgerKnows
  <2>2. \A d \in ledger : reservations'[d.reservation] = reservations[d.reservation]
    BY <1>1, <1>2
  <2> QED BY <1>1, <2>1, <2>2 DEF LedgerKnows
<1>4. Outstanding' = Outstanding \cup {r} /\ r \notin Outstanding /\ Settled' = Settled
  BY <1>1 DEF Outstanding, Settled
<1>5. Counted' = Counted
  <2>1. \A d \in Settled : reservations'[d.reservation] = reservations[d.reservation]
    BY <1>1, <1>2 DEF Settled
  <2> QED BY <1>4, <2>1 DEF Counted
<1>6. SumFunctionOnSet(Planned', Outstanding') = p + SumFunctionOnSet(Planned, Outstanding)
  <2> DEFINE f == Planned'  S == Outstanding'
  <2>1. IsFiniteSet(S) /\ f \in [S -> Nat]
    <3>1. IsFiniteSet(S)
      BY <1>4, CountedAmounts, FS_AddElement
    <3>2. \A q \in Reservation : reservations'[q].planned \in Nat
      BY DEF TypeOK, ReservationRow
    <3> QED BY <3>1, <3>2 DEF Planned, Outstanding
  <2>2. r \in S /\ f[r] = p /\ S \ {r} = Outstanding /\ \A q \in Outstanding : f[q] = Planned[q]
    BY <1>1, <1>4 DEF Planned, Outstanding
  <2> HIDE DEF f, S
  <2>3. SumFunctionOnSet(f, S) = p + SumFunctionOnSet(f, Outstanding)
    BY <2>1, <2>2, SumTakeOut
  <2>4. SumFunctionOnSet(f, Outstanding) = SumFunctionOnSet(Planned, Outstanding)
    BY <2>2, CountedAmounts, SumSame
  <2> QED BY <2>3, <2>4 DEF f, S
<1>7. SumFunctionOnSet(Counted, Settled) <= SumFunctionOnSet(Actual, Settled)
  BY CountedAmounts, SumMore
<1>8. /\ SumFunctionOnSet(Counted, Settled) \in Nat /\ SumFunctionOnSet(Actual, Settled) \in Nat
      /\ SumFunctionOnSet(Planned, Outstanding) \in Nat
  BY CountedAmounts, SumNat
<1>9. SumFunctionOnSet(Planned', Outstanding') + SumFunctionOnSet(Counted', Settled') <= Budget
  <2> DEFINE a == SumFunctionOnSet(Counted, Settled)
             b == SumFunctionOnSet(Actual, Settled)
             c == SumFunctionOnSet(Planned, Outstanding)
  <2>1. Usage = c + b
    BY CountedAmounts
  <2>2. SumFunctionOnSet(Planned', Outstanding') = p + c /\ SumFunctionOnSet(Counted', Settled') = a
    BY <1>4, <1>5, <1>6
  <2>3. a <= b /\ a \in Nat /\ b \in Nat /\ c \in Nat /\ p \in Nat /\ Budget \in Nat /\ (c + b) + p <= Budget
    BY <1>1, <1>7, <1>8, <2>1, AmountAssumption
  <2> HIDE DEF a, b, c
  <2> QED BY <2>2, <2>3
<1>10. BudgetOverrunOnlyInUse'
  BY <1>9 DEF BudgetOverrunOnlyInUse, SumFunction, Planned, Counted
<1> QED BY <1>3, <1>10

\* A reservation that is settled counts for no more than it has reserved, and
\* one that is released for nothing.
LEMMA FinalizeFits ==
    ASSUME TypeOK, BudgetInv, TypeOK', NEW r \in Reservation,
           NEW t \in {"settle", "release"}, NEW a \in Amount, FinalizeBudget(r, t, a)
    PROVE  BudgetInv'
<1> USE DEF BudgetInv
<1> DEFINE e == [reservation |-> r, type |-> t, actual |-> a]
           row == [reservations[r] EXCEPT !.state = IF t = "settle" THEN "settled" ELSE "released"]
<1>1. /\ ledger' = ledger \cup {e} /\ reservations[r].state = "reserved"
      /\ reservations' = [reservations EXCEPT ![r] = row]
      /\ a \in Nat
  BY AmountAssumption DEF FinalizeBudget, TypeOK, Amount
<1>2. /\ row.state = (IF t = "settle" THEN "settled" ELSE "released")
      /\ row.planned = reservations[r].planned
  BY DEF TypeOK, ReservationRow
<1>3. /\ reservations'[r].state = row.state
      /\ \A q \in Reservation : reservations'[q].planned = reservations[q].planned
      /\ \A q \in Reservation \ {r} : reservations'[q] = reservations[q]
  <2> HIDE DEF row
  <2> QED BY <1>1, <1>2 DEF TypeOK
<1>4. \A d \in ledger : d.reservation \in Reservation /\ (d.type = "settle" => d.reservation # r)
  BY <1>1 DEF LedgerKnows, TypeOK, Entry
<1>5. LedgerKnows'
  <2>1. IsFiniteSet(ledger')
    BY <1>1, FS_AddElement DEF LedgerKnows
  <2>2. ASSUME NEW d \in ledger'
        PROVE  /\ reservations'[d.reservation].state # "absent"
               /\ d.type = "settle" => reservations'[d.reservation].state = "settled"
    <3>1. CASE d = e
      BY <3>1, <1>2, <1>3
    <3>2. CASE d \in ledger
      <4>1. CASE d.reservation = r
        BY <3>2, <4>1, <1>2, <1>3, <1>4
      <4>2. CASE d.reservation # r
        BY <3>2, <4>2, <1>3, <1>4 DEF LedgerKnows
      <4> QED BY <4>1, <4>2
    <3> QED BY <3>1, <3>2, <1>1
  <2> QED BY <2>1, <2>2 DEF LedgerKnows
<1>6. Outstanding' = Outstanding \ {r} /\ r \in Outstanding
  BY <1>1, <1>2, <1>3 DEF Outstanding
<1> DEFINE p == reservations[r].planned  c == SumFunctionOnSet(Planned, Outstanding)
           s == SumFunctionOnSet(Counted, Settled)
<1>7. SumFunctionOnSet(Planned', Outstanding') + p = c /\ p \in Nat
      /\ SumFunctionOnSet(Planned', Outstanding') \in Nat
  <2>1. Planned[r] = p /\ \A q \in Outstanding' : Planned'[q] = Planned[q]
    BY <1>3, <1>6 DEF Planned, Outstanding
  <2>2. c = p + SumFunctionOnSet(Planned, Outstanding')
    BY <1>6, <2>1, CountedAmounts, SumTakeOut
  <2>3. IsFiniteSet(Outstanding')
    BY <1>6, CountedAmounts, FS_RemoveElement
  <2>4. SumFunctionOnSet(Planned', Outstanding') = SumFunctionOnSet(Planned, Outstanding')
    BY <2>1, <2>3, SumSame
  <2>5. SumFunctionOnSet(Planned, Outstanding') \in Nat /\ p \in Nat
    <3>1. \A q \in Outstanding' : Planned[q] \in Nat
      BY <1>6, CountedAmounts
    <3> QED BY <3>1, <2>1, <2>3, <1>6, CountedAmounts, SumNat
  <2> QED BY <2>2, <2>4, <2>5
<1>8. s \in Nat /\ c + s <= Budget /\ c \in Nat
  BY CountedAmounts, SumNat
<1>9. SumFunctionOnSet(Counted', Settled') <= s + p /\ SumFunctionOnSet(Counted', Settled') \in Nat
  <2>1. \A d \in Settled : Counted'[d] = Counted[d] \/ d \notin Settled'
    BY <1>3, <1>4 DEF Counted, Settled
  <2>2. CASE t = "release"
    <3>1. Settled' = Settled
      BY <1>1, <2>2 DEF Settled
    <3>2. SumFunctionOnSet(Counted', Settled') = s
      BY <3>1, <2>1, CountedAmounts, SumSame
    <3> QED BY <3>2, <1>7, <1>8
  <2>3. CASE t = "settle"
    <3>1. Settled' = Settled \cup {e} /\ e \notin Settled
      BY <1>1, <1>4, <2>3 DEF Settled
    <3> DEFINE f == Counted'  S == Settled'
    <3>2. f[e] <= p /\ f[e] \in Nat
      BY <3>1, <1>1, <1>3, <1>7 DEF Counted
    <3>3. \A d \in Settled : f[d] = Counted[d]
      BY <2>1, <3>1
    <3>4. e \in S /\ S \ {e} = Settled /\ IsFiniteSet(S)
      BY <3>1, CountedAmounts, FS_AddElement
    <3> HIDE DEF f, S, e
    <3>5. \A d \in S : f[d] \in Nat
      <4>1. \A d \in Settled : Counted[d] \in Nat
        BY CountedAmounts
      <4> QED BY <4>1, <3>2, <3>3, <3>4
    <3>6. SumFunctionOnSet(f, S) = f[e] + SumFunctionOnSet(f, Settled)
      BY <3>4, <3>5, SumTakeOut
    <3>7. SumFunctionOnSet(f, Settled) = s
      BY <3>3, CountedAmounts, SumSame
    <3> HIDE DEF s
    <3>8. SumFunctionOnSet(f, S) <= s + p /\ SumFunctionOnSet(f, S) \in Nat
      BY <3>2, <3>6, <3>7, <1>7, <1>8
    <3> QED BY <3>8 DEF f, S
  <2> QED BY <2>2, <2>3
<1>10. SumFunctionOnSet(Planned', Outstanding') + SumFunctionOnSet(Counted', Settled') <= Budget
  <2> DEFINE x == SumFunctionOnSet(Planned', Outstanding')  y == SumFunctionOnSet(Counted', Settled')
  <2>1. x + p = c /\ y <= s + p /\ c + s <= Budget /\ x \in Nat /\ y \in Nat /\ p \in Nat
        /\ s \in Nat /\ c \in Nat
    BY <1>7, <1>8, <1>9
  <2> HIDE DEF x, y, p, s, c
  <2>2. x + y <= Budget
    BY <2>1, AmountAssumption
  <2> QED BY <2>2 DEF x, y
<1>11. BudgetOverrunOnlyInUse'
  BY <1>10 DEF BudgetOverrunOnlyInUse, SumFunction, Planned, Counted
<1> QED BY <1>5, <1>11

LEMMA BudgetStep == TypeOK /\ BudgetInv /\ [Next]_vars => BudgetInv'
<1> SUFFICES ASSUME TypeOK, BudgetInv, [Next]_vars PROVE BudgetInv'
  OBVIOUS
<1>0. TypeOK'
  BY StepType
<1>1. CASE UNCHANGED budgetVars
  <2>1. Planned' = Planned /\ Counted' = Counted /\ Outstanding' = Outstanding /\ Settled' = Settled
    BY <1>1 DEF Planned, Counted, Outstanding, Settled, budgetVars
  <2>2. LedgerKnows'
    BY <1>1 DEF LedgerKnows, BudgetInv, budgetVars
  <2>3. BudgetOverrunOnlyInUse'
    BY <2>1 DEF BudgetInv, BudgetOverrunOnlyInUse, SumFunction, Planned, Counted
  <2> QED BY <2>2, <2>3 DEF BudgetInv
<1>2. CASE \E r \in Reservation : \E j \in Job, p \in Amount : ReserveBudget(r, j, p)
  BY <1>0, <1>2, ReserveFits
<1>3. CASE \E r \in Reservation : \E t \in {"settle", "release"}, a \in Amount :
             FinalizeBudget(r, t, a)
  BY <1>0, <1>3, FinalizeFits
<1> QED BY <1>1, <1>2, <1>3 DEF Next, vars, CreateSearchRound, CloseIntake, FreezeArtifactFamily,
           AddRoundCandidate, RecordBuild, CloseSearchBarrier, RevealHoldout, CloseHoldoutBarrier,
           RecordComparison, BuildEvidence, Finalize, CancelRound, Cancelled, EnqueueJob, ClaimJob,
           RequeueJob, EndJob, JobStep

LEMMA BudgetInitially == Init => BudgetInv
<1> SUFFICES ASSUME Init PROVE BudgetInv
  OBVIOUS
<1>1. ledger = {} /\ Outstanding = {} /\ Settled = {}
  BY DEF Init, Outstanding, Settled
<1>2. LedgerKnows
  BY <1>1, FS_EmptySet DEF LedgerKnows
<1>3. SumFunctionOnSet(Planned, Outstanding) + SumFunctionOnSet(Counted, Settled) = 0
  BY <1>1, SumEmpty
<1>4. BudgetOverrunOnlyInUse
  BY <1>3, AmountAssumption DEF BudgetOverrunOnlyInUse, SumFunction, Planned, Counted
<1> QED BY <1>2, <1>4 DEF BudgetInv

\* The budget is overrun only by what attempts really used beyond their
\* reservation, whatever is reserved, settled and released, in any order
\* (reserve_round_budget, finalize_round_budget).
THEOREM OverrunsAreUse == Spec => []BudgetOverrunOnlyInUse
<1>1. BudgetInv => BudgetOverrunOnlyInUse
  BY DEF BudgetInv
<1> QED BY <1>1, BudgetInitially, BudgetStep, InitType, StepType, PTL DEF Spec
=============================================================================
