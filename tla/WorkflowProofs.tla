--------------------------- MODULE WorkflowProofs ---------------------------
(***************************************************************************)
(* For any number of requests, crashes, retests, probes and endpoint runs: *)
(* decisions are final (DecisionsAreFinal), a Stage 0 task is decided by   *)
(* one authority (DecidedByOne), a campaign that an operator is asked      *)
(* about is backed by its adjudication (CampaignBacked), a manual task     *)
(* and its candidate say the same (TaskAndCandidateAgree), the evidence of *)
(* a Framework Smoke task is written in time (EvidenceInTime), and the     *)
(* barrier of an optimization round holds (BarrierHolds).                  *)
(*                                                                         *)
(* The argument about a workflow is always the same: which operations the  *)
(* requests have yet to do, and that each is for a job that has succeeded, *)
(* however often and however late it is done.                              *)
(***************************************************************************)
EXTENDS WorkflowRouter, SequenceTheorems, WellFoundedInduction, TLAPS

-----------------------------------------------------------------------------
(* Decisions are final.                                                    *)

\* The rows have their columns, whatever is in them.
Shape == /\ DOMAIN state = {Task} \cup Members
         /\ DOMAIN stage0 = {"run", "recorded", "authority"}

TaskEnds == {"completed", "rejected", "cancelled", "stopped_measurement"}
RunEnds  == {"finalized", "failed"}
CampaignEnds == {"invalid", "adjudication_failed", "completed", "rejected"}

\* What DecisionsAreFinal says of a step, and that the columns stay.
Final == /\ state[Task] \in TaskEnds => state'[Task] = state[Task]
         /\ stage0.run \in RunEnds => stage0'.run = stage0.run
         /\ campaign \in CampaignEnds => campaign' = campaign

LEMMA EndsHaveNoMoves == \A s \in TaskEnds : TaskMoves(s) = {}
BY DEF TaskEnds, TaskMoves

\* A step that leaves stage0 and the campaign alone.
LEMMA TaskFinal ==
  ASSUME Shape, UNCHANGED <<stage0, campaign>>, DOMAIN state' = DOMAIN state,
         state[Task] \in TaskEnds => state'[Task] = state[Task]
  PROVE  Final /\ Shape'
BY DEF Final, Shape

LEMMA ServeFinal ==
  ASSUME Shape, NEW k \in Call, Serve(k)
  PROVE  Final /\ Shape'
<1>1. ASSUME Move(k), UNCHANGED OnlyBase PROVE Final /\ Shape'
  <2>1. DOMAIN state' = DOMAIN state
    BY <1>1 DEF Move
  <2>2. ASSUME state[Task] \in TaskEnds PROVE state'[Task] = state[Task]
    <3>1. Task \in DOMAIN state
      BY DEF Shape
    <3>2. CASE Next1(k).who = Task
      BY <1>1, <2>2, <3>2, EndsHaveNoMoves DEF Move, Moves
    <3>3. CASE Next1(k).who # Task
      BY <1>1, <3>1, <3>3 DEF Move
    <3> QED
      BY <3>2, <3>3
  <2>3. UNCHANGED <<stage0, campaign>>
    BY <1>1 DEF OnlyBase, endpointVars
  <2> QED
    BY <2>1, <2>2, <2>3, TaskFinal
<1>2. ASSUME CreateCandidates(k), UNCHANGED OnlyBase PROVE Final /\ Shape'
  <2>1. DOMAIN state' = DOMAIN state /\ UNCHANGED <<stage0, campaign>>
    BY <1>2 DEF CreateCandidates, OnlyBase, endpointVars
  <2>2. Task \in DOMAIN state /\ \A c \in Ordinal : Candidate(c) # Task
    BY DEF Shape, Candidate, Task
  <2>3. state'[Task] = state[Task]
    BY <1>2, <2>2 DEF CreateCandidates
  <2> QED
    BY <2>1, <2>3, TaskFinal
<1>3. ASSUME UNCHANGED <<state, stage0, campaign>> PROVE Final /\ Shape'
  BY <1>3, TaskFinal
<1>4. CASE /\ \/ calls[k].queue # <<>> /\ Turn(k, Handler(Head(calls[k].queue)))
              \/ EnsureState(k) \/ EnqueueOne(k) \/ MarkAdvanced(k) \/ Return(k)
              \/ ReadAgain(k) \/ MaybeFinishRound(k)
           /\ UNCHANGED OnlyBase
  BY <1>3, <1>4 DEF Turn, EnsureState, EnqueueOne, MarkAdvanced, Return, ReadAgain,
                    MaybeFinishRound, OnlyBase, endpointVars
<1>5. ASSUME CreateNoopCandidate(k), UNCHANGED ButSmoke PROVE Final /\ Shape'
  <2>1. DOMAIN state' = DOMAIN state /\ UNCHANGED <<stage0, campaign>> /\ Cand # Task
    BY <1>5 DEF CreateNoopCandidate, ButSmoke, endpointVars, Cand, Candidate, Task
  <2>2. state'[Task] = state[Task]
    BY <1>5, <2>1 DEF CreateNoopCandidate
  <2> QED
    BY <2>1, <2>2, TaskFinal
<1>6. ASSUME ExecuteFramework(k), UNCHANGED ButSmoke PROVE Final /\ Shape'
  <2>1. DOMAIN state' = DOMAIN state /\ UNCHANGED <<stage0, campaign>>
    BY <1>6 DEF ExecuteFramework, ButSmoke, endpointVars
  <2>2. state[Task] \in TaskEnds => state'[Task] = state[Task]
    BY <1>6 DEF ExecuteFramework, TaskEnds
  <2> QED
    BY <2>1, <2>2, TaskFinal
<1>7. CASE (RecordEvidence(k) \/ JudgeSmoke(k)) /\ UNCHANGED ButSmoke
  BY <1>3, <1>7 DEF RecordEvidence, JudgeSmoke, ButSmoke, endpointVars
<1>8. CASE SetVerdict(k) /\ UNCHANGED ButManual
  BY <1>3, <1>8 DEF SetVerdict, ButManual, endpointVars
<1>9. ASSUME RecordProbe(k) \/ FinalizeStage0(k), UNCHANGED ButStage0 PROVE Final /\ Shape'
  <2>1. DOMAIN state' = DOMAIN state /\ DOMAIN stage0' = DOMAIN stage0 /\ campaign' = campaign
    BY <1>9 DEF RecordProbe, FinalizeStage0, ButStage0, endpointVars
  <2>2. state[Task] \in TaskEnds => state'[Task] = state[Task]
    BY <1>9 DEF RecordProbe, FinalizeStage0, ReadyToFinalize, TaskEnds
  <2>3. stage0.run \in RunEnds => stage0'.run = stage0.run
    BY <1>9 DEF RecordProbe, FinalizeStage0, ReadyToFinalize, RunEnds
  <2> QED
    BY <2>1, <2>2, <2>3 DEF Final, Shape
<1>10. ASSUME RecordEndpoint(k) \/ RecordAdjudication(k), UNCHANGED ButEndpoint
       PROVE  Final /\ Shape'
  <2>1. UNCHANGED <<state, stage0>>
    BY <1>10 DEF RecordEndpoint, RecordAdjudication, ButEndpoint
  <2>2. campaign \in CampaignEnds => campaign' = campaign
    BY <1>10 DEF RecordEndpoint, RecordAdjudication, CampaignEnds
  <2> QED
    BY <2>1, <2>2 DEF Final, Shape
<1> QED
  BY <1>1, <1>2, <1>4, <1>5, <1>6, <1>7, <1>8, <1>9, <1>10 DEF Serve

LEMMA OperatorFinal ==
  ASSUME Shape, Operator
  PROVE  Final /\ Shape'
<1>1. ASSUME RetestFramework \/ CancelFramework \/ \E b \in BOOLEAN : SignoffFramework(b),
             UNCHANGED ButSmoke
      PROVE  Final /\ Shape'
  <2>1. DOMAIN state' = DOMAIN state /\ UNCHANGED <<stage0, campaign>>
    BY <1>1 DEF RetestFramework, CancelFramework, SignoffFramework, ButSmoke, endpointVars
  <2>2. ASSUME state[Task] \in TaskEnds PROVE state'[Task] = state[Task]
    BY <1>1, <2>2, EndsHaveNoMoves
       DEF RetestFramework, CancelFramework, SignoffFramework, TaskEnds
  <2> QED
    BY <2>1, <2>2, TaskFinal
<1>2. ASSUME CreateManualCandidate \/ \E b \in BOOLEAN : SignoffManual(b), UNCHANGED ButManual
      PROVE  Final /\ Shape'
  <2>1. DOMAIN state' = DOMAIN state /\ UNCHANGED <<stage0, campaign>>
    BY <1>2 DEF CreateManualCandidate, SignoffManual, ButManual, endpointVars
  <2>2. ASSUME state[Task] \in TaskEnds PROVE state'[Task] = state[Task]
    BY <1>2, <2>2 DEF CreateManualCandidate, SignoffManual, TaskEnds
  <2> QED
    BY <2>1, <2>2, TaskFinal
<1>3. ASSUME NEW k \in Call, FreezeBaseline(k), UNCHANGED OnlyBase PROVE Final /\ Shape'
  <2>1. DOMAIN state' = DOMAIN state /\ UNCHANGED <<stage0, campaign>>
    BY <1>3 DEF FreezeBaseline, OnlyBase, endpointVars
  <2>2. ASSUME state[Task] \in TaskEnds PROVE state'[Task] = state[Task]
    BY <1>3, <2>2 DEF FreezeBaseline, TaskEnds, Shape
  <2> QED
    BY <2>1, <2>2, TaskFinal
<1>4. ASSUME SaveStage0 \/ \E k \in Call : VerifyStage0(k), UNCHANGED ButStage0
      PROVE  Final /\ Shape'
  <2>1. /\ DOMAIN state' = DOMAIN state /\ DOMAIN stage0' = DOMAIN stage0
        /\ campaign' = campaign
    BY <1>4 DEF SaveStage0, VerifyStage0, ButStage0, endpointVars
  <2>2. stage0'.run = stage0.run
    BY <1>4 DEF SaveStage0, VerifyStage0, Shape
  <2>3. state[Task] \in TaskEnds => state'[Task] = state[Task]
    BY <1>4 DEF SaveStage0, VerifyStage0, TaskEnds
  <2> QED
    BY <2>1, <2>2, <2>3 DEF Final, Shape
<1>5. ASSUME \/ \E i \in 1 .. EndpointRuns : CreateEndpointRun(i)
             \/ CreateCampaign \/ \E b \in BOOLEAN : SignoffCampaign(b)
             \/ \E j \in MyJobs : IF j \in EndpointJobs THEN CancelEndpointJob(j)
                                 ELSE CancelJob(j) /\ UNCHANGED endpointVars,
             UNCHANGED ButEndpoint
      PROVE  Final /\ Shape'
  <2>1. UNCHANGED <<state, stage0>>
    BY <1>5 DEF CreateEndpointRun, CreateCampaign, SignoffCampaign, CancelEndpointJob, CancelJob,
                ButEndpoint, base
  <2>2. campaign \in CampaignEnds => campaign' = campaign
    BY <1>5 DEF CreateEndpointRun, CreateCampaign, SignoffCampaign, CancelEndpointJob,
                AdjudicationOver, CampaignEnds, endpointVars
  <2> QED
    BY <2>1, <2>2 DEF Final, Shape
<1> QED
  BY <1>1, <1>2, <1>3, <1>4, <1>5 DEF Operator

LEMMA FailFinal ==
  ASSUME Shape, NEW j \in MyJobs, Fail(j)
  PROVE  Final /\ Shape'
<1>1. ASSUME FailSmokeJob(j), UNCHANGED ButSmoke PROVE Final /\ Shape'
  <2>1. DOMAIN state' = DOMAIN state /\ UNCHANGED <<stage0, campaign>>
    BY <1>1 DEF FailSmokeJob, ButSmoke, endpointVars
  <2>2. Task \in DOMAIN state /\ Cand # Task
    BY DEF Shape, Cand, Candidate, Task
  <2>3. ASSUME state[Task] \in TaskEnds PROVE state'[Task] = state[Task]
    BY <1>1, <2>2, <2>3, EndsHaveNoMoves DEF FailSmokeJob, TaskEnds, Moves
  <2> QED
    BY <2>1, <2>3, TaskFinal
<1>2. ASSUME FailManualJob(j), UNCHANGED ButManual PROVE Final /\ Shape'
  <2>1. DOMAIN state' = DOMAIN state /\ UNCHANGED <<stage0, campaign>>
    BY <1>2 DEF FailManualJob, ButManual, endpointVars
  <2>2. Task \in DOMAIN state /\ MCand # Task
    BY DEF Shape, MCand, Candidate, Task
  <2>3. ASSUME state[Task] \in TaskEnds PROVE state'[Task] = state[Task]
    BY <1>2, <2>2, <2>3, EndsHaveNoMoves DEF FailManualJob, TaskEnds, Moves
  <2> QED
    BY <2>1, <2>3, TaskFinal
<1>3. CASE FailRoundJob(j) /\ UNCHANGED OnlyBase
  BY <1>3, TaskFinal DEF FailRoundJob, OnlyBase, endpointVars
<1>4. ASSUME FailProbeJob(j), UNCHANGED ButStage0 PROVE Final /\ Shape'
  <2>1. /\ UNCHANGED <<state, campaign>> /\ DOMAIN stage0' = DOMAIN stage0
        /\ stage0.run \in RunEnds => stage0'.run = stage0.run
    BY <1>4 DEF FailProbeJob, ButStage0, endpointVars, RunEnds, Shape
  <2> QED
    BY <2>1 DEF Final, Shape
<1>5. ASSUME FailEndpointJob(j), UNCHANGED ButEndpoint PROVE Final /\ Shape'
  <2>1. UNCHANGED <<state, stage0>> /\ (campaign \in CampaignEnds => campaign' = campaign)
    BY <1>5 DEF FailEndpointJob, AdjudicationOver, CampaignEnds, ButEndpoint
  <2> QED
    BY <2>1 DEF Final, Shape
<1> QED
  BY <1>1, <1>2, <1>3, <1>4, <1>5 DEF Fail

LEMMA StepFinal == Shape /\ [RouterNext]_vars => Final /\ Shape'
<1> SUFFICES ASSUME Shape, [RouterNext]_vars PROVE Final /\ Shape'
  OBVIOUS
<1>1. ASSUME NEW k \in Call, Poll(k) \/ Die(k) PROVE Final /\ Shape'
  <2>1. UNCHANGED <<state, stage0, campaign>>
    BY <1>1 DEF Poll, Reconcile, Die, Crash, OnlyBase, endpointVars
  <2> QED
    BY <2>1, TaskFinal
<1>2. ASSUME NEW k \in Call, NEW j \in MyJobs, Claim(k, j) PROVE Final /\ Shape'
  <2>1. UNCHANGED <<state, stage0>>
    BY <1>2 DEF Claim, ClaimJob, ButEndpoint
  <2>2. campaign \in CampaignEnds => campaign' = campaign
    BY <1>2 DEF Claim, EndpointClaimed, endpointVars, CampaignEnds
  <2> QED
    BY <2>1, <2>2 DEF Final, Shape
<1>3. ASSUME NEW k \in Call, NEW j \in MyJobs, Complete(k, j) PROVE Final /\ Shape'
  <2>1. UNCHANGED <<state, stage0, campaign>>
    BY <1>3 DEF Complete, CompleteJob, OnlyBase, endpointVars
  <2> QED
    BY <2>1, TaskFinal
<1>4. CASE UNCHANGED vars
  <2>1. UNCHANGED <<state, stage0, campaign>>
    BY <1>4 DEF vars, base, endpointVars
  <2> QED
    BY <2>1, TaskFinal
<1> QED
  BY <1>1, <1>2, <1>3, <1>4, ServeFinal, OperatorFinal, FailFinal DEF RouterNext

LEMMA InitShape == RouterInit => Shape
BY DEF RouterInit, Shape, Stage0Start

\* Whatever handlers run late or twice, and whatever requests die, a task, a
\* Stage 0 run and a campaign that are decided stay so (transitions.py, and
\* the guards of all the transactions that decide).
THEOREM DecisionsStay == RouterSpec => DecisionsAreFinal
<1>1. Shape /\ [RouterNext]_vars => Shape'
  BY StepFinal
<1>2. RouterSpec => []Shape
  BY <1>1, InitShape, PTL DEF RouterSpec
<1> DEFINE Decided ==
      /\ state[Task] \in {"completed", "rejected", "cancelled", "stopped_measurement"} =>
             state'[Task] = state[Task]
      /\ stage0.run \in {"finalized", "failed"} => stage0'.run = stage0.run
      /\ campaign \in {"invalid", "adjudication_failed", "completed", "rejected"} =>
             campaign' = campaign
<1>3. Shape /\ [RouterNext]_vars => [Decided]_vars
  BY StepFinal DEF Final, TaskEnds, RunEnds, CampaignEnds
<1> HIDE DEF Decided
<1>4. RouterSpec => [][Decided]_vars
  BY <1>2, <1>3, PTL DEF RouterSpec
<1> QED
  BY <1>4 DEF DecisionsAreFinal, Decided

-----------------------------------------------------------------------------
(* What requests have yet to do.                                           *)

Succ == {j \in MyJobs : phase[j] = "succeeded"}

Row(T, Q) == [kind : {"idle", "complete", "claim", "baseline", "finalize"},
              todo : Seq(T), queue : Seq(Q)]

\* Requests have only operations of T to do and jobs of Q to advance.
Holds(u, c, T, Q) == u \in Seq(Q) /\ c \in [Call -> Row(T, Q)]

LEMMA SeqGrows == ASSUME NEW S, NEW T, S \subseteq T, NEW s \in Seq(S) PROVE s \in Seq(T)
BY SeqMonotonic

LEMMA PairSeq == ASSUME NEW S, NEW a \in S, NEW b \in S PROVE <<a, b>> \in Seq(S)
OBVIOUS

LEMMA HoldsMore ==
  ASSUME NEW S, NEW T, NEW P, NEW Q, S \subseteq T, P \subseteq Q,
         NEW u, NEW c, Holds(u, c, S, P)
  PROVE  Holds(u, c, T, Q)
<1>1. u \in Seq(Q)
  BY SeqGrows DEF Holds
<1>2. Row(S, P) \subseteq Row(T, Q)
  BY SeqGrows DEF Row
<1> QED
  BY <1>1, <1>2 DEF Holds

LEMMA IdleRow == ASSUME NEW T, NEW Q PROVE Idle \in Row(T, Q)
<1>1. <<>> \in Seq(T) /\ <<>> \in Seq(Q)
  BY EmptySeq
<1> QED
  BY <1>1 DEF Idle, Row

LEMMA HeadHolds ==
  ASSUME NEW T, NEW Q, Holds(unadvanced, calls, T, Q), NEW k \in Call
  PROVE  /\ calls[k].todo # <<>> => Next1(k) \in T /\ Tail(calls[k].todo) \in Seq(T)
         /\ calls[k].queue # <<>> => Head(calls[k].queue) \in Q /\ Tail(calls[k].queue) \in Seq(Q)
<1>1. calls[k].todo \in Seq(T) /\ calls[k].queue \in Seq(Q)
  BY DEF Holds, Row
<1> QED
  BY <1>1, HeadTailProperties DEF Next1

\* A request goes on with its operations, or with its next job; ends; starts.
LEMMA ReplaceHolds ==
  ASSUME NEW T, NEW Q, Holds(unadvanced, calls, T, Q), NEW k \in Call, NEW r \in Seq(T), calls[k].todo # <<>>,
         Replace(k, r), unadvanced' \in Seq(Q)
  PROVE  Holds(unadvanced', calls', T, Q)
<1>1. calls[k] \in Row(T, Q) /\ calls \in [Call -> Row(T, Q)]
  BY DEF Holds
<1>2. r \o Tail(calls[k].todo) \in Seq(T)
  BY HeadHolds, ConcatProperties
<1> DEFINE row == [calls[k] EXCEPT !.todo = r \o Tail(@)]
<1>3. row \in Row(T, Q)
  BY <1>1, <1>2 DEF Row
<1>4. calls' = [calls EXCEPT ![k] = row]
  BY DEF Replace
<1> HIDE DEF row
<1> QED
  BY <1>1, <1>3, <1>4 DEF Holds

LEMMA SkipHolds ==
  ASSUME NEW T, NEW Q, Holds(unadvanced, calls, T, Q), NEW k \in Call, calls[k].todo # <<>>, Skip(k),
         unadvanced' \in Seq(Q)
  PROVE  Holds(unadvanced', calls', T, Q)
BY ReplaceHolds, EmptySeq DEF Skip

LEMMA TurnHolds ==
  ASSUME NEW T, NEW Q, Holds(unadvanced, calls, T, Q), NEW k \in Call, NEW h \in Seq(T), Turn(k, h)
  PROVE  Holds(unadvanced', calls', T, Q)
<1>1. calls[k] \in Row(T, Q) /\ calls \in [Call -> Row(T, Q)]
  BY DEF Holds
<1>2. Tail(calls[k].queue) \in Seq(Q)
  BY HeadHolds DEF Turn
<1> DEFINE row == [calls[k] EXCEPT !.todo = h, !.queue = Tail(@)]
<1>3. row \in Row(T, Q)
  BY <1>1, <1>2 DEF Row
<1>4. calls' = [calls EXCEPT ![k] = row]
  BY <1>1 DEF Turn
<1> HIDE DEF row
<1> QED
  BY <1>1, <1>3, <1>4 DEF Holds, Turn

LEMMA NewHolds ==
  ASSUME NEW T, NEW Q, Holds(unadvanced, calls, T, Q), NEW k \in Call, NEW row \in Row(T, Q),
         calls' = [calls EXCEPT ![k] = row], unadvanced' \in Seq(Q)
  PROVE  Holds(unadvanced', calls', T, Q)
BY DEF Holds

LEMMA ResetHolds ==
  ASSUME NEW T, NEW Q, Holds(unadvanced, calls, T, Q), NEW k \in Call,
         calls' = [calls EXCEPT ![k] = Idle] \/ calls' = calls, unadvanced' \in Seq(Q)
  PROVE  Holds(unadvanced', calls', T, Q)
BY NewHolds, IdleRow DEF Holds

LEMMA MarkHolds ==
  ASSUME NEW T, NEW Q, Holds(unadvanced, calls, T, Q), NEW k \in Call, MarkAdvanced(k)
  PROVE  Holds(unadvanced', calls', T, Q)
<1>1. unadvanced \in Seq(Q)
  BY DEF Holds
<1>2. ASSUME NEW i \in DOMAIN unadvanced,
             unadvanced' = SubSeq(unadvanced, 1, i - 1)
                              \o SubSeq(unadvanced, i + 1, Len(unadvanced))
      PROVE  unadvanced' \in Seq(Q)
  <2>1. i \in 1 .. Len(unadvanced) /\ Len(unadvanced) \in Nat
        /\ \A n \in 1 .. Len(unadvanced) : unadvanced[n] \in Q
    BY <1>1, <1>2
  <2>2. SubSeq(unadvanced, 1, i - 1) \in Seq(Q)
    BY <2>1, SubSeqProperties
  <2>3. SubSeq(unadvanced, i + 1, Len(unadvanced)) \in Seq(Q)
    BY <2>1, SubSeqProperties
  <2> QED
    BY <1>2, <2>2, <2>3, ConcatProperties
<1>3. unadvanced' \in Seq(Q)
  BY <1>1, <1>2 DEF MarkAdvanced
<1> QED
  BY <1>3, SkipHolds DEF MarkAdvanced, Now

Phases == {"absent", "queued", "running", "succeeded", "over"}

\* What every workflow has in common: requests poll, die, claim and return.
LEMMA PlainRequests ==
  ASSUME NEW T, NEW Q, Holds(unadvanced, calls, T, Q), NEW k \in Call,
         Reconcile(k) \/ Crash(k) \/ Return(k) \/ MarkAdvanced(k)
         \/ \E j \in MyJobs : ClaimJob(k, j)
  PROVE  Holds(unadvanced', calls', T, Q)
<1>1. unadvanced \in Seq(Q)
  BY DEF Holds
<1>2. CASE Reconcile(k)
  <2> DEFINE row == [kind |-> "claim", todo |-> <<>>, queue |-> unadvanced]
  <2>1. row \in Row(T, Q)
    BY <1>1, EmptySeq DEF Row
  <2>2. calls' = [calls EXCEPT ![k] = row] /\ unadvanced' = unadvanced
    BY <1>2 DEF Reconcile
  <2> HIDE DEF row
  <2> QED
    BY <1>1, <2>1, <2>2, NewHolds
<1>3. CASE Crash(k) \/ Return(k) \/ \E j \in MyJobs : ClaimJob(k, j)
  <2>1. calls' = [calls EXCEPT ![k] = Idle] /\ unadvanced' = unadvanced
    BY <1>3 DEF Crash, Return, ClaimJob
  <2> QED
    BY <1>1, <2>1, ResetHolds
<1> QED
  BY <1>2, <1>3, MarkHolds

\* A job that is completed joins those that are to be advanced.
LEMMA CompleteHolds ==
  ASSUME NEW T, NEW Q, Holds(unadvanced, calls, T, Q), NEW k \in Call, NEW j \in Q,
         NEW ok \in BOOLEAN, CompleteJob(k, j, ok)
  PROVE  Holds(unadvanced', calls', T, Q)
<1>1. unadvanced' \in Seq(Q)
  BY AppendProperties DEF Holds, CompleteJob
<1> DEFINE row == [kind |-> "complete", todo |-> <<>>, queue |-> <<j>>]
<1>2. <<j>> \in Seq(Q) /\ <<>> \in Seq(T)
  BY EmptySeq
<1>3. row \in Row(T, Q)
  BY <1>2 DEF Row
<1>4. calls' = [calls EXCEPT ![k] = row]
  BY DEF CompleteJob
<1> HIDE DEF row
<1> QED
  BY <1>1, <1>3, <1>4, NewHolds

\* A task does not change its workflow.
LEMMA WorkflowStays == [RouterNext]_vars => workflow' = workflow
BY DEF RouterNext, Serve, Poll, Die, Claim, Complete, Fail, Operator, OnlyBase, ButSmoke, ButManual,
       ButStage0, ButEndpoint, vars

-----------------------------------------------------------------------------
(* The order of what requests have yet to do.                              *)

\* Every operation of B stands behind one of A.
Before(t, A, B) == \A i \in DOMAIN t : t[i] \in B => \E h \in 1 .. i - 1 : t[h] \in A

AllBefore(c, A, B) == \A k \in Call : Before(c[k].todo, A, B)

LEMMA HeadBefore ==
  ASSUME NEW T, NEW t \in Seq(T), t # <<>>, NEW A, NEW B, Before(t, A, B)
  PROVE  Head(t) \notin B
<1>1. 1 \in DOMAIN t /\ Head(t) = t[1]
  BY HeadTailProperties
<1> QED
  BY <1>1 DEF Before

\* The first operation is replaced by what it stands for.
LEMMA ReplaceBefore ==
  ASSUME NEW T, NEW t \in Seq(T), t # <<>>, NEW r \in Seq(T), NEW A, NEW B,
         Before(t, A, B), Before(r, A, B),
         Head(t) \in A => \E i \in DOMAIN r : r[i] \in A
  PROVE  Before(r \o Tail(t), A, B)
<1> DEFINE s == r \o Tail(t)
<1>1. /\ Tail(t) \in Seq(T) /\ Len(Tail(t)) = Len(t) - 1 /\ Head(t) = t[1]
      /\ \A i \in 1 .. Len(Tail(t)) : Tail(t)[i] = t[i + 1]
      /\ Len(t) \in Nat \ {0} /\ Len(r) \in Nat
  BY HeadTailProperties, LenProperties
<1>2. /\ Len(s) = Len(r) + Len(t) - 1 /\ DOMAIN s = 1 .. Len(s)
      /\ \A i \in 1 .. Len(s) : s[i] = IF i <= Len(r) THEN r[i] ELSE t[i - Len(r) + 1]
  BY <1>1, ConcatProperties
<1> HIDE DEF s
<1>3. DOMAIN r = 1 .. Len(r) /\ DOMAIN t = 1 .. Len(t)
  BY LenProperties
<1> SUFFICES ASSUME NEW i \in DOMAIN s, s[i] \in B PROVE \E h \in 1 .. i - 1 : s[h] \in A
  BY DEF Before, s
<1>6. i \in Nat \ {0} /\ i <= Len(r) + Len(t) - 1 /\ Len(s) = Len(r) + Len(t) - 1
  BY <1>1, <1>2
<1>4. CASE i <= Len(r)
  <2>1. PICK h \in 1 .. i - 1 : r[h] \in A
    BY <1>2, <1>3, <1>4 DEF Before
  <2> QED
    BY <1>1, <1>2, <1>4, <2>1
<1>5. CASE i > Len(r)
  <2>1. i - Len(r) + 1 \in DOMAIN t /\ s[i] = t[i - Len(r) + 1]
    BY <1>1, <1>2, <1>3, <1>5
  <2>2. PICK h \in 1 .. i - Len(r) : t[h] \in A
    BY <1>1, <1>2, <2>1 DEF Before
  <2>3. CASE h = 1
    <3>1. PICK n \in 1 .. Len(r) : r[n] \in A
      BY <1>1, <1>3, <2>2, <2>3
    <3> QED
      BY <1>1, <1>2, <1>5, <3>1
  <2>4. CASE h # 1
    <3> DEFINE n == h - 1 + Len(r)
    <3>0. h \in Nat /\ h > 1 /\ h <= i - Len(r) /\ Len(r) \in Nat /\ Len(t) \in Nat
      BY <1>1, <1>5, <1>6, <2>2, <2>4
    <3>2. n \in 1 .. i - 1 /\ n \in 1 .. Len(s) /\ ~ (n <= Len(r)) /\ n - Len(r) + 1 = h
      BY <1>6, <3>0
    <3> HIDE DEF n
    <3>3. s[n] = t[h]
      BY <1>2, <3>2
    <3> QED
      BY <2>2, <3>2, <3>3
  <2> QED
    BY <2>3, <2>4
<1> QED
  BY <1>1, <1>2, <1>4, <1>5

LEMMA EmptyBefore == ASSUME NEW A, NEW B PROVE Before(<<>>, A, B)
BY DEF Before

LEMMA ReplaceOrder ==
  ASSUME NEW T, NEW Q, Holds(unadvanced, calls, T, Q), NEW k \in Call, NEW r \in Seq(T),
         calls[k].todo # <<>>, Replace(k, r), NEW A, NEW B,
         AllBefore(calls, A, B), Before(r, A, B), Next1(k) \in A => \E i \in DOMAIN r : r[i] \in A
  PROVE  AllBefore(calls', A, B)
<1>1. calls \in [Call -> Row(T, Q)] /\ calls[k].todo \in Seq(T)
  BY DEF Holds, Row
<1>2. Before(r \o Tail(calls[k].todo), A, B)
  BY <1>1, ReplaceBefore DEF AllBefore, Next1
<1>3. /\ calls'[k].todo = r \o Tail(calls[k].todo)
      /\ \A l \in Call : l # k => calls'[l] = calls[l]
  BY <1>1 DEF Replace, Row
<1> QED
  BY <1>2, <1>3 DEF AllBefore

LEMMA SkipOrder ==
  ASSUME NEW T, NEW Q, Holds(unadvanced, calls, T, Q), NEW k \in Call,
         calls[k].todo # <<>>, Skip(k), NEW A, NEW B, AllBefore(calls, A, B), Next1(k) \notin A
  PROVE  AllBefore(calls', A, B)
BY ReplaceOrder, EmptyBefore, EmptySeq DEF Skip

\* A request starts, turns to another job, or ends.
LEMMA NewOrder ==
  ASSUME NEW T, NEW Q, Holds(unadvanced, calls, T, Q), NEW k \in Call, NEW row,
         calls' = [calls EXCEPT ![k] = row], NEW A, NEW B, AllBefore(calls, A, B),
         Before(row.todo, A, B)
  PROVE  AllBefore(calls', A, B)
BY DEF Holds, AllBefore

LEMMA TurnOrder ==
  ASSUME NEW T, NEW Q, Holds(unadvanced, calls, T, Q), NEW k \in Call, NEW h, Turn(k, h),
         NEW A, NEW B, AllBefore(calls, A, B), Before(h, A, B)
  PROVE  AllBefore(calls', A, B)
<1> DEFINE row == [calls[k] EXCEPT !.todo = h, !.queue = Tail(@)]
<1>1. calls[k] \in Row(T, Q)
  BY DEF Holds
<1>2. row.todo = h
  BY <1>1 DEF Row
<1>3. calls' = [calls EXCEPT ![k] = row]
  BY <1>1 DEF Turn
<1> HIDE DEF row
<1> QED
  BY <1>2, <1>3, NewOrder

LEMMA PlainOrder ==
  ASSUME NEW T, NEW Q, Holds(unadvanced, calls, T, Q), NEW k \in Call,
         NEW A, NEW B, AllBefore(calls, A, B),
         \/ Reconcile(k) \/ Crash(k) \/ Return(k) \/ Raise(k)
         \/ \E j \in MyJobs : ClaimJob(k, j) \/ \E ok \in BOOLEAN : CompleteJob(k, j, ok)
         \/ MarkAdvanced(k) /\ Next1(k) \notin A
  PROVE  AllBefore(calls', A, B)
<1>1. CASE \/ Reconcile(k) \/ Crash(k) \/ Return(k) \/ Raise(k)
           \/ \E j \in MyJobs : ClaimJob(k, j) \/ \E ok \in BOOLEAN : CompleteJob(k, j, ok)
  <2>1. PICK row : calls' = [calls EXCEPT ![k] = row] /\ row.todo = <<>>
    BY <1>1 DEF Reconcile, Crash, Return, Raise, ClaimJob, CompleteJob, Idle
  <2> QED
    BY <2>1, NewOrder, EmptyBefore
<1>2. CASE MarkAdvanced(k) /\ Next1(k) \notin A
  BY <1>2, SkipOrder DEF MarkAdvanced, Now
<1> QED
  BY <1>1, <1>2

-----------------------------------------------------------------------------
(* Stage 0.                                                                *)

StageOps(Q) == {Do("probe", j) : j \in Q} \cup {Mark(j) : j \in Q} \cup {Do("finalize", Task)}

StageInv ==
  /\ workflow = "stage0" /\ Shape /\ Stage0TypeOK
  /\ phase \in [ProbeJobs -> Phases]
  /\ Holds(unadvanced, calls, StageOps(Succ), Succ)
  /\ stage0.recorded \subseteq Succ
  /\ stage0.run \in {"ready", "finalized"} => stage0.recorded = ProbeJobs
  /\ state[Task] # "stage0_pending" <=> stage0.authority # "none"
  /\ stage0.authority = "formal" <=> stage0.run = "finalized"

LEMMA StageJobs == workflow = "stage0" => MyJobs = ProbeJobs
BY DEF MyJobs, JobsOf

LEMMA StageGrows ==
  ASSUME NEW P, NEW Q, P \subseteq Q, NEW u, NEW c, Holds(u, c, StageOps(P), P)
  PROVE  Holds(u, c, StageOps(Q), Q)
<1>1. StageOps(P) \subseteq StageOps(Q)
  BY DEF StageOps
<1> QED
  BY <1>1, HoldsMore

\* Steps that decide nothing: jobs and requests go on.
LEMMA StageQuiet ==
  ASSUME StageInv, workflow' = workflow, UNCHANGED <<state, stage0>>,
         phase' \in [ProbeJobs -> Phases], Succ \subseteq Succ',
         Holds(unadvanced', calls', StageOps(Succ'), Succ')
  PROVE  StageInv'
BY DEF StageInv, Shape, Stage0TypeOK, Members

LEMMA StageServe ==
  ASSUME StageInv, NEW k \in Call, Serve(k)
  PROVE  StageInv'
<1>1. /\ workflow = "stage0" /\ Holds(unadvanced, calls, StageOps(Succ), Succ)
      /\ MyJobs = ProbeJobs /\ Shape /\ Stage0TypeOK /\ unadvanced \in Seq(Succ)
  BY StageJobs DEF StageInv, Holds
<1>2. calls[k].todo # <<>> => Next1(k) \in StageOps(Succ)
  BY <1>1, HeadHolds
<1>3. calls[k].todo # <<>> =>
        \/ Next1(k).do = "probe" /\ Next1(k).who \in Succ
        \/ Next1(k).do = "mark"
        \/ Next1(k).do = "finalize"
  BY <1>2 DEF StageOps, Do, Mark, Op
<1>4. ASSUME workflow' = workflow, UNCHANGED <<phase, state, stage0>>,
             Holds(unadvanced', calls', StageOps(Succ), Succ)
      PROVE  StageInv'
  <2>1. Succ' = Succ
    BY <1>4 DEF Succ, MyJobs
  <2> QED
    BY <1>4, <2>1, StageQuiet DEF StageInv
<1>5. ASSUME calls[k].queue # <<>>, Turn(k, Handler(Head(calls[k].queue))), UNCHANGED OnlyBase
      PROVE  StageInv'
  <2> DEFINE j == Head(calls[k].queue)
  <2>1. j \in Succ
    BY <1>1, <1>5, HeadHolds
  <2>2. Do("probe", j) \in StageOps(Succ) /\ Mark(j) \in StageOps(Succ)
    BY <2>1 DEF StageOps
  <2>3. Handler(j) = <<Do("probe", j), Mark(j)>>
    BY <1>1 DEF Handler, ProbeHandler
  <2>4. Handler(j) \in Seq(StageOps(Succ))
    BY <2>2, <2>3, PairSeq
  <2>5. Holds(unadvanced', calls', StageOps(Succ), Succ)
    BY <1>1, <1>5, <2>4, TurnHolds
  <2> QED
    BY <1>4, <1>5, <2>5 DEF Turn, OnlyBase
<1>6. ASSUME MarkAdvanced(k) \/ Return(k), UNCHANGED OnlyBase PROVE StageInv'
  <2>1. Holds(unadvanced', calls', StageOps(Succ), Succ)
    BY <1>1, <1>6, PlainRequests
  <2> QED
    BY <1>4, <1>6, <2>1 DEF MarkAdvanced, Return, OnlyBase
<1>7. ASSUME RecordProbe(k), UNCHANGED ButStage0 PROVE StageInv'
  <2>1. /\ calls[k].todo # <<>> /\ Next1(k).who \in Succ
        /\ UNCHANGED <<phase, unadvanced, state, workflow>>
    BY <1>3, <1>7 DEF RecordProbe, Now, ButStage0
  <2>2. Holds(unadvanced', calls', StageOps(Succ), Succ)
    BY <1>1, <1>7, <2>1, SkipHolds, ResetHolds DEF RecordProbe, Raise
  <2>3. Succ' = Succ
    BY <2>1 DEF Succ, MyJobs
  <2>4. CASE stage0' = stage0
    BY <1>4, <2>1, <2>2, <2>4
  <2>5. CASE stage0.run \notin {"finalized", "failed"}
    <3> DEFINE recorded == stage0.recorded \cup {Next1(k).who}
    <3>1. stage0' = [stage0 EXCEPT !.recorded = recorded,
                                   !.run = IF recorded = ProbeJobs THEN "ready" ELSE @]
      BY <1>7, <2>5 DEF RecordProbe
    <3>2. recorded \subseteq Succ /\ recorded \subseteq ProbeJobs
      BY <1>1, <2>1 DEF StageInv, Succ
    <3>3. stage0.recorded = ProbeJobs => recorded = ProbeJobs
      BY <3>2
    <3> HIDE DEF recorded
    <3>4. /\ stage0'.recorded = recorded /\ stage0'.authority = stage0.authority
          /\ stage0'.run = IF recorded = ProbeJobs THEN "ready" ELSE stage0.run
          /\ Stage0TypeOK' /\ Shape'
      BY <1>1, <2>1, <3>1, <3>2 DEF Stage0TypeOK, Shape, Members
    <3> QED
      BY <2>1, <2>2, <2>3, <2>5, <3>2, <3>3, <3>4 DEF StageInv
  <2> QED
    BY <1>7, <2>4, <2>5 DEF RecordProbe
<1>8. ASSUME FinalizeStage0(k), UNCHANGED ButStage0 PROVE StageInv'
  <2>1. calls[k].todo # <<>> /\ UNCHANGED <<phase, unadvanced, workflow>>
    BY <1>8 DEF FinalizeStage0, Now, ButStage0
  <2>2. Holds(unadvanced', calls', StageOps(Succ), Succ)
    BY <1>1, <1>8, <2>1, SkipHolds, ResetHolds DEF FinalizeStage0, Raise
  <2>3. Succ' = Succ
    BY <2>1 DEF Succ, MyJobs
  <2>4. CASE UNCHANGED <<state, stage0>>
    BY <1>4, <2>1, <2>2, <2>4
  <2>5. CASE /\ ReadyToFinalize
             /\ \E to \in Stage0Verdicts : state' = [state EXCEPT ![Task] = to]
             /\ stage0' = [stage0 EXCEPT !.run = "finalized", !.authority = "formal"]
    <3>1. /\ stage0'.recorded = stage0.recorded /\ stage0'.authority = "formal"
          /\ stage0'.run = "finalized" /\ Stage0TypeOK'
      BY <1>1, <2>5 DEF Stage0TypeOK
    <3>2. state'[Task] # "stage0_pending" /\ Shape'
      BY <1>1, <2>1, <2>5 DEF Shape, Stage0Verdicts, Members
    <3>3. stage0.recorded = ProbeJobs /\ stage0.recorded \subseteq Succ
      BY <2>5 DEF ReadyToFinalize, StageInv
    <3> QED
      BY <1>1, <2>1, <2>2, <2>3, <3>1, <3>2, <3>3 DEF StageInv
  <2> QED
    BY <1>8, <2>4, <2>5 DEF FinalizeStage0
<1> QED
  BY <1>3, <1>5, <1>6, <1>7, <1>8
     DEF Serve, Now, EnsureState, Move, EnqueueOne, ReadAgain, CreateCandidates,
         MaybeFinishRound, CreateNoopCandidate, ExecuteFramework, RecordEvidence, JudgeSmoke,
         SetVerdict, RecordEndpoint, RecordAdjudication

LEMMA StageStep == StageInv /\ [RouterNext]_vars => StageInv'
<1> SUFFICES ASSUME StageInv, [RouterNext]_vars PROVE StageInv'
  OBVIOUS
<1>1. /\ workflow = "stage0" /\ Holds(unadvanced, calls, StageOps(Succ), Succ)
      /\ MyJobs = ProbeJobs /\ Shape /\ Stage0TypeOK /\ unadvanced \in Seq(Succ)
      /\ phase \in [ProbeJobs -> Phases]
  BY StageJobs DEF StageInv, Holds
<1>2. ASSUME workflow' = workflow, UNCHANGED <<state, stage0>>,
             phase' \in [ProbeJobs -> Phases], Succ \subseteq Succ',
             Holds(unadvanced', calls', StageOps(Succ), Succ)
      PROVE  StageInv'
  <2>1. Holds(unadvanced', calls', StageOps(Succ'), Succ')
    BY <1>2, StageGrows
  <2> QED
    BY <1>2, <2>1, StageQuiet
\* A job that is not through yet changes its state.
<1>3. ASSUME NEW j \in ProbeJobs, NEW p \in Phases, phase[j] # "succeeded",
             phase' = [phase EXCEPT ![j] = p], workflow' = workflow
      PROVE  /\ phase' \in [ProbeJobs -> Phases] /\ Succ \subseteq Succ'
             /\ p = "succeeded" => j \in Succ'
  BY <1>1, <1>3 DEF Succ, MyJobs
<1>4. ASSUME NEW k \in Call, Poll(k) \/ Die(k) PROVE StageInv'
  <2>1. Holds(unadvanced', calls', StageOps(Succ), Succ)
    BY <1>1, <1>4, PlainRequests DEF Poll, Die
  <2>2. UNCHANGED <<phase, state, stage0, workflow>>
    BY <1>4 DEF Poll, Die, Reconcile, Crash, OnlyBase
  <2>3. Succ' = Succ
    BY <2>2 DEF Succ, MyJobs
  <2> QED
    BY <1>1, <1>2, <2>1, <2>2, <2>3
<1>5. ASSUME NEW k \in Call, NEW j \in MyJobs, Claim(k, j) PROVE StageInv'
  <2>1. ClaimJob(k, j) /\ UNCHANGED <<state, stage0, workflow>>
    BY <1>5 DEF Claim, ClaimJob, ButEndpoint
  <2>2. Holds(unadvanced', calls', StageOps(Succ), Succ)
    BY <1>1, <2>1, PlainRequests
  <2>3. phase[j] # "succeeded" /\ phase' = [phase EXCEPT ![j] = "running"] /\ "running" \in Phases
    BY <2>1 DEF ClaimJob, Phases
  <2> QED
    BY <1>1, <1>2, <1>3, <2>1, <2>2, <2>3
<1>6. ASSUME NEW k \in Call, NEW j \in MyJobs, Complete(k, j) PROVE StageInv'
  <2>1. PICK ok \in BOOLEAN : CompleteJob(k, j, ok)
    BY <1>6 DEF Complete
  <2>2. UNCHANGED <<state, stage0, workflow>>
    BY <1>6, <2>1 DEF Complete, CompleteJob, OnlyBase
  <2>3. phase[j] # "succeeded" /\ phase' = [phase EXCEPT ![j] = "succeeded"] /\ "succeeded" \in Phases
    BY <2>1 DEF CompleteJob, Phases
  <2>4. phase' \in [ProbeJobs -> Phases] /\ Succ \subseteq Succ' /\ j \in Succ'
    BY <1>1, <1>3, <2>2, <2>3
  <2>5. Holds(unadvanced, calls, StageOps(Succ'), Succ')
    BY <1>1, <2>4, StageGrows
  <2>6. Holds(unadvanced', calls', StageOps(Succ'), Succ')
    BY <2>1, <2>4, <2>5, CompleteHolds
  <2> QED
    BY <2>2, <2>4, <2>6, StageQuiet
<1>7. ASSUME NEW j \in MyJobs, Fail(j) PROVE StageInv'
  <2>1. FailProbeJob(j) /\ UNCHANGED ButStage0
    BY <1>1, <1>7 DEF Fail
  <2>2. /\ phase[j] # "succeeded" /\ phase' = [phase EXCEPT ![j] = "over"] /\ "over" \in Phases
        /\ UNCHANGED <<unadvanced, calls, state, workflow>>
    BY <2>1 DEF FailProbeJob, Phases, ButStage0
  <2>3. phase' \in [ProbeJobs -> Phases] /\ Succ \subseteq Succ'
    BY <1>1, <1>3, <2>2
  <2>4. Holds(unadvanced', calls', StageOps(Succ'), Succ')
    BY <1>1, <2>2, <2>3, StageGrows
  <2>5. CASE stage0' = stage0
    BY <2>2, <2>3, <2>4, <2>5, StageQuiet
  <2>6. CASE stage0' = [stage0 EXCEPT !.run = "failed"] /\ stage0.run \in {"collecting", "ready"}
    <3>1. /\ stage0'.recorded = stage0.recorded /\ stage0'.authority = stage0.authority
          /\ stage0'.run = "failed" /\ Stage0TypeOK' /\ Shape'
      BY <1>1, <2>2, <2>6 DEF Stage0TypeOK, Shape, Members
    <3> QED
      BY <1>1, <2>2, <2>3, <2>4, <2>6, <3>1 DEF StageInv
  <2>7. stage0' = [stage0 EXCEPT !.run = IF @ \in {"collecting", "ready"} THEN "failed" ELSE @]
    BY <2>1 DEF FailProbeJob
  <2>8. stage0.run \in {"collecting", "ready"} \/ stage0' = stage0
    BY <1>1, <2>7 DEF Stage0TypeOK
  <2> QED
    BY <2>5, <2>6, <2>7, <2>8
<1>8. ASSUME Operator PROVE StageInv'
  <2>1. CASE SaveStage0 /\ UNCHANGED ButStage0
    <3>1. UNCHANGED <<phase, unadvanced, calls, workflow>> /\ state[Task] = "stage0_pending"
      BY <2>1 DEF SaveStage0, ButStage0
    <3>2. /\ stage0'.recorded = stage0.recorded /\ stage0'.authority = "synthetic"
          /\ stage0'.run = stage0.run /\ Stage0TypeOK'
      BY <1>1, <2>1 DEF SaveStage0, Stage0TypeOK
    <3>3. state'[Task] # "stage0_pending" /\ Shape'
      BY <1>1, <2>1, <3>1 DEF SaveStage0, Shape, Stage0Verdicts, Members
    <3>4. Succ' = Succ /\ stage0.run # "finalized"
      BY <3>1 DEF Succ, MyJobs, StageInv
    <3> QED
      BY <1>1, <3>1, <3>2, <3>3, <3>4 DEF StageInv
  <2>2. ASSUME NEW k \in Call, VerifyStage0(k), UNCHANGED ButStage0 PROVE StageInv'
    <3> DEFINE row == [kind |-> "finalize", queue |-> <<>>, todo |-> <<Do("finalize", Task)>>]
    <3>1. Do("finalize", Task) \in StageOps(Succ)
      BY DEF StageOps
    <3>2. <<Do("finalize", Task)>> \in Seq(StageOps(Succ)) /\ <<>> \in Seq(Succ)
      BY <3>1, EmptySeq
    <3>3. row \in Row(StageOps(Succ), Succ)
      BY <3>2 DEF Row
    <3>4. calls' = [calls EXCEPT ![k] = row] /\ UNCHANGED <<unadvanced, phase, state, stage0, workflow>>
      BY <2>2 DEF VerifyStage0, ButStage0
    <3> HIDE DEF row
    <3>5. Holds(unadvanced', calls', StageOps(Succ), Succ)
      BY <1>1, <3>3, <3>4, NewHolds
    <3>6. Succ' = Succ
      BY <3>4 DEF Succ, MyJobs
    <3> QED
      BY <1>1, <1>2, <3>4, <3>5, <3>6
  <2>3. ASSUME NEW j \in MyJobs, CancelJob(j), UNCHANGED ButEndpoint PROVE StageInv'
    <3>1. /\ phase[j] # "succeeded" /\ phase' = [phase EXCEPT ![j] = "over"] /\ "over" \in Phases
          /\ UNCHANGED <<unadvanced, calls, state, stage0, workflow>>
      BY <2>3 DEF CancelJob, Phases, ButEndpoint
    <3> QED
      BY <1>1, <1>2, <1>3, <3>1
  <2> QED
    BY <1>1, <1>8, <2>1, <2>2, <2>3 DEF Operator, CancelEndpointJob
<1>9. CASE UNCHANGED vars
  <2>1. UNCHANGED <<phase, unadvanced, calls, state, stage0, workflow>>
    BY <1>9 DEF vars, base
  <2>2. Succ' = Succ
    BY <2>1 DEF Succ, MyJobs
  <2> QED
    BY <1>1, <1>2, <2>1, <2>2
<1> QED
  BY <1>4, <1>5, <1>6, <1>7, <1>8, <1>9, StageServe DEF RouterNext

LEMMA InitHolds ==
  ASSUME RouterInit, NEW T, NEW Q
  PROVE  Holds(unadvanced, calls, T, Q)
BY IdleRow, EmptySeq DEF RouterInit, Holds

LEMMA StageInit == RouterInit /\ workflow = "stage0" => StageInv
<1> SUFFICES ASSUME RouterInit, workflow = "stage0" PROVE StageInv
  OBVIOUS
<1>1. MyJobs = ProbeJobs /\ Shape /\ Holds(unadvanced, calls, StageOps(Succ), Succ)
  BY StageJobs, InitShape, InitHolds
<1>2. Stage0TypeOK /\ stage0.recorded = {} /\ stage0.run = "collecting" /\ stage0.authority = "none"
  BY DEF RouterInit, Stage0Start, Stage0TypeOK
<1>3. phase \in [ProbeJobs -> Phases]
  BY <1>1 DEF RouterInit, Phases
<1>4. state[Task] = "stage0_pending"
  BY DEF RouterInit
<1> QED
  BY <1>1, <1>2, <1>3, <1>4 DEF StageInv

\* A Stage 0 task is decided by one authority (finalize_stage0_run and
\* save_stage0, record_stage0_probe), for any number of probes and requests.
THEOREM StageDecidedByOne == RouterSpec => []DecidedByOne
<1> DEFINE Inv == workflow = "stage0" => StageInv
<1>1. RouterInit => Inv
  BY StageInit
<1>2. Inv /\ [RouterNext]_vars => Inv'
  <2> SUFFICES ASSUME Inv, [RouterNext]_vars PROVE Inv'
    OBVIOUS
  <2>1. workflow' = workflow
    BY WorkflowStays
  <2> QED
    BY <2>1, StageStep
<1>3. Inv => DecidedByOne
  BY StageJobs DEF StageInv, DecidedByOne, Succ
<1> HIDE DEF Inv
<1> QED
  BY <1>1, <1>2, <1>3, PTL DEF RouterSpec

-----------------------------------------------------------------------------
(* Endpoint validation.                                                    *)

EndpointOps(Q) == {Do("endpoint", j) : j \in Q \cap MeasureJobs}
                    \cup {Do("adjudication", j) : j \in Q \cap {Adjudicate}}
                    \cup {Mark(j) : j \in Q}

\* What the adjudication's job has come to says what the campaign may be.
Told(p, ok, c) ==
  /\ p \in Phases
  /\ p = "absent"    => c = "absent"
  /\ p = "queued"    => c = "awaiting_adjudication"
  /\ p = "running"   => c = "adjudicating"
  /\ p = "succeeded" => \/ c \in {"adjudicating", "invalid"}
                        \/ c \in {"awaiting_signoff", "completed", "rejected"} /\ ok
  /\ p = "over"      => c = "adjudication_failed"

EndpointInv ==
  /\ workflow = "endpoint_validation" /\ EndpointTypeOK
  /\ phase \in [EndpointJobs -> Phases] /\ passed \in [EndpointJobs -> BOOLEAN]
  /\ Holds(unadvanced, calls, EndpointOps(Succ), Succ)
  /\ campaign # "absent" => \A i \in 1 .. EndpointRuns : Passed(i)
  /\ Told(phase[Adjudicate], passed[Adjudicate], campaign)
  /\ \A i \in 1 .. EndpointRuns :
        phase[Measure(i)] # "absent" => endpoint[i].run # "absent"

\* A run that has passed stays so; none is taken back, and none has a job
\* before there is a run.
RunsGoOn == \A i \in 1 .. EndpointRuns :
              /\ Passed(i) => endpoint'[i] = endpoint[i]
              /\ endpoint[i].run # "absent" => endpoint'[i].run # "absent"
JobsGoOn == \A i \in 1 .. EndpointRuns :
              phase[Measure(i)] = "absent" =>
                  phase'[Measure(i)] = "absent" \/ endpoint'[i].run # "absent"

LEMMA EndpointIs == workflow = "endpoint_validation" => MyJobs = EndpointJobs
BY DEF MyJobs, JobsOf

LEMMA EndpointGrows ==
  ASSUME NEW P, NEW Q, P \subseteq Q, NEW u, NEW c, Holds(u, c, EndpointOps(P), P)
  PROVE  Holds(u, c, EndpointOps(Q), Q)
<1>1. EndpointOps(P) \subseteq EndpointOps(Q)
  BY DEF EndpointOps
<1> QED
  BY <1>1, HoldsMore

LEMMA MeasureIsNot ==
  /\ \A i \in 1 .. EndpointRuns : Measure(i) # Adjudicate /\ Measure(i)[2] = i
  /\ \A j \in MeasureJobs : j[2] \in 1 .. EndpointRuns /\ j # Adjudicate /\ j \in EndpointJobs
BY DEF Measure, Adjudicate, MeasureJobs, EndpointJobs

\* Jobs and requests go on, runs that have passed stay so, and the campaign
\* keeps step with its job.
LEMMA EndpointKept ==
  ASSUME EndpointInv, workflow' = workflow, EndpointTypeOK',
         phase' \in [EndpointJobs -> Phases], passed' \in [EndpointJobs -> BOOLEAN],
         Succ \subseteq Succ', Holds(unadvanced', calls', EndpointOps(Succ'), Succ'),
         RunsGoOn, JobsGoOn, campaign' # "absent" => campaign # "absent",
         Told(phase'[Adjudicate], passed'[Adjudicate], campaign')
  PROVE  EndpointInv'
<1>1. campaign' # "absent" => \A i \in 1 .. EndpointRuns : Passed(i)'
  BY DEF EndpointInv, Passed, RunsGoOn
<1>2. \A i \in 1 .. EndpointRuns :
        phase'[Measure(i)] # "absent" => endpoint'[i].run # "absent"
  BY DEF EndpointInv, RunsGoOn, JobsGoOn
<1> QED
  BY <1>1, <1>2 DEF EndpointInv

\* The row of one run is replaced, and a run that has passed is left alone.
LEMMA RunReplaced ==
  ASSUME EndpointTypeOK, NEW i \in 1 .. EndpointRuns, NEW row,
         row \in [run : {"absent", "queued", "running", "provisional_passed", "failed"},
                  task : {"absent", "endpoint_probing", "endpoint_provisional_passed", "rejected"}],
         endpoint' = [endpoint EXCEPT ![i] = row], campaign' = campaign,
         Passed(i) => row = endpoint[i], endpoint[i].run # "absent" => row.run # "absent"
  PROVE  EndpointTypeOK' /\ RunsGoOn
<1>1. EndpointTypeOK'
  BY DEF EndpointTypeOK
<1> QED
  BY <1>1 DEF EndpointTypeOK, RunsGoOn

LEMMA EndpointServe ==
  ASSUME EndpointInv, NEW k \in Call, Serve(k)
  PROVE  EndpointInv'
<1>1. /\ workflow = "endpoint_validation" /\ Holds(unadvanced, calls, EndpointOps(Succ), Succ)
      /\ MyJobs = EndpointJobs /\ EndpointTypeOK /\ unadvanced \in Seq(Succ)
      /\ phase \in [EndpointJobs -> Phases] /\ passed \in [EndpointJobs -> BOOLEAN]
      /\ Told(phase[Adjudicate], passed[Adjudicate], campaign)
  BY EndpointIs DEF EndpointInv, Holds
<1>2. calls[k].todo # <<>> => Next1(k) \in EndpointOps(Succ)
  BY <1>1, HeadHolds
<1>3. calls[k].todo # <<>> =>
        \/ Next1(k).do = "endpoint" /\ Next1(k).who \in MeasureJobs
        \/ Next1(k).do = "adjudication" /\ Adjudicate \in Succ
        \/ Next1(k).do = "mark"
  BY <1>2 DEF EndpointOps, Do, Mark, Op
<1>4. ASSUME UNCHANGED <<workflow, phase, passed>>, EndpointTypeOK',
             RunsGoOn,
             campaign' # "absent" => campaign # "absent",
             Told(phase[Adjudicate], passed[Adjudicate], campaign'),
             Holds(unadvanced', calls', EndpointOps(Succ), Succ)
      PROVE  EndpointInv'
  <2>1. Succ' = Succ /\ JobsGoOn
    BY <1>4 DEF Succ, MyJobs, JobsGoOn
  <2> QED
    BY <1>1, <1>4, <2>1, EndpointKept
<1>5. ASSUME UNCHANGED <<workflow, phase, passed, endpoint, campaign>>,
             Holds(unadvanced', calls', EndpointOps(Succ), Succ)
      PROVE  EndpointInv'
  <2>1. EndpointTypeOK' /\ RunsGoOn
    BY <1>1, <1>5 DEF EndpointTypeOK, RunsGoOn
  <2> QED
    BY <1>1, <1>4, <1>5, <2>1
<1>6. ASSUME calls[k].queue # <<>>, Turn(k, Handler(Head(calls[k].queue))), UNCHANGED OnlyBase
      PROVE  EndpointInv'
  <2> DEFINE j == Head(calls[k].queue)
             op == Do(IF j = Adjudicate THEN "adjudication" ELSE "endpoint", j)
  <2>1. j \in Succ /\ j \in EndpointJobs
    BY <1>1, <1>6, HeadHolds DEF Succ
  <2>2. op \in EndpointOps(Succ) /\ Mark(j) \in EndpointOps(Succ)
    BY <2>1 DEF EndpointOps, EndpointJobs
  <2>3. Handler(j) = <<op, Mark(j)>>
    BY <1>1 DEF Handler, EndpointHandler
  <2> HIDE DEF op
  <2>4. Handler(j) \in Seq(EndpointOps(Succ))
    BY <2>2, <2>3, PairSeq
  <2>5. Holds(unadvanced', calls', EndpointOps(Succ), Succ)
    BY <1>1, <1>6, <2>4, TurnHolds
  <2> QED
    BY <1>5, <1>6, <2>5 DEF Turn, OnlyBase, endpointVars
<1>7. ASSUME MarkAdvanced(k) \/ Return(k), UNCHANGED OnlyBase PROVE EndpointInv'
  <2>1. Holds(unadvanced', calls', EndpointOps(Succ), Succ)
    BY <1>1, <1>7, PlainRequests
  <2> QED
    BY <1>5, <1>7, <2>1 DEF MarkAdvanced, Return, OnlyBase, endpointVars
<1>8. ASSUME RecordEndpoint(k), UNCHANGED ButEndpoint PROVE EndpointInv'
  <2> DEFINE i == Next1(k).who[2]
             row == [run |-> "provisional_passed", task |-> "endpoint_provisional_passed"]
  <2>0. /\ calls[k].todo # <<>> /\ Next1(k).do = "endpoint"
        /\ UNCHANGED <<workflow, phase, passed, unadvanced, campaign>>
    BY <1>8 DEF RecordEndpoint, Now, ButEndpoint
  <2>9. i \in 1 .. EndpointRuns
    BY <1>3, <2>0, MeasureIsNot
  <2>1. /\ calls[k].todo # <<>> /\ i \in 1 .. EndpointRuns
        /\ UNCHANGED <<workflow, phase, passed, unadvanced, campaign>>
    BY <2>0, <2>9
  <2>2. Holds(unadvanced', calls', EndpointOps(Succ), Succ)
    BY <1>1, <1>8, <2>1, SkipHolds, ResetHolds DEF RecordEndpoint, Raise
  <2>3. CASE endpoint' = endpoint
    BY <1>5, <2>1, <2>2, <2>3
  <2>4. CASE endpoint' = [endpoint EXCEPT ![i] = row]
    <3>1. EndpointTypeOK' /\ RunsGoOn
      BY <1>1, <2>1, <2>4, RunReplaced DEF Passed
    <3> QED
      BY <1>1, <1>4, <2>1, <2>2, <3>1
  <2> QED
    BY <1>8, <2>3, <2>4 DEF RecordEndpoint
<1>9. ASSUME RecordAdjudication(k), UNCHANGED ButEndpoint PROVE EndpointInv'
  <2>1. /\ calls[k].todo # <<>> /\ Adjudicate \in Succ
        /\ UNCHANGED <<workflow, phase, passed, unadvanced, endpoint>>
    BY <1>3, <1>9 DEF RecordAdjudication, Now, ButEndpoint
  <2>2. Holds(unadvanced', calls', EndpointOps(Succ), Succ)
    BY <1>1, <1>9, <2>1, SkipHolds, ResetHolds DEF RecordAdjudication, Raise
  <2>3. CASE campaign' = campaign
    BY <1>5, <2>1, <2>2, <2>3
  <2>4. CASE /\ campaign = "adjudicating"
             /\ campaign' = IF passed[Adjudicate] THEN "awaiting_signoff" ELSE "invalid"
    <3>1. EndpointTypeOK' /\ RunsGoOn
      BY <1>1, <2>1, <2>4 DEF EndpointTypeOK, RunsGoOn
    <3>2. Told(phase[Adjudicate], passed[Adjudicate], campaign')
      BY <1>1, <2>1, <2>4 DEF Told, Succ
    <3> QED
      BY <1>4, <2>1, <2>2, <2>4, <3>1, <3>2
  <2> QED
    BY <1>9, <2>3, <2>4 DEF RecordAdjudication
<1> QED
  BY <1>3, <1>6, <1>7, <1>8, <1>9
     DEF Serve, Now, EnsureState, Move, EnqueueOne, ReadAgain, CreateCandidates,
         MaybeFinishRound, CreateNoopCandidate, ExecuteFramework, RecordEvidence, JudgeSmoke,
         SetVerdict, RecordProbe, FinalizeStage0

\* A job of the workflow that has not succeeded changes its state.
LEMMA EndpointMoves ==
  ASSUME EndpointInv, NEW j \in EndpointJobs, NEW p \in Phases, phase[j] # "succeeded",
         phase' = [phase EXCEPT ![j] = p], workflow' = workflow
  PROVE  /\ phase' \in [EndpointJobs -> Phases] /\ Succ \subseteq Succ'
         /\ p = "succeeded" => j \in Succ'
         /\ phase'[Adjudicate] = IF j = Adjudicate THEN p ELSE phase[Adjudicate]
         /\ phase[j] # "absent" => JobsGoOn
<1>1. MyJobs = EndpointJobs /\ MyJobs' = EndpointJobs /\ Adjudicate \in EndpointJobs
  BY EndpointIs DEF EndpointInv, MyJobs, JobsOf, EndpointJobs
<1>2. phase \in [EndpointJobs -> Phases] /\ \A i \in 1 .. EndpointRuns : Measure(i) \in EndpointJobs
  BY DEF EndpointInv, EndpointJobs, MeasureJobs
<1> QED
  BY <1>1, <1>2 DEF Succ, JobsGoOn

LEMMA EndpointClaim ==
  ASSUME EndpointInv, NEW k \in Call, NEW j \in MyJobs, Claim(k, j)
  PROVE  EndpointInv'
<1>1. /\ j \in EndpointJobs /\ EndpointTypeOK /\ passed \in [EndpointJobs -> BOOLEAN]
      /\ Told(phase[Adjudicate], passed[Adjudicate], campaign)
      /\ Holds(unadvanced, calls, EndpointOps(Succ), Succ)
  BY EndpointIs DEF EndpointInv
<1>2. ClaimJob(k, j) /\ EndpointClaimed(j) /\ UNCHANGED <<passed, workflow>>
  BY <1>1 DEF Claim, ClaimJob, ButEndpoint
<1>3. /\ phase[j] # "succeeded" /\ phase[j] = "queued" /\ phase' = [phase EXCEPT ![j] = "running"]
      /\ "running" \in Phases
  BY <1>2 DEF ClaimJob, Phases
<1>4. /\ phase' \in [EndpointJobs -> Phases] /\ Succ \subseteq Succ'
      /\ phase'[Adjudicate] = IF j = Adjudicate THEN "running" ELSE phase[Adjudicate]
      /\ JobsGoOn
  BY <1>1, <1>2, <1>3, EndpointMoves
<1>5. Holds(unadvanced', calls', EndpointOps(Succ'), Succ')
  BY <1>1, <1>2, <1>4, PlainRequests, EndpointGrows
<1>6. CASE j = Adjudicate
  <2>1. campaign' = "adjudicating" /\ campaign # "absent" /\ endpoint' = endpoint
    BY <1>2, <1>6 DEF EndpointClaimed
  <2>2. EndpointTypeOK' /\ Told(phase'[Adjudicate], passed'[Adjudicate], campaign') /\ RunsGoOn
    BY <1>1, <1>2, <1>4, <1>6, <2>1 DEF EndpointTypeOK, Told, Phases, RunsGoOn
  <2> QED
    BY <1>1, <1>2, <1>4, <1>5, <2>1, <2>2, EndpointKept
<1>7. CASE j # Adjudicate
  <2> DEFINE row == [endpoint[j[2]] EXCEPT !.run = IF @ = "queued" THEN "running" ELSE @]
  <2>1. j[2] \in 1 .. EndpointRuns
    BY <1>1, <1>7, MeasureIsNot DEF EndpointJobs
  <2>2. endpoint' = [endpoint EXCEPT ![j[2]] = row] /\ campaign' = campaign
    BY <1>2, <1>7 DEF EndpointClaimed
  <2>3. /\ row \in [run : {"absent", "queued", "running", "provisional_passed", "failed"},
                    task : {"absent", "endpoint_probing", "endpoint_provisional_passed", "rejected"}]
        /\ Passed(j[2]) => row = endpoint[j[2]]
        /\ endpoint[j[2]].run # "absent" => row.run # "absent"
    BY <1>1, <2>1 DEF EndpointTypeOK, Passed
  <2> HIDE DEF row
  <2>4. EndpointTypeOK' /\ RunsGoOn
    BY <1>1, <2>1, <2>2, <2>3, RunReplaced
  <2>5. Told(phase'[Adjudicate], passed'[Adjudicate], campaign')
    BY <1>1, <1>2, <1>4, <1>7, <2>2
  <2> QED
    BY <1>1, <1>2, <1>4, <1>5, <2>2, <2>4, <2>5, EndpointKept
<1> QED
  BY <1>6, <1>7

LEMMA EndpointComplete ==
  ASSUME EndpointInv, NEW k \in Call, NEW j \in MyJobs, Complete(k, j)
  PROVE  EndpointInv'
<1>1. /\ j \in EndpointJobs /\ EndpointTypeOK /\ passed \in [EndpointJobs -> BOOLEAN]
      /\ Told(phase[Adjudicate], passed[Adjudicate], campaign)
      /\ Holds(unadvanced, calls, EndpointOps(Succ), Succ)
  BY EndpointIs DEF EndpointInv
<1>2. PICK ok \in BOOLEAN : CompleteJob(k, j, ok)
  BY DEF Complete
<1>3. UNCHANGED <<endpoint, campaign, workflow>>
  BY DEF Complete, OnlyBase, endpointVars
<1>4. /\ phase[j] # "succeeded" /\ phase[j] = "running" /\ phase' = [phase EXCEPT ![j] = "succeeded"]
      /\ passed' = [passed EXCEPT ![j] = ok] /\ "succeeded" \in Phases
  BY <1>2 DEF CompleteJob, Phases
<1>5. /\ phase' \in [EndpointJobs -> Phases] /\ Succ \subseteq Succ' /\ j \in Succ'
      /\ phase'[Adjudicate] = IF j = Adjudicate THEN "succeeded" ELSE phase[Adjudicate]
      /\ JobsGoOn
  BY <1>1, <1>3, <1>4, EndpointMoves
<1>6. Holds(unadvanced, calls, EndpointOps(Succ'), Succ')
  BY <1>1, <1>5, EndpointGrows
<1>7. Holds(unadvanced', calls', EndpointOps(Succ'), Succ')
  BY <1>2, <1>5, <1>6, CompleteHolds
<1>8. /\ passed' \in [EndpointJobs -> BOOLEAN]
      /\ j # Adjudicate => passed'[Adjudicate] = passed[Adjudicate]
  BY <1>1, <1>4
<1>9. EndpointTypeOK' /\ Told(phase'[Adjudicate], passed'[Adjudicate], campaign') /\ RunsGoOn
  BY <1>1, <1>3, <1>4, <1>5, <1>8 DEF EndpointTypeOK, Told, Phases, RunsGoOn
<1> QED
  BY <1>3, <1>5, <1>7, <1>8, <1>9, EndpointKept

\* A job that fails, or is cancelled, is told to the campaign.
LEMMA EndpointOver ==
  ASSUME EndpointInv, NEW j \in EndpointJobs, phase[j] \in {"queued", "running"},
         phase' = [phase EXCEPT ![j] = "over"], AdjudicationOver(j),
         UNCHANGED <<workflow, passed, unadvanced, calls>>, EndpointTypeOK',
         RunsGoOn
  PROVE  EndpointInv'
<1>1. /\ EndpointTypeOK /\ passed \in [EndpointJobs -> BOOLEAN]
      /\ Told(phase[Adjudicate], passed[Adjudicate], campaign)
      /\ Holds(unadvanced, calls, EndpointOps(Succ), Succ)
  BY DEF EndpointInv
<1>2. "over" \in Phases
  BY DEF Phases
<1>3. /\ phase' \in [EndpointJobs -> Phases] /\ Succ \subseteq Succ' /\ JobsGoOn
      /\ phase'[Adjudicate] = IF j = Adjudicate THEN "over" ELSE phase[Adjudicate]
  BY <1>2, EndpointMoves
<1>4. Holds(unadvanced', calls', EndpointOps(Succ'), Succ')
  BY <1>1, <1>3, EndpointGrows
<1>5. /\ campaign' # "absent" => campaign # "absent"
      /\ Told(phase'[Adjudicate], passed'[Adjudicate], campaign')
  BY <1>1, <1>2, <1>3 DEF AdjudicationOver, Told
<1> QED
  BY <1>1, <1>3, <1>4, <1>5, EndpointKept

LEMMA RunFails ==
  ASSUME NEW e \in [run : {"absent", "queued", "running", "provisional_passed", "failed"},
                    task : {"absent", "endpoint_probing", "endpoint_provisional_passed", "rejected"}],
         NEW row, row = [e EXCEPT !.run  = IF @ \in {"queued", "running"} THEN "failed" ELSE @,
                                  !.task = IF @ = "endpoint_probing" THEN "rejected" ELSE @]
  PROVE  /\ row \in [run : {"absent", "queued", "running", "provisional_passed", "failed"},
                     task : {"absent", "endpoint_probing", "endpoint_provisional_passed", "rejected"}]
         /\ e = [run |-> "provisional_passed", task |-> "endpoint_provisional_passed"] => row = e
         /\ e.run # "absent" => row.run # "absent"
<1>1. row = [run  |-> IF e.run \in {"queued", "running"} THEN "failed" ELSE e.run,
             task |-> IF e.task = "endpoint_probing" THEN "rejected" ELSE e.task]
  OBVIOUS
<1>2. CASE e = [run |-> "provisional_passed", task |-> "endpoint_provisional_passed"]
  BY <1>1, <1>2
<1>3. row \in [run : {"absent", "queued", "running", "provisional_passed", "failed"},
               task : {"absent", "endpoint_probing", "endpoint_provisional_passed", "rejected"}]
  <2>1. /\ (IF e.run \in {"queued", "running"} THEN "failed" ELSE e.run)
             \in {"absent", "queued", "running", "provisional_passed", "failed"}
        /\ (IF e.task = "endpoint_probing" THEN "rejected" ELSE e.task)
             \in {"absent", "endpoint_probing", "endpoint_provisional_passed", "rejected"}
    OBVIOUS
  <2> QED
    BY <1>1, <2>1
<1>4. e.run # "absent" => row.run # "absent"
  BY <1>1
<1> QED
  BY <1>2, <1>3, <1>4

LEMMA EndpointFail ==
  ASSUME EndpointInv, NEW j \in MyJobs, FailEndpointJob(j), UNCHANGED ButEndpoint
  PROVE  EndpointInv'
<1>1. j \in EndpointJobs /\ EndpointTypeOK
  BY EndpointIs DEF EndpointInv
<1>2. /\ phase[j] = "running" /\ phase' = [phase EXCEPT ![j] = "over"] /\ AdjudicationOver(j)
      /\ UNCHANGED <<workflow, passed, unadvanced, calls>>
  BY DEF FailEndpointJob, ButEndpoint
<1>3. campaign' \in {campaign, "adjudication_failed"}
  BY <1>2 DEF AdjudicationOver
<1>4. CASE j = Adjudicate
  <2>1. endpoint' = endpoint
    BY <1>4 DEF FailEndpointJob
  <2> QED
    BY <1>1, <1>2, <1>3, <2>1, EndpointOver DEF EndpointTypeOK, RunsGoOn
<1>5. CASE j # Adjudicate
  <2> DEFINE row == [endpoint[j[2]] EXCEPT
                       !.run  = IF @ \in {"queued", "running"} THEN "failed" ELSE @,
                       !.task = IF @ = "endpoint_probing" THEN "rejected" ELSE @]
  <2>1. j[2] \in 1 .. EndpointRuns
    BY <1>1, <1>5, MeasureIsNot DEF EndpointJobs
  <2>2. endpoint' = [endpoint EXCEPT
                       ![j[2]].run  = IF @ \in {"queued", "running"} THEN "failed" ELSE @,
                       ![j[2]].task = IF @ = "endpoint_probing" THEN "rejected" ELSE @]
    BY <1>5 DEF FailEndpointJob
  <2>3. /\ row \in [run : {"absent", "queued", "running", "provisional_passed", "failed"},
                    task : {"absent", "endpoint_probing", "endpoint_provisional_passed", "rejected"}]
        /\ Passed(j[2]) => row = endpoint[j[2]]
        /\ endpoint[j[2]].run # "absent" => row.run # "absent"
    <3>1. endpoint[j[2]] \in
            [run : {"absent", "queued", "running", "provisional_passed", "failed"},
             task : {"absent", "endpoint_probing", "endpoint_provisional_passed", "rejected"}]
      BY <1>1, <2>1 DEF EndpointTypeOK
    <3> QED
      BY <3>1, RunFails DEF Passed
  <2>4. endpoint' = [endpoint EXCEPT ![j[2]] = row]
    BY <2>2, Zenon
  <2> HIDE DEF row
  <2>5. campaign' = campaign
    BY <1>2, <1>5 DEF AdjudicationOver
  <2>6. EndpointTypeOK' /\ RunsGoOn
    BY <1>1, <2>1, <2>3, <2>4, <2>5, RunReplaced
  <2> QED
    BY <1>1, <1>2, <2>6, EndpointOver
<1> QED
  BY <1>4, <1>5

LEMMA EndpointOperator ==
  ASSUME EndpointInv, Operator
  PROVE  EndpointInv'
<1>1. /\ workflow = "endpoint_validation" /\ MyJobs = EndpointJobs /\ EndpointTypeOK
      /\ phase \in [EndpointJobs -> Phases] /\ passed \in [EndpointJobs -> BOOLEAN]
      /\ Told(phase[Adjudicate], passed[Adjudicate], campaign)
      /\ Holds(unadvanced, calls, EndpointOps(Succ), Succ) /\ Adjudicate \in EndpointJobs
  BY EndpointIs DEF EndpointInv, EndpointJobs
<1>2. "queued" \in Phases
  BY DEF Phases
<1>3. ASSUME NEW i \in 1 .. EndpointRuns, CreateEndpointRun(i), UNCHANGED ButEndpoint
      PROVE  EndpointInv'
  <2> DEFINE row == [run |-> "queued", task |-> "endpoint_probing"]
  <2>1. /\ endpoint' = [endpoint EXCEPT ![i] = row] /\ UNCHANGED <<workflow, passed, campaign>>
        /\ phase' = [phase EXCEPT ![Measure(i)] = "queued"] /\ UNCHANGED <<unadvanced, calls>>
        /\ ~ Passed(i) /\ endpoint[i].run = "absent" /\ row.run # "absent"
    BY <1>3 DEF CreateEndpointRun, ButEndpoint, Passed
  <2>2. /\ Measure(i) \in EndpointJobs /\ Measure(i) # Adjudicate
        /\ EndpointTypeOK' /\ RunsGoOn
    BY <1>1, <2>1, RunReplaced, MeasureIsNot DEF MeasureJobs, EndpointJobs
  <2>3. phase[Measure(i)] = "absent"
    BY <2>1 DEF EndpointInv
  <2>4. /\ phase' \in [EndpointJobs -> Phases] /\ Succ \subseteq Succ'
        /\ phase'[Adjudicate] = phase[Adjudicate]
    BY <1>2, <2>1, <2>2, <2>3, EndpointMoves
  <2>5. Holds(unadvanced', calls', EndpointOps(Succ'), Succ')
    BY <1>1, <2>1, <2>4, EndpointGrows
  <2>6. JobsGoOn
    <3> SUFFICES ASSUME NEW n \in 1 .. EndpointRuns
                 PROVE  phase'[Measure(n)] = phase[Measure(n)] \/ endpoint'[n].run # "absent"
      BY DEF JobsGoOn
    <3>1. CASE n = i
      BY <1>1, <2>1, <3>1 DEF EndpointTypeOK
    <3>2. CASE n # i
      BY <1>1, <2>1, <3>2 DEF Measure
    <3> QED
      BY <3>1, <3>2
  <2> QED
    BY <1>1, <2>1, <2>2, <2>4, <2>5, <2>6, EndpointKept
<1>4. CASE CreateCampaign /\ UNCHANGED ButEndpoint
  <2>1. /\ campaign = "absent" /\ campaign' = "awaiting_adjudication"
        /\ \A i \in 1 .. EndpointRuns : Passed(i)
        /\ phase' = [phase EXCEPT ![Adjudicate] = "queued"]
        /\ UNCHANGED <<workflow, passed, unadvanced, calls, endpoint>>
    BY <1>4 DEF CreateCampaign, ButEndpoint
  <2>2. phase[Adjudicate] # "succeeded"
    BY <1>1, <2>1 DEF Told
  <2>7. \A i \in 1 .. EndpointRuns : phase'[Measure(i)] = phase[Measure(i)]
    BY <1>1, <2>1, MeasureIsNot
  <2>3. /\ phase' \in [EndpointJobs -> Phases] /\ Succ \subseteq Succ'
        /\ phase'[Adjudicate] = "queued"
    BY <1>1, <1>2, <2>1, <2>2, EndpointMoves
  <2>4. Holds(unadvanced', calls', EndpointOps(Succ'), Succ')
    BY <1>1, <2>1, <2>3, EndpointGrows
  <2>5. EndpointTypeOK' /\ Told(phase'[Adjudicate], passed'[Adjudicate], campaign')
    BY <1>1, <1>2, <2>1, <2>3 DEF EndpointTypeOK, Told
  <2>6. \A i \in 1 .. EndpointRuns : Passed(i)'
    BY <2>1 DEF Passed
  <2>8. \A i \in 1 .. EndpointRuns :
          phase'[Measure(i)] # "absent" => endpoint'[i].run # "absent"
    BY <2>1, <2>7 DEF EndpointInv
  <2> QED
    BY <1>1, <2>1, <2>3, <2>4, <2>5, <2>6, <2>8 DEF EndpointInv
<1>5. ASSUME NEW b \in BOOLEAN, SignoffCampaign(b), UNCHANGED ButEndpoint PROVE EndpointInv'
  <2>1. /\ campaign = "awaiting_signoff" /\ campaign' \in {"completed", "rejected"}
        /\ UNCHANGED <<workflow, phase, passed, unadvanced, calls, endpoint>>
    BY <1>5 DEF SignoffCampaign, ButEndpoint, base
  <2>2. EndpointTypeOK' /\ Told(phase'[Adjudicate], passed'[Adjudicate], campaign')
    BY <1>1, <2>1 DEF EndpointTypeOK, Told
  <2>3. Succ' = Succ /\ RunsGoOn /\ JobsGoOn
    BY <2>1 DEF Succ, MyJobs, RunsGoOn, JobsGoOn
  <2> QED
    BY <1>1, <2>1, <2>2, <2>3, EndpointKept
<1>6. ASSUME NEW j \in EndpointJobs, CancelEndpointJob(j), UNCHANGED ButEndpoint
      PROVE  EndpointInv'
  <2>1. /\ phase[j] \in {"queued", "running"} /\ phase' = [phase EXCEPT ![j] = "over"]
        /\ AdjudicationOver(j) /\ UNCHANGED <<workflow, passed, unadvanced, calls, endpoint>>
    BY <1>6 DEF CancelEndpointJob, CancelJob, ButEndpoint
  <2>2. EndpointTypeOK' /\ RunsGoOn
    BY <1>1, <2>1 DEF EndpointTypeOK, AdjudicationOver, RunsGoOn
  <2> QED
    BY <2>1, <2>2, EndpointOver
<1> QED
  BY <1>1, <1>3, <1>4, <1>5, <1>6 DEF Operator

LEMMA EndpointStep == EndpointInv /\ [RouterNext]_vars => EndpointInv'
<1> SUFFICES ASSUME EndpointInv, [RouterNext]_vars PROVE EndpointInv'
  OBVIOUS
<1>1. /\ Holds(unadvanced, calls, EndpointOps(Succ), Succ) /\ EndpointTypeOK
      /\ phase \in [EndpointJobs -> Phases] /\ passed \in [EndpointJobs -> BOOLEAN]
      /\ Told(phase[Adjudicate], passed[Adjudicate], campaign)
      /\ workflow = "endpoint_validation"
  BY DEF EndpointInv
<1>2. ASSUME UNCHANGED <<workflow, phase, passed, endpoint, campaign>>,
             Holds(unadvanced', calls', EndpointOps(Succ), Succ)
      PROVE  EndpointInv'
  <2>1. Succ' = Succ /\ EndpointTypeOK' /\ RunsGoOn /\ JobsGoOn
    BY <1>1, <1>2 DEF Succ, MyJobs, EndpointTypeOK, RunsGoOn, JobsGoOn
  <2> QED
    BY <1>1, <1>2, <2>1, EndpointKept
<1>3. ASSUME NEW k \in Call, Poll(k) \/ Die(k) PROVE EndpointInv'
  <2>1. Holds(unadvanced', calls', EndpointOps(Succ), Succ)
    BY <1>1, <1>3, PlainRequests DEF Poll, Die
  <2> QED
    BY <1>2, <1>3, <2>1 DEF Poll, Die, Reconcile, Crash, OnlyBase, endpointVars
<1>4. ASSUME NEW j \in MyJobs, Fail(j) PROVE EndpointInv'
  BY <1>1, <1>4, EndpointFail DEF Fail
<1>5. CASE UNCHANGED vars
  BY <1>1, <1>2, <1>5 DEF vars, base, endpointVars
<1> QED
  BY <1>3, <1>4, <1>5, EndpointServe, EndpointClaim, EndpointComplete, EndpointOperator
     DEF RouterNext

LEMMA EndpointInit == RouterInit /\ workflow = "endpoint_validation" => EndpointInv
<1> SUFFICES ASSUME RouterInit, workflow = "endpoint_validation" PROVE EndpointInv
  OBVIOUS
<1>1. MyJobs = EndpointJobs /\ Holds(unadvanced, calls, EndpointOps(Succ), Succ)
  BY EndpointIs, InitHolds
<1>2. EndpointTypeOK /\ campaign = "absent"
  BY DEF RouterInit, EndpointStart, EndpointTypeOK
<1>3. Adjudicate \in EndpointJobs /\ Adjudicate # Prepare /\ Adjudicate \notin ProbeJobs
  BY DEF EndpointJobs, Adjudicate, Prepare, ProbeJobs, Probe
<1>4. /\ phase \in [EndpointJobs -> Phases] /\ passed \in [EndpointJobs -> BOOLEAN]
      /\ phase[Adjudicate] = "absent"
  BY <1>1, <1>3 DEF RouterInit, Phases
<1>5. \A i \in 1 .. EndpointRuns : phase[Measure(i)] = "absent"
  BY <1>1 DEF RouterInit, EndpointJobs, MeasureJobs, Measure, Prepare, ProbeJobs, Probe
<1> QED
  BY <1>1, <1>2, <1>4, <1>5 DEF EndpointInv, Told, Phases

LEMMA EndpointBacked == EndpointInv => CampaignBacked
<1> SUFFICES ASSUME EndpointInv PROVE CampaignBacked
  OBVIOUS
<1>1. campaign # "absent" => \A i \in 1 .. EndpointRuns : Passed(i)
  BY DEF EndpointInv
<1>2. Told(phase[Adjudicate], passed[Adjudicate], campaign)
  BY DEF EndpointInv
<1>3. /\ campaign \in {"awaiting_signoff", "completed", "rejected"} =>
            phase[Adjudicate] = "succeeded" /\ passed[Adjudicate]
      /\ campaign = "adjudication_failed" <=> phase[Adjudicate] = "over"
  BY <1>2 DEF Told, Phases
<1> QED
  BY <1>1, <1>3 DEF CampaignBacked

\* An operator is asked about a campaign, and decides it, only when its
\* adjudication found the result of its runs, all of them passed, to be valid;
\* and a campaign learns of an adjudication that failed or was cancelled
\* (storage/endpoint_validation.py), for any number of runs and requests.
THEOREM CampaignsAreBacked == RouterSpec => []CampaignBacked
<1> DEFINE Inv == workflow = "endpoint_validation" => EndpointInv
<1>1. RouterInit => Inv
  BY EndpointInit
<1>2. Inv /\ [RouterNext]_vars => Inv'
  <2> SUFFICES ASSUME Inv, [RouterNext]_vars PROVE Inv'
    OBVIOUS
  <2>1. workflow' = workflow
    BY WorkflowStays
  <2> QED
    BY <2>1, EndpointStep
<1>3. Inv => CampaignBacked
  BY EndpointBacked DEF CampaignBacked
<1> HIDE DEF Inv
<1> QED
  BY <1>1, <1>2, <1>3, PTL DEF RouterSpec


-----------------------------------------------------------------------------
(* The manual candidate.                                                   *)

ManualTargets == {"built", "correctness_running", "performance_running", "adjudicating",
                  "manual_correctness", "manual_performance", "manual_adjudicating",
                  "awaiting_signoff", "rejected"}

ManualOp == {Op(d, e, s) : d \in {"ensure", "move"}, e \in {Task, MCand}, s \in ManualTargets}
            \cup {Enqueue(j) : j \in {MCorrectness, MPerformance, MAdjudicate}}
            \cup {Do("verdict", MAdjudicate)} \cup {Mark(j) : j \in ManualJobs}

Won(j)  == phase[j] = "succeeded" /\ passed[j]
Lost(j) == phase[j] = "succeeded" /\ ~ passed[j]

\* Which results an operation rests on.
Due(o) ==
    /\ o.to = "rejected" => Lost(MCorrectness) \/ Lost(MAdjudicate)
    /\ o.to = "awaiting_signoff" => Won(MAdjudicate)
    /\ o = Do("verdict", MAdjudicate) => phase[MAdjudicate] = "succeeded"
    /\ o = Enqueue(MCorrectness) => phase[MBuild] = "succeeded"
    /\ o = Enqueue(MPerformance) => Won(MCorrectness)
    /\ o = Enqueue(MAdjudicate) => phase[MPerformance] = "succeeded"

ManualOps == {o \in ManualOp : Due(o)}

\* A job is there only when the one before it has brought the candidate on.
Chain ==
    /\ phase[MBuild] # "absent" => state[MCand] # "absent"
    /\ phase[MCorrectness] # "absent" => phase[MBuild] = "succeeded"
    /\ phase[MPerformance] # "absent" => Won(MCorrectness)
    /\ phase[MAdjudicate] # "absent" => phase[MPerformance] = "succeeded"

\* Nothing has gone wrong with any job so far.
Sound == /\ \A j \in ManualJobs : phase[j] # "over"
         /\ ~ Lost(MCorrectness) /\ ~ Lost(MAdjudicate)

Asked(e)  == {Op(d, e, "awaiting_signoff") : d \in {"ensure", "move"}}
AskedOrPast == {"awaiting_signoff", "accepted", "rejected", "build_failed"}
CandEnds  == {"accepted", "rejected", "build_failed"}

VerdictTrue ==
    /\ verdict # "none" => verdict = IF passed[MAdjudicate] THEN "valid" ELSE "invalid"
    /\ verdict # "none" => phase[MAdjudicate] = "succeeded"
    /\ state[MCand] = "awaiting_signoff" => verdict # "none"

\* The verdict comes before the candidate, and the candidate before the task.
ManualOrder ==
    /\ verdict # "none" \/ AllBefore(calls, {Do("verdict", MAdjudicate)}, Asked(MCand))
    /\ state[MCand] \in AskedOrPast \/ AllBefore(calls, Asked(MCand), Asked(Task))

Together ==
    /\ Sound /\ state[MCand] \in CandEnds => state[Task] \in {"completed", "rejected"}
    /\ state[Task] = "awaiting_signoff" => state[MCand] = "awaiting_signoff" /\ Won(MAdjudicate)
    /\ state[Task] = "completed" <=> state[MCand] = "accepted"

ManualInv ==
    /\ workflow = "manual_candidate" /\ DOMAIN state = {Task} \cup Members
    /\ phase \in [ManualJobs -> Phases] /\ passed \in [ManualJobs -> BOOLEAN]
    /\ Holds(unadvanced, calls, ManualOps, Succ)
    /\ Chain /\ VerdictTrue /\ ManualOrder /\ Together

LEMMA NoneBefore ==
  ASSUME NEW t, NEW A, NEW B, \A i \in DOMAIN t : t[i] \notin B
  PROVE  Before(t, A, B)
BY DEF Before

LEMMA AppendBefore ==
  ASSUME NEW T, NEW t \in Seq(T), NEW m \in T, NEW A, NEW B, m \notin B, Before(t, A, B)
  PROVE  Before(t \o <<m>>, A, B) /\ t \o <<m>> \in Seq(T)
<1>1. t \o <<m>> = Append(t, m)
  OBVIOUS
<1>2. /\ Append(t, m) \in Seq(T) /\ DOMAIN Append(t, m) = 1 .. Len(t) + 1 /\ DOMAIN t = 1 .. Len(t)
      /\ \A i \in 1 .. Len(t) : Append(t, m)[i] = t[i]
      /\ Append(t, m)[Len(t) + 1] = m /\ Len(t) \in Nat
  BY AppendProperties, LenProperties
<1> DEFINE s == Append(t, m)
<1> HIDE DEF s
<1>3. ASSUME NEW i \in DOMAIN s, s[i] \in B PROVE \E h \in 1 .. i - 1 : s[h] \in A
  <2>1. i \in 1 .. Len(t) /\ s[i] = t[i]
    BY <1>2, <1>3 DEF s
  <2>2. PICK h \in 1 .. i - 1 : t[h] \in A
    BY <1>2, <1>3, <2>1 DEF Before
  <2>3. h \in 1 .. Len(t)
    BY <1>2, <2>1, <2>2
  <2> QED
    BY <1>2, <2>2, <2>3 DEF s
<1> QED
  BY <1>1, <1>2, <1>3 DEF Before, s

\* A result that is there stays as it is.
Kept == \A j \in ManualJobs :
          phase[j] = "succeeded" => phase'[j] = "succeeded" /\ passed'[j] = passed[j]

LEMMA ManualIs == workflow = "manual_candidate" => MyJobs = ManualJobs
BY DEF MyJobs, JobsOf

LEMMA ManualNames ==
  /\ MBuild \in ManualJobs /\ MCorrectness \in ManualJobs /\ MPerformance \in ManualJobs
  /\ MAdjudicate \in ManualJobs /\ MBuild # MCorrectness /\ MBuild # MPerformance
  /\ MBuild # MAdjudicate /\ MCorrectness # MPerformance /\ MCorrectness # MAdjudicate
  /\ MPerformance # MAdjudicate /\ MCand # Task
  /\ \A j \in ManualJobs : j # MCand /\ j # Task
BY DEF ManualJobs, MBuild, MCorrectness, MPerformance, MAdjudicate, MCand, Candidate, Task

LEMMA ManualOpsGrow ==
  ASSUME Kept
  PROVE  ManualOps \subseteq ManualOps'
<1>1. ASSUME NEW o, Due(o) PROVE Due(o)'
  BY <1>1, ManualNames DEF Due, Kept, Won, Lost
<1> QED
  BY <1>1 DEF ManualOps

\* Requests go on, and nothing else moves.
LEMMA ManualQuiet ==
  ASSUME ManualInv, UNCHANGED <<workflow, phase, passed, state, verdict>>,
         Holds(unadvanced', calls', ManualOps, Succ), ManualOrder'
  PROVE  ManualInv'
<1>1. ManualOps' = ManualOps /\ Succ' = Succ
  BY DEF ManualOps, Due, Won, Lost, Succ, MyJobs
<1> QED
  BY <1>1 DEF ManualInv, Members, Chain, VerdictTrue, Together, Sound, Won, Lost

LEMMA ManualOpIs ==
  ASSUME NEW o \in ManualOps
  PROVE  \/ /\ o.do \in {"ensure", "move"} /\ o.who \in {Task, MCand} /\ o.to \in ManualTargets
            /\ o = Op(o.do, o.who, o.to)
            /\ o.to = "rejected" => Lost(MCorrectness) \/ Lost(MAdjudicate)
            /\ o.to = "awaiting_signoff" => Won(MAdjudicate)
         \/ /\ o.do = "enqueue" /\ o.who \in {MCorrectness, MPerformance, MAdjudicate}
            /\ o.who = MCorrectness => phase[MBuild] = "succeeded"
            /\ o.who = MPerformance => Won(MCorrectness)
            /\ o.who = MAdjudicate => phase[MPerformance] = "succeeded"
         \/ /\ o = Do("verdict", MAdjudicate) /\ o.do = "verdict" /\ o.who = MAdjudicate
            /\ phase[MAdjudicate] = "succeeded"
         \/ o.do = "mark" /\ o.who \in ManualJobs
BY ManualNames DEF ManualOps, ManualOp, Due, Op, Do, Mark, Enqueue

\* What an ensure asks for may also be moved to.
LEMMA MoveDue ==
  ASSUME NEW o \in ManualOps, o.do = "ensure"
  PROVE  /\ MoveTo(o.who, o.to) \in ManualOps
         /\ \A e \in {Task, MCand} : MoveTo(o.who, o.to) \in Asked(e) <=> o \in Asked(e)
         /\ MoveTo(o.who, o.to).do = "move"
<1>1. o.who \in {Task, MCand} /\ o.to \in ManualTargets /\ o = Op("ensure", o.who, o.to)
  BY ManualOpIs DEF Op, Do
<1>2. MoveTo(o.who, o.to) \in ManualOp
  BY <1>1 DEF ManualOp, MoveTo
<1>3. Due(MoveTo(o.who, o.to))
  BY <1>1 DEF ManualOps, Due, MoveTo, Op, Do, Enqueue
<1> QED
  BY <1>1, <1>2, <1>3 DEF ManualOps, Asked, MoveTo, Op

\* Where an ensure has nothing to do, it has been done.
LEMMA NothingToMove ==
  ASSUME NEW e \in {Task, MCand}, NEW to
  PROVE  /\ ManualMoves(e, to) \in {<<>>, <<MoveTo(e, to)>>}
         /\ e = MCand /\ to = "awaiting_signoff" /\ ManualMoves(e, to) = <<>> =>
               state[MCand] \in AskedOrPast
BY ManualNames DEF ManualMoves, AskedOrPast, After

LEMMA ManualHandlerDue ==
  ASSUME ManualInv, NEW j \in Succ
  PROVE  /\ ManualHandler(j) \in Seq(ManualOps)
         /\ Before(ManualHandler(j), {Do("verdict", MAdjudicate)}, Asked(MCand))
         /\ Before(ManualHandler(j), Asked(MCand), Asked(Task))
<1> DEFINE Fine(h) == /\ h \in Seq(ManualOps)
                      /\ Before(h, {Do("verdict", MAdjudicate)}, Asked(MCand))
                      /\ Before(h, Asked(MCand), Asked(Task))
<1>1. j \in ManualJobs /\ phase[j] = "succeeded"
  BY ManualIs DEF ManualInv, Succ
<1>2. Mark(j) \in ManualOps /\ Mark(j) \notin Asked(MCand) /\ Mark(j) \notin Asked(Task)
  <2>1. Due(Mark(j))
    BY ManualNames DEF Due, Mark, Do, Enqueue, Op
  <2> QED
    BY <1>1, <2>1 DEF ManualOps, ManualOp, Asked, Mark, Do, Op
<1>3. ASSUME NEW h, Fine(h) PROVE Fine(h \o <<Mark(j)>>)
  BY <1>2, <1>3, AppendBefore
\* An operation that asks nobody yet.
<1>4. ASSUME NEW d \in {"ensure"}, NEW e \in {Task, MCand},
             NEW s \in ManualTargets \ {"rejected", "awaiting_signoff"}
      PROVE  /\ Op(d, e, s) \in ManualOps
             /\ Op(d, e, s) \notin Asked(MCand) /\ Op(d, e, s) \notin Asked(Task)
  <2>1. Due(Op(d, e, s))
    BY <1>4 DEF Due, Do, Enqueue, Op
  <2> QED
    BY <1>4, <2>1 DEF ManualOps, ManualOp, Asked, Op
<1>5. ASSUME NEW i \in {MCorrectness, MPerformance, MAdjudicate}, Due(Enqueue(i))
      PROVE  Enqueue(i) \in ManualOps /\ Enqueue(i) \notin Asked(MCand)
             /\ Enqueue(i) \notin Asked(Task)
  BY <1>5 DEF ManualOps, ManualOp, Asked, Enqueue, Op
<1>6. ASSUME Lost(MCorrectness) \/ Lost(MAdjudicate), NEW e \in {Task, MCand}
      PROVE  /\ Ensure(e, "rejected") \in ManualOps
             /\ Ensure(e, "rejected") \notin Asked(MCand) /\ Ensure(e, "rejected") \notin Asked(Task)
  <2>1. Due(Ensure(e, "rejected"))
    BY <1>6 DEF Due, Do, Enqueue, Op, Ensure
  <2> QED
    BY <1>6, <2>1 DEF ManualOps, ManualOp, ManualTargets, Asked, Ensure, Op
<1>7. ASSUME j = MAdjudicate
      PROVE  /\ Do("verdict", j) \in ManualOps
             /\ Do("verdict", j) \notin Asked(MCand) /\ Do("verdict", j) \notin Asked(Task)
  <2>1. Due(Do("verdict", j))
    BY <1>1, <1>7, ManualNames DEF Due, Do, Enqueue, Op
  <2> QED
    BY <1>7, <2>1 DEF ManualOps, ManualOp, Asked, Do, Op
\* A list of such operations.
<1>8. ASSUME NEW a \in ManualOps, NEW b \in ManualOps,
             a \notin Asked(MCand), a \notin Asked(Task), b \notin Asked(MCand), b \notin Asked(Task)
      PROVE  Fine(<<a, b>>)
  BY <1>8 DEF Before
<1>9. ASSUME NEW a \in ManualOps, NEW b \in ManualOps, NEW c \in ManualOps,
             a \notin Asked(MCand), a \notin Asked(Task), b \notin Asked(MCand), b \notin Asked(Task),
             c \notin Asked(MCand), c \notin Asked(Task)
      PROVE  Fine(<<a, b, c>>)
  BY <1>9 DEF Before
<1>10. ASSUME NEW a \in ManualOps, NEW b \in ManualOps, NEW c \in ManualOps, NEW d \in ManualOps,
             a \notin Asked(MCand), a \notin Asked(Task), b \notin Asked(MCand), b \notin Asked(Task),
             c \notin Asked(MCand), c \notin Asked(Task), d \notin Asked(MCand), d \notin Asked(Task)
      PROVE  Fine(<<a, b, c, d>>)
  BY <1>10 DEF Before
<1>11. Fine(<<>>)
  BY EmptyBefore, EmptySeq
<1>12. CASE state[Task] = "cancelled"
  <2>1. ManualHandler(j) = <<>> \o <<Mark(j)>>
    BY <1>12 DEF ManualHandler
  <2> HIDE DEF Fine
  <2>2. Fine(ManualHandler(j))
    BY <1>3, <1>11, <2>1
  <2> QED
    BY <2>2 DEF Fine
<1>13. CASE state[Task] # "cancelled" /\ j = MBuild
  <2> DEFINE h == <<Ensure(MCand, "built"), Ensure(MCand, "correctness_running"),
                    Ensure(Task, "manual_correctness"), Enqueue(MCorrectness)>>
  <2>1. ManualHandler(j) = h \o <<Mark(j)>>
    BY <1>13, ManualNames DEF ManualHandler
  <2>2. Due(Enqueue(MCorrectness))
    BY <1>1, <1>13, ManualNames DEF Due, Do, Enqueue, Op
  <2>3. Fine(h)
    BY <1>4, <1>5, <1>10, <2>2 DEF ManualTargets, Ensure
  <2> HIDE DEF Fine, h
  <2>4. Fine(ManualHandler(j))
    BY <1>3, <2>1, <2>3
  <2> QED
    BY <2>4 DEF Fine
<1>14. CASE state[Task] # "cancelled" /\ j = MCorrectness /\ ~ passed[j]
  <2> DEFINE h == <<Ensure(MCand, "rejected"), Ensure(Task, "rejected")>>
  <2>1. ManualHandler(j) = h \o <<Mark(j)>>
    BY <1>14, ManualNames DEF ManualHandler
  <2>2. Lost(MCorrectness)
    BY <1>1, <1>14 DEF Lost
  <2>3. Fine(h)
    BY <1>6, <1>8, <2>2
  <2> HIDE DEF Fine, h
  <2>4. Fine(ManualHandler(j))
    BY <1>3, <2>1, <2>3
  <2> QED
    BY <2>4 DEF Fine
<1>15. CASE state[Task] # "cancelled" /\ j = MCorrectness /\ passed[j]
  <2> DEFINE h == <<Ensure(MCand, "performance_running"), Ensure(Task, "manual_performance"),
                    Enqueue(MPerformance)>>
  <2>1. ManualHandler(j) = h \o <<Mark(j)>>
    BY <1>15, ManualNames DEF ManualHandler
  <2>2. Due(Enqueue(MPerformance))
    BY <1>1, <1>15, ManualNames DEF Due, Do, Enqueue, Op, Won
  <2>3. Fine(h)
    BY <1>4, <1>5, <1>9, <2>2 DEF ManualTargets, Ensure
  <2> HIDE DEF Fine, h
  <2>4. Fine(ManualHandler(j))
    BY <1>3, <2>1, <2>3
  <2> QED
    BY <2>4 DEF Fine
<1>16. CASE state[Task] # "cancelled" /\ j = MPerformance
  <2> DEFINE h == <<Ensure(MCand, "adjudicating"), Ensure(Task, "manual_adjudicating"),
                    Enqueue(MAdjudicate)>>
  <2>1. ManualHandler(j) = h \o <<Mark(j)>>
    BY <1>16, ManualNames DEF ManualHandler
  <2>2. Due(Enqueue(MAdjudicate))
    BY <1>1, <1>16, ManualNames DEF Due, Do, Enqueue, Op
  <2>3. Fine(h)
    BY <1>4, <1>5, <1>9, <2>2 DEF ManualTargets, Ensure
  <2> HIDE DEF Fine, h
  <2>4. Fine(ManualHandler(j))
    BY <1>3, <2>1, <2>3
  <2> QED
    BY <2>4 DEF Fine
<1>17. CASE state[Task] # "cancelled" /\ j = MAdjudicate /\ ~ passed[j]
  <2> DEFINE h == <<Do("verdict", j), Ensure(MCand, "rejected"), Ensure(Task, "rejected")>>
  <2>1. ManualHandler(j) = h \o <<Mark(j)>>
    BY <1>17, ManualNames DEF ManualHandler, AfterAdjudication
  <2>2. Lost(MAdjudicate)
    BY <1>1, <1>17 DEF Lost
  <2>3. Fine(h)
    BY <1>6, <1>7, <1>9, <1>17, <2>2
  <2> HIDE DEF Fine, h
  <2>4. Fine(ManualHandler(j))
    BY <1>3, <2>1, <2>3
  <2> QED
    BY <2>4 DEF Fine
<1>18. CASE state[Task] # "cancelled" /\ j = MAdjudicate /\ passed[j]
  <2> DEFINE v == Do("verdict", j)
             a == Ensure(MCand, "awaiting_signoff")
             b == Ensure(Task, "awaiting_signoff")
             h == <<v, a, b>>
  <2>1. ManualHandler(j) = h \o <<Mark(j)>>
    BY <1>18, ManualNames DEF ManualHandler, AfterAdjudication
  <2>2. a \in ManualOps /\ b \in ManualOps
    <3>1. Due(a) /\ Due(b)
      BY <1>1, <1>18 DEF Due, Do, Enqueue, Op, Ensure, Won
    <3> QED
      BY <3>1 DEF ManualOps, ManualOp, ManualTargets, Ensure, Op
  <2>3. /\ v \in ManualOps /\ v \notin Asked(MCand) /\ v \notin Asked(Task)
        /\ a \in Asked(MCand) /\ a \notin Asked(Task) /\ b \notin Asked(MCand)
    BY <1>7, <1>18, ManualNames DEF Asked, Ensure, Op
  <2>4. v = Do("verdict", MAdjudicate)
    BY <1>18
  <2> HIDE DEF v, a, b
  <2>5. /\ h \in Seq(ManualOps) /\ DOMAIN h = 1 .. 3 /\ h[1] = v /\ h[2] = a /\ h[3] = b
    BY <2>2, <2>3
  <2> HIDE DEF h
  <2>6. Before(h, {Do("verdict", MAdjudicate)}, Asked(MCand)) /\ Before(h, Asked(MCand), Asked(Task))
    BY <2>3, <2>4, <2>5 DEF Before
  <2>7. Fine(h)
    BY <2>5, <2>6
  <2> HIDE DEF Fine
  <2>8. Fine(ManualHandler(j))
    BY <1>3, <2>1, <2>7
  <2> QED
    BY <2>8 DEF Fine
<1> QED
  BY <1>1, <1>12, <1>13, <1>14, <1>15, <1>16, <1>17, <1>18 DEF ManualJobs

\* A step of the queue that brings no news to task, candidate and verdict.
LEMMA ManualJobStep ==
  ASSUME ManualInv, UNCHANGED <<workflow, state, verdict>>,
         phase' \in [ManualJobs -> Phases], passed' \in [ManualJobs -> BOOLEAN], Kept,
         \A j \in ManualJobs : phase[j] # "absent" => phase'[j] # "absent",
         \A j \in ManualJobs : phase[j] = "over" => phase'[j] = "over",
         Holds(unadvanced', calls', ManualOps', Succ'), ManualOrder', Chain'
  PROVE  ManualInv'
<1>1. Won(MAdjudicate) => Won(MAdjudicate)'
  BY ManualNames DEF Kept, Won
<1>2. Sound' => Sound
  BY ManualNames DEF Kept, Lost, Sound
<1>3. Together'
  BY <1>1, <1>2 DEF ManualInv, Together
<1>4. VerdictTrue'
  BY ManualNames DEF ManualInv, VerdictTrue, Kept
<1> QED
  BY <1>3, <1>4 DEF ManualInv, Members

LEMMA SuccGrows ==
  ASSUME workflow = "manual_candidate", workflow' = workflow, Kept
  PROVE  Succ \subseteq Succ'
BY DEF Succ, MyJobs, JobsOf, Kept

LEMMA ManualHoldsGrow ==
  ASSUME workflow = "manual_candidate", workflow' = workflow, Kept, NEW u, NEW c,
         Holds(u, c, ManualOps, Succ)
  PROVE  Holds(u, c, ManualOps', Succ')
BY ManualOpsGrow, SuccGrows, HoldsMore

\* What an operation at the head of a request may be.
LEMMA ManualHead ==
  ASSUME ManualInv, NEW k \in Call, calls[k].todo # <<>>
  PROVE  /\ Next1(k) \in ManualOps
         /\ Next1(k) \in Asked(MCand) => verdict # "none"
         /\ Next1(k) \in Asked(Task) => state[MCand] \in AskedOrPast
<1>1. Holds(unadvanced, calls, ManualOps, Succ) /\ calls[k].todo \in Seq(ManualOps)
  BY DEF ManualInv, Holds, Row
<1>2. Next1(k) \in ManualOps
  BY <1>1, HeadHolds
<1>3. ASSUME NEW A, NEW B, AllBefore(calls, A, B) PROVE Next1(k) \notin B
  BY <1>1, <1>3, HeadBefore DEF AllBefore, Next1
<1> QED
  BY <1>2, <1>3 DEF ManualInv, ManualOrder

\* A task or a candidate is moved.
LEMMA ManualMove ==
  ASSUME ManualInv, NEW k \in Call, Move(k), UNCHANGED OnlyBase
  PROVE  ManualInv'
<1> DEFINE o == Next1(k)
<1>1. /\ Holds(unadvanced, calls, ManualOps, Succ) /\ calls[k].todo # <<>> /\ o.do = "move"
      /\ UNCHANGED <<workflow, phase, passed, unadvanced, verdict>> /\ unadvanced \in Seq(Succ)
  BY DEF ManualInv, Holds, Move, Now, OnlyBase, manualVars
<1>2. /\ o \in ManualOps /\ o.who \in {Task, MCand} /\ o.to \in ManualTargets
      /\ o = Op(o.do, o.who, o.to)
      /\ o.to = "rejected" => Lost(MCorrectness) \/ Lost(MAdjudicate)
      /\ o.to = "awaiting_signoff" => Won(MAdjudicate)
      /\ o \in Asked(MCand) => verdict # "none"
      /\ o \in Asked(Task) => state[MCand] \in AskedOrPast
      /\ o # Do("verdict", MAdjudicate)
  BY <1>1, ManualHead, ManualOpIs DEF Do, Op
<1>3. CASE Raise(k) /\ UNCHANGED state
  <2>1. Holds(unadvanced', calls', ManualOps, Succ)
    BY <1>1, <1>3, ResetHolds DEF Raise
  <2>2. \A A, B : AllBefore(calls, A, B) => AllBefore(calls', A, B)
    BY <1>1, <1>3, PlainOrder
  <2>3. ManualOrder'
    BY <1>1, <1>3, <2>2 DEF ManualInv, ManualOrder
  <2> QED
    BY <1>1, <1>3, <2>1, <2>3, ManualQuiet
<1>4. CASE /\ o.to \in Moves(o.who) /\ state' = [state EXCEPT ![o.who] = o.to] /\ Skip(k)
  <2>1. Holds(unadvanced', calls', ManualOps, Succ)
    BY <1>1, <1>4, SkipHolds
  <2>2. ManualOps' = ManualOps /\ Succ' = Succ
    BY <1>1 DEF ManualOps, Due, Won, Lost, Succ, MyJobs
  <2>3. /\ Task \in DOMAIN state /\ MCand \in DOMAIN state /\ MCand # Task
        /\ DOMAIN state' = DOMAIN state
    <3>1. MCand \in Members
      BY CandidatesAssumption DEF Members, MCand
    <3> QED
      BY <1>4, <3>1, ManualNames DEF ManualInv
  <2>4. verdict # "none" \/ AllBefore(calls', {Do("verdict", MAdjudicate)}, Asked(MCand))
    BY <1>1, <1>2, <1>4, SkipOrder DEF ManualInv, ManualOrder
  <2>5. CASE o.who = MCand
    <3>1. /\ state'[MCand] = o.to /\ state'[Task] = state[Task]
          /\ o.to \in CandidateMoves(state[MCand])
      BY <1>4, <2>3, <2>5 DEF Moves
    <3>2. /\ state[MCand] \notin CandEnds /\ state[MCand] # "absent"
          /\ o.to # "accepted" /\ o.to # "absent" /\ o.to # "build_failed"
          /\ state[MCand] = "awaiting_signoff" => o.to = "rejected"
      BY <1>2, <3>1 DEF CandidateMoves, CandEnds, ManualTargets
    <3>3. o.to = "rejected" => ~ Sound
      BY <1>2 DEF Sound
    <3>4. state'[MCand] \in AskedOrPast \/ AllBefore(calls', Asked(MCand), Asked(Task))
      <4>1. CASE o.to = "awaiting_signoff"
        BY <3>1, <4>1 DEF AskedOrPast
      <4>2. CASE o.to # "awaiting_signoff" /\ state[MCand] \notin AskedOrPast
        <5>1. o \notin Asked(MCand)
          BY <4>2 DEF Asked, Op
        <5> QED
          BY <1>1, <1>4, <4>2, <5>1, SkipOrder DEF ManualInv, ManualOrder
      <4>3. CASE state[MCand] \in AskedOrPast
        BY <3>1, <3>2, <4>3 DEF AskedOrPast, CandEnds
      <4> QED
        BY <4>1, <4>2, <4>3
    <3>5. Chain' /\ VerdictTrue'
      <4>1. o.to = "awaiting_signoff" => verdict # "none"
        BY <1>1, <1>2, <2>5 DEF Asked
      <4> QED
        BY <1>1, <3>1, <3>2, <4>1 DEF ManualInv, Chain, VerdictTrue, Won
    <3>6. Together'
      <4>1. state[Task] = "awaiting_signoff" => Sound
        BY DEF ManualInv, Together, Chain, Sound, Won, Lost, ManualJobs
      <4>2. Sound' = Sound /\ Won(MAdjudicate)' = Won(MAdjudicate)
        BY <1>1 DEF Sound, Won, Lost
      <4>3. o.to \in CandEnds => o.to = "rejected"
        BY <3>2 DEF CandEnds
      <4>4. state[Task] # "awaiting_signoff"
        BY <3>2, <3>3, <4>1 DEF ManualInv, Together
      <4> QED
        BY <3>1, <3>2, <3>3, <4>2, <4>3, <4>4 DEF ManualInv, Together, CandEnds
    <3> QED
      BY <1>1, <2>1, <2>2, <2>3, <2>4, <3>4, <3>5, <3>6 DEF ManualInv, ManualOrder, Members
  <2>6. CASE o.who = Task
    <3>1. /\ state'[Task] = o.to /\ state'[MCand] = state[MCand]
          /\ o.to \in TaskMoves(state[Task])
      BY <1>4, <2>3, <2>6 DEF Moves
    <3>2. state[Task] \notin {"completed", "rejected"} /\ o.to # "completed"
      BY <1>2, <3>1 DEF TaskMoves, ManualTargets
    <3>3. state[MCand] \in AskedOrPast \/ AllBefore(calls', Asked(MCand), Asked(Task))
      <4>1. o \notin Asked(MCand)
        BY <2>3, <2>6 DEF Asked, Op
      <4> QED
        BY <1>1, <1>4, <4>1, SkipOrder DEF ManualInv, ManualOrder
    <3>4. Chain' /\ VerdictTrue'
      BY <1>1, <3>1 DEF ManualInv, Chain, VerdictTrue, Won
    <3>5. Together'
      <4>1. Sound' = Sound /\ Won(MAdjudicate)' = Won(MAdjudicate)
        BY <1>1 DEF Sound, Won, Lost
      <4>2. o.to = "rejected" => ~ Sound
        BY <1>2 DEF Sound
      <4>3. Won(MAdjudicate) => Sound
        BY DEF ManualInv, Chain, Sound, Won, Lost, ManualJobs
      <4>4. Sound => state[MCand] \notin CandEnds
        BY <3>2 DEF ManualInv, Together
      <4>5. o.to = "awaiting_signoff" => Won(MAdjudicate) /\ state[MCand] = "awaiting_signoff"
        BY <1>1, <1>2, <2>6, <4>3, <4>4 DEF AskedOrPast, CandEnds, Asked
      <4>6. state[MCand] # "accepted"
        BY <3>2 DEF ManualInv, Together
      <4> QED
        BY <3>1, <3>2, <4>1, <4>2, <4>4, <4>5, <4>6 DEF Together
    <3> QED
      BY <1>1, <2>1, <2>2, <2>3, <2>4, <3>1, <3>3, <3>4, <3>5 DEF ManualInv, ManualOrder, Members
  <2> QED
    BY <1>2, <2>5, <2>6
<1> QED
  BY <1>3, <1>4 DEF Move

LEMMA ManualServe ==
  ASSUME ManualInv, NEW k \in Call, Serve(k)
  PROVE  ManualInv'
<1> DEFINE o == Next1(k)
           V == {Do("verdict", MAdjudicate)}
<1>1. /\ workflow = "manual_candidate" /\ MyJobs = ManualJobs
      /\ Holds(unadvanced, calls, ManualOps, Succ) /\ unadvanced \in Seq(Succ)
      /\ phase \in [ManualJobs -> Phases] /\ passed \in [ManualJobs -> BOOLEAN]
      /\ ManualOrder
  BY ManualIs DEF ManualInv, Holds
<1>2. ASSUME calls[k].todo # <<>>
      PROVE  /\ o \in ManualOps /\ o.do \in {"ensure", "move", "enqueue", "verdict", "mark"}
             /\ o \in Asked(MCand) => verdict # "none"
             /\ o \in Asked(Task) => state[MCand] \in AskedOrPast
             /\ o.do # "verdict" => o \notin V
             /\ o.do \notin {"ensure", "move"} => o \notin Asked(MCand) /\ o \notin Asked(Task)
  <2>1. /\ o \in ManualOps
        /\ o \in Asked(MCand) => verdict # "none"
        /\ o \in Asked(Task) => state[MCand] \in AskedOrPast
    BY <1>2, ManualHead
  <2> QED
    BY <1>2, <2>1, ManualOpIs DEF Asked, Do, Op
\* The request goes on, in order, and nothing else moves.
<1>3. ASSUME UNCHANGED <<workflow, phase, passed, state, verdict>>,
             Holds(unadvanced', calls', ManualOps, Succ),
             verdict = "none" => AllBefore(calls', V, Asked(MCand)),
             state[MCand] \notin AskedOrPast => AllBefore(calls', Asked(MCand), Asked(Task))
      PROVE  ManualInv'
  BY <1>3, ManualQuiet DEF ManualOrder
<1>4. ASSUME NEW h, h = Handler(Head(calls[k].queue)), calls[k].queue # <<>>, Turn(k, h),
             UNCHANGED OnlyBase
      PROVE  ManualInv'
  <2>1. Head(calls[k].queue) \in Succ
    BY <1>1, <1>4, HeadHolds
  <2>2. /\ h \in Seq(ManualOps) /\ Before(h, V, Asked(MCand)) /\ Before(h, Asked(MCand), Asked(Task))
    BY <1>1, <1>4, <2>1, ManualHandlerDue DEF Handler
  <2>3. Holds(unadvanced', calls', ManualOps, Succ)
    BY <1>1, <1>4, <2>2, TurnHolds
  <2>4. /\ verdict = "none" => AllBefore(calls', V, Asked(MCand))
        /\ state[MCand] \notin AskedOrPast => AllBefore(calls', Asked(MCand), Asked(Task))
    BY <1>1, <1>4, <2>2, TurnOrder DEF ManualOrder
  <2> QED
    BY <1>3, <1>4, <2>3, <2>4 DEF Turn, OnlyBase, manualVars
<1>5. ASSUME MarkAdvanced(k) \/ Return(k), UNCHANGED OnlyBase PROVE ManualInv'
  <2>1. Holds(unadvanced', calls', ManualOps, Succ)
    BY <1>1, <1>5, PlainRequests
  <2>2. MarkAdvanced(k) => o \notin V /\ o \notin Asked(MCand)
    BY <1>2 DEF MarkAdvanced, Now
  <2>3. /\ verdict = "none" => AllBefore(calls', V, Asked(MCand))
        /\ state[MCand] \notin AskedOrPast => AllBefore(calls', Asked(MCand), Asked(Task))
    BY <1>1, <1>5, <2>2, PlainOrder DEF ManualOrder
  <2> QED
    BY <1>3, <1>5, <2>1, <2>3 DEF MarkAdvanced, Return, OnlyBase, manualVars
<1>6. ASSUME EnsureState(k), UNCHANGED OnlyBase PROVE ManualInv'
  <2> DEFINE r == ManualMoves(o.who, o.to)
             m == MoveTo(o.who, o.to)
  <2>1. /\ calls[k].todo # <<>> /\ o.do = "ensure" /\ Replace(k, r)
        /\ UNCHANGED <<workflow, phase, passed, state, unadvanced, verdict>>
    BY <1>1, <1>6 DEF EnsureState, Now, MovesTo, OnlyBase, manualVars
  <2>2. o \in ManualOps /\ o.who \in {Task, MCand} /\ o = Op("ensure", o.who, o.to)
    BY <1>2, <2>1, ManualOpIs DEF Op, Do
  <2>3. /\ m \in ManualOps
        /\ m \in Asked(MCand) <=> o \in Asked(MCand)
        /\ m \in Asked(Task) <=> o \in Asked(Task)
    BY <2>1, <2>2, MoveDue
  <2>4. /\ r \in {<<>>, <<m>>}
        /\ o.who = MCand /\ o.to = "awaiting_signoff" /\ r = <<>> => state[MCand] \in AskedOrPast
    BY <2>2, NothingToMove
  <2>5. o \in Asked(MCand) /\ state[MCand] \notin AskedOrPast => r = <<m>>
    <3>1. ASSUME o \in Asked(MCand) PROVE o.who = MCand /\ o.to = "awaiting_signoff"
      BY <3>1 DEF Asked, Op
    <3> QED
      BY <2>4, <3>1
  <2> HIDE DEF r, m
  <2>6. r \in Seq(ManualOps) /\ Holds(unadvanced', calls', ManualOps, Succ)
    <3>1. <<>> \in Seq(ManualOps) /\ <<m>> \in Seq(ManualOps)
      BY <2>3, EmptySeq
    <3> QED
      BY <1>1, <2>1, <2>4, <3>1, ReplaceHolds
  <2>7. ASSUME verdict = "none" PROVE AllBefore(calls', V, Asked(MCand))
    <3>1. o \notin V /\ o \notin Asked(MCand)
      BY <1>2, <2>1, <2>7
    <3>2. Before(r, V, Asked(MCand))
      BY <2>3, <2>4, <3>1 DEF Before
    <3> QED
      BY <1>1, <2>1, <2>6, <2>7, <3>1, <3>2, ReplaceOrder DEF ManualOrder
  <2>8. ASSUME state[MCand] \notin AskedOrPast PROVE AllBefore(calls', Asked(MCand), Asked(Task))
    <3>1. Before(r, Asked(MCand), Asked(Task))
      BY <1>2, <2>1, <2>3, <2>4, <2>8 DEF Before
    <3>2. o \in Asked(MCand) => \E i \in DOMAIN r : r[i] \in Asked(MCand)
      BY <2>3, <2>5, <2>8
    <3> QED
      BY <1>1, <2>1, <2>6, <2>8, <3>1, <3>2, ReplaceOrder DEF ManualOrder
  <2> QED
    BY <1>3, <2>1, <2>6, <2>7, <2>8
<1>7. ASSUME EnqueueOne(k), UNCHANGED OnlyBase PROVE ManualInv'
  <2>1. /\ calls[k].todo # <<>> /\ o.do = "enqueue" /\ Skip(k)
        /\ phase' = [phase EXCEPT ![o.who] = IF @ = "absent" THEN "queued" ELSE @]
        /\ UNCHANGED <<workflow, passed, state, unadvanced, verdict>>
    BY <1>7 DEF EnqueueOne, Now, OnlyBase, manualVars
  <2>2. /\ o.who \in {MCorrectness, MPerformance, MAdjudicate}
        /\ o.who = MCorrectness => phase[MBuild] = "succeeded"
        /\ o.who = MPerformance => Won(MCorrectness)
        /\ o.who = MAdjudicate => phase[MPerformance] = "succeeded"
        /\ o \notin V /\ o \notin Asked(MCand)
    BY <1>2, <2>1, ManualOpIs DEF Do, Op
  <2>3. \A j \in ManualJobs : phase'[j] = IF j = o.who /\ phase[j] = "absent" THEN "queued" ELSE phase[j]
    BY <1>1, <2>1
  <2>4. /\ phase' \in [ManualJobs -> Phases] /\ passed' \in [ManualJobs -> BOOLEAN] /\ Kept
        /\ \A j \in ManualJobs : phase[j] # "absent" => phase'[j] # "absent"
        /\ \A j \in ManualJobs : phase[j] = "over" => phase'[j] = "over"
    <3>1. phase' \in [ManualJobs -> Phases]
      BY <1>1, <2>1 DEF Phases
    <3> QED
      BY <1>1, <2>1, <2>3, <3>1 DEF Kept
  <2>5. Holds(unadvanced', calls', ManualOps', Succ')
    BY <1>1, <2>1, <2>4, SkipHolds, ManualHoldsGrow
  <2>6. ManualOrder'
    <3>1. /\ verdict = "none" => AllBefore(calls', V, Asked(MCand))
          /\ state[MCand] \notin AskedOrPast => AllBefore(calls', Asked(MCand), Asked(Task))
      BY <1>1, <2>1, <2>2, SkipOrder DEF ManualOrder
    <3> QED
      BY <2>1, <3>1 DEF ManualOrder
  <2>7. Chain'
    BY <2>1, <2>2, <2>3, <2>4, ManualNames DEF ManualInv, Chain, Won, Kept
  <2> QED
    BY <2>1, <2>4, <2>5, <2>6, <2>7, ManualJobStep
<1>8. ASSUME SetVerdict(k), UNCHANGED ButManual PROVE ManualInv'
  <2> DEFINE v == IF passed[MAdjudicate] THEN "valid" ELSE "invalid"
  <2>1. /\ calls[k].todo # <<>> /\ o.do = "verdict"
        /\ UNCHANGED <<workflow, phase, passed, state, unadvanced>>
    BY <1>8 DEF SetVerdict, Now, ButManual
  <2>2. o.who = MAdjudicate /\ phase[MAdjudicate] = "succeeded" /\ o \notin Asked(MCand)
    BY <1>2, <2>1, ManualOpIs DEF Op, Do
  <2>3. verdict \in {"none", v}
    BY DEF ManualInv, VerdictTrue
  <2>4. verdict' = v /\ Skip(k)
    BY <1>8, <2>2, <2>3 DEF SetVerdict
  <2>5. Holds(unadvanced', calls', ManualOps, Succ)
    BY <1>1, <2>1, <2>4, SkipHolds
  <2>6. ManualOrder'
    <3>1. state[MCand] \notin AskedOrPast => AllBefore(calls', Asked(MCand), Asked(Task))
      BY <1>1, <2>1, <2>2, <2>4, SkipOrder DEF ManualOrder
    <3>2. verdict' # "none"
      BY <2>4
    <3> QED
      BY <2>1, <3>1, <3>2 DEF ManualOrder
  <2>7. VerdictTrue'
    BY <2>1, <2>2, <2>4 DEF VerdictTrue
  <2>8. ManualOps' = ManualOps /\ Succ' = Succ
    BY <2>1 DEF ManualOps, Due, Won, Lost, Succ, MyJobs
  <2> QED
    BY <2>1, <2>5, <2>6, <2>7, <2>8
       DEF ManualInv, Members, Chain, Together, Sound, Won, Lost
<1> QED
  BY <1>2, <1>4, <1>5, <1>6, <1>7, <1>8, ManualMove
     DEF Serve, Now, ReadAgain, CreateCandidates, MaybeFinishRound, CreateNoopCandidate,
         ExecuteFramework, RecordEvidence, JudgeSmoke, RecordProbe, FinalizeStage0,
         RecordEndpoint, RecordAdjudication

LEMMA ManualStep == ManualInv /\ [RouterNext]_vars => ManualInv'
<1> SUFFICES ASSUME ManualInv, [RouterNext]_vars PROVE ManualInv'
  OBVIOUS
<1> DEFINE V == {Do("verdict", MAdjudicate)}
<1>1. /\ workflow = "manual_candidate" /\ MyJobs = ManualJobs
      /\ Holds(unadvanced, calls, ManualOps, Succ) /\ unadvanced \in Seq(Succ)
      /\ phase \in [ManualJobs -> Phases] /\ passed \in [ManualJobs -> BOOLEAN]
      /\ ManualOrder /\ Task \in DOMAIN state /\ MCand \in DOMAIN state /\ MCand # Task
  BY ManualIs, ManualNames, CandidatesAssumption DEF ManualInv, Holds, Members, MCand
\* Requests start, end, or end a job; their order is no matter.
<1>2. ASSUME NEW k \in Call, UNCHANGED <<workflow, state, verdict>>,
             \/ Reconcile(k) \/ Crash(k)
             \/ \E j \in MyJobs : ClaimJob(k, j) \/ \E ok \in BOOLEAN : CompleteJob(k, j, ok)
      PROVE  ManualOrder'
  <2>1. \A A, B : AllBefore(calls, A, B) => AllBefore(calls', A, B)
    BY <1>1, <1>2, PlainOrder
  <2> QED
    BY <1>1, <1>2, <2>1 DEF ManualOrder
\* A job that is not through yet changes its state.
<1>3. ASSUME NEW j \in ManualJobs, phase[j] \in {"queued", "running"}, NEW p \in Phases \ {"absent"},
             phase' = [phase EXCEPT ![j] = p], \A i \in ManualJobs \ {j} : passed'[i] = passed[i],
             workflow' = workflow, state'[MCand] = state[MCand] \/ state'[MCand] # "absent"
      PROVE  /\ phase' \in [ManualJobs -> Phases] /\ Kept /\ Chain'
             /\ \A i \in ManualJobs : phase[i] # "absent" => phase'[i] # "absent"
             /\ \A i \in ManualJobs : phase[i] = "over" => phase'[i] = "over"
             /\ Succ \subseteq Succ'
             /\ p = "succeeded" => j \in Succ'
  <2>1. /\ phase' \in [ManualJobs -> Phases] /\ phase'[j] = p
        /\ \A i \in ManualJobs \ {j} : phase'[i] = phase[i]
    BY <1>1, <1>3
  <2>2. Kept
    BY <1>3, <2>1 DEF Kept
  <2>3. \A i \in ManualJobs : phase'[i] # "absent" => phase[i] # "absent"
    BY <1>3, <2>1
  <2>4. Chain'
    BY <1>3, <2>2, <2>3, ManualNames DEF ManualInv, Chain, Kept, Won
  <2>5. p = "succeeded" => j \in Succ'
    BY <1>1, <1>3, <2>1 DEF Succ, MyJobs
  <2> QED
    BY <1>1, <1>3, <2>1, <2>2, <2>4, <2>5, SuccGrows
<1>4. ASSUME NEW k \in Call, Poll(k) \/ Die(k) PROVE ManualInv'
  <2>1. Holds(unadvanced', calls', ManualOps, Succ)
    BY <1>1, <1>4, PlainRequests DEF Poll, Die
  <2>2. UNCHANGED <<workflow, phase, passed, state, verdict>>
    BY <1>4 DEF Poll, Die, Reconcile, Crash, OnlyBase, manualVars
  <2>3. ManualOrder'
    BY <1>2, <1>4, <2>2 DEF Poll, Die
  <2> QED
    BY <2>1, <2>2, <2>3, ManualQuiet
<1>5. ASSUME NEW k \in Call, NEW j \in MyJobs, Claim(k, j) PROVE ManualInv'
  <2>1. /\ ClaimJob(k, j) /\ UNCHANGED <<state, verdict, workflow, passed>>
        /\ phase[j] = "queued" /\ phase' = [phase EXCEPT ![j] = "running"]
    BY <1>5 DEF Claim, ClaimJob, ButEndpoint, manualVars
  <2>2. /\ phase' \in [ManualJobs -> Phases] /\ Kept /\ Chain'
        /\ \A i \in ManualJobs : phase[i] # "absent" => phase'[i] # "absent"
        /\ \A i \in ManualJobs : phase[i] = "over" => phase'[i] = "over"
    BY <1>1, <1>3, <2>1 DEF Phases
  <2>3. Holds(unadvanced', calls', ManualOps', Succ')
    BY <1>1, <2>1, <2>2, PlainRequests, ManualHoldsGrow
  <2>4. ManualOrder'
    BY <1>2, <2>1
  <2> QED
    BY <1>1, <2>1, <2>2, <2>3, <2>4, ManualJobStep
<1>6. ASSUME NEW k \in Call, NEW j \in MyJobs, Complete(k, j) PROVE ManualInv'
  <2>1. PICK ok \in BOOLEAN : CompleteJob(k, j, ok)
    BY <1>6 DEF Complete
  <2>2. /\ UNCHANGED <<state, verdict, workflow>> /\ phase[j] = "running"
        /\ phase' = [phase EXCEPT ![j] = "succeeded"] /\ passed' = [passed EXCEPT ![j] = ok]
    BY <1>6, <2>1 DEF Complete, CompleteJob, OnlyBase, manualVars
  <2>3. /\ passed' \in [ManualJobs -> BOOLEAN]
        /\ \A i \in ManualJobs \ {j} : passed'[i] = passed[i]
    BY <1>1, <2>2
  <2>4. /\ phase' \in [ManualJobs -> Phases] /\ Kept /\ Chain' /\ j \in Succ'
        /\ \A i \in ManualJobs : phase[i] # "absent" => phase'[i] # "absent"
        /\ \A i \in ManualJobs : phase[i] = "over" => phase'[i] = "over"
    BY <1>1, <1>3, <2>2, <2>3 DEF Phases
  <2>5. Holds(unadvanced, calls, ManualOps', Succ')
    BY <1>1, <2>2, <2>4, ManualHoldsGrow
  <2>6. Holds(unadvanced', calls', ManualOps', Succ')
    BY <2>1, <2>4, <2>5, CompleteHolds
  <2>7. ManualOrder'
    BY <1>2, <2>1, <2>2
  <2> QED
    BY <2>2, <2>3, <2>4, <2>6, <2>7, ManualJobStep
<1>7. ASSUME NEW j \in MyJobs, Fail(j) PROVE ManualInv'
  <2> DEFINE target == IF j = MBuild THEN "build_failed" ELSE "rejected"
             settled == state[Task] \in {"rejected", "cancelled", "completed"}
             keep == state[MCand] \in {"build_failed", "rejected", "accepted"}
  <2>1. /\ phase[j] = "running" /\ phase' = [phase EXCEPT ![j] = "over"]
        /\ state' = [state EXCEPT ![Task] = IF settled THEN @ ELSE "rejected",
                                  ![MCand] = IF keep THEN @ ELSE target]
        /\ UNCHANGED <<workflow, passed, unadvanced, calls, verdict>>
        /\ settled \/ "rejected" \in Moves(Task)
    BY <1>1, <1>7, ManualIs DEF Fail, FailManualJob, ButManual, manualVars
  <2>2. /\ state'[Task] = IF settled THEN state[Task] ELSE "rejected"
        /\ state'[MCand] = IF keep THEN state[MCand] ELSE target
        /\ DOMAIN state' = DOMAIN state
    BY <1>1, <2>1
  <2>3. /\ phase' \in [ManualJobs -> Phases] /\ Kept /\ Chain'
        /\ \A i \in ManualJobs : phase[i] = "over" => phase'[i] = "over"
    BY <1>1, <1>3, <2>1, <2>2 DEF Phases
  <2>4. Holds(unadvanced', calls', ManualOps', Succ')
    BY <1>1, <2>1, <2>3, ManualHoldsGrow
  <2>5. ManualOrder'
    BY <1>1, <2>1, <2>2 DEF ManualOrder, AskedOrPast
  <2>6. ~ Sound'
    BY <1>1, <2>1 DEF Sound
  <2>7. state[Task] # "awaiting_signoff" /\ state'[Task] # "awaiting_signoff"
    <3>1. state[Task] # "awaiting_signoff"
      BY <1>1, <2>1 DEF ManualInv, Together, Chain, Won, ManualJobs
    <3> QED
      BY <2>2, <3>1
  <2>8. Together'
    <3>1. state'[Task] = "completed" <=> state[Task] = "completed"
      BY <2>2
    <3>2. state'[MCand] = "accepted" <=> state[MCand] = "accepted"
      BY <2>2
    <3> QED
      BY <2>6, <2>7, <3>1, <3>2 DEF ManualInv, Together
  <2>9. VerdictTrue'
    BY <2>1, <2>2, <2>3, ManualNames DEF ManualInv, VerdictTrue, Kept
  <2> QED
    BY <1>1, <2>1, <2>2, <2>3, <2>4, <2>5, <2>8, <2>9 DEF ManualInv, Members
<1>8. ASSUME Operator PROVE ManualInv'
  <2>1. CASE CreateManualCandidate /\ UNCHANGED ButManual
    <3>1. /\ state[Task] = "manual_candidate_pending" /\ state[MCand] = "absent"
          /\ state'[Task] = "manual_building" /\ state'[MCand] = "building"
          /\ DOMAIN state' = DOMAIN state
          /\ phase' = [phase EXCEPT ![MBuild] = "queued"]
          /\ UNCHANGED <<workflow, passed, unadvanced, calls, verdict>>
      BY <1>1, <2>1 DEF CreateManualCandidate, ButManual, manualVars
    <3>2. phase[MBuild] = "absent"
      BY <3>1 DEF ManualInv, Chain
    <3>3. /\ phase' \in [ManualJobs -> Phases] /\ phase'[MBuild] = "queued"
          /\ \A i \in ManualJobs \ {MBuild} : phase'[i] = phase[i]
      BY <1>1, <3>1, ManualNames DEF Phases
    <3>4. Kept
      BY <3>1, <3>2, <3>3 DEF Kept
    <3>5. Chain' /\ VerdictTrue'
      BY <3>1, <3>2, <3>3, ManualNames DEF ManualInv, Chain, VerdictTrue, Won
    <3>6. Together'
      BY <3>1 DEF Together, CandEnds
    <3>7. Holds(unadvanced', calls', ManualOps', Succ')
      BY <1>1, <3>1, <3>4, ManualHoldsGrow
    <3>8. ManualOrder'
      BY <1>1, <3>1 DEF ManualOrder, AskedOrPast
    <3> QED
      BY <1>1, <3>1, <3>3, <3>5, <3>6, <3>7, <3>8 DEF ManualInv, Members
  <2>2. ASSUME NEW b \in BOOLEAN, SignoffManual(b), UNCHANGED ButManual PROVE ManualInv'
    <3>1. /\ state[Task] = "awaiting_signoff" /\ state[MCand] = "awaiting_signoff"
          /\ state'[Task] = IF b THEN "completed" ELSE "rejected"
          /\ state'[MCand] = IF b THEN "accepted" ELSE "rejected"
          /\ DOMAIN state' = DOMAIN state
          /\ UNCHANGED <<workflow, phase, passed, unadvanced, calls, verdict>>
      BY <1>1, <2>2 DEF SignoffManual, ButManual
    <3>2. ManualOps' = ManualOps /\ Succ' = Succ
      BY <3>1 DEF ManualOps, Due, Won, Lost, Succ, MyJobs
    <3>3. Chain' /\ VerdictTrue' /\ Together' /\ ManualOrder'
      BY <1>1, <3>1 DEF ManualInv, Chain, VerdictTrue, Won, Together, ManualOrder, AskedOrPast
    <3> QED
      BY <1>1, <3>1, <3>2, <3>3 DEF ManualInv, Members
  <2>3. ASSUME NEW j \in MyJobs, CancelJob(j), UNCHANGED endpointVars, UNCHANGED ButEndpoint
        PROVE  ManualInv'
    <3>1. /\ phase[j] \in {"queued", "running"} /\ phase' = [phase EXCEPT ![j] = "over"]
          /\ UNCHANGED <<workflow, passed, state, unadvanced, calls, verdict>>
      BY <2>3 DEF CancelJob, ButEndpoint, manualVars
    <3>2. /\ phase' \in [ManualJobs -> Phases] /\ Kept /\ Chain'
          /\ \A i \in ManualJobs : phase[i] # "absent" => phase'[i] # "absent"
          /\ \A i \in ManualJobs : phase[i] = "over" => phase'[i] = "over"
      BY <1>1, <1>3, <3>1 DEF Phases
    <3>3. Holds(unadvanced', calls', ManualOps', Succ') /\ ManualOrder'
      BY <1>1, <3>1, <3>2, ManualHoldsGrow DEF ManualOrder
    <3> QED
      BY <1>1, <3>1, <3>2, <3>3, ManualJobStep
  <2>4. MyJobs \cap EndpointJobs = {}
    BY <1>1 DEF ManualJobs, MBuild, MCorrectness, MPerformance, MAdjudicate, EndpointJobs,
                MeasureJobs, Measure, Adjudicate
  <2> QED
    BY <1>1, <1>8, <2>1, <2>2, <2>3, <2>4 DEF Operator
<1>9. CASE UNCHANGED vars
  <2>1. UNCHANGED <<workflow, phase, passed, unadvanced, calls, state, verdict>>
    BY <1>9 DEF vars, base, manualVars
  <2> QED
    BY <1>1, <2>1, ManualQuiet DEF ManualOrder
<1> QED
  BY <1>4, <1>5, <1>6, <1>7, <1>8, <1>9, ManualServe DEF RouterNext

LEMMA InitOrder == ASSUME RouterInit, NEW A, NEW B PROVE AllBefore(calls, A, B)
BY EmptyBefore DEF RouterInit, AllBefore, Idle

LEMMA ManualInit == RouterInit /\ workflow = "manual_candidate" => ManualInv
<1> SUFFICES ASSUME RouterInit, workflow = "manual_candidate" PROVE ManualInv
  OBVIOUS
<1>1. MyJobs = ManualJobs /\ Holds(unadvanced, calls, ManualOps, Succ) /\ ManualOrder
  BY ManualIs, InitHolds, InitOrder DEF ManualOrder
<1>2. Prepare \notin ManualJobs /\ ManualJobs \cap ProbeJobs = {}
  BY DEF ManualJobs, MBuild, MCorrectness, MPerformance, MAdjudicate, Prepare, ProbeJobs, Probe
<1>3. phase = [j \in ManualJobs |-> "absent"] /\ passed = [j \in ManualJobs |-> FALSE]
  BY <1>1, <1>2 DEF RouterInit
<1>4. MCand \in Members /\ MCand # Task
  BY ManualNames, CandidatesAssumption DEF Members, MCand
<1>5. /\ DOMAIN state = {Task} \cup Members
      /\ state[Task] = "manual_candidate_pending" /\ state[MCand] = "absent" /\ verdict = "none"
  BY <1>4 DEF RouterInit, ManualStart
<1>6. Chain /\ VerdictTrue /\ Together
  BY <1>3, <1>5, ManualNames DEF Chain, VerdictTrue, Together, CandEnds
<1>7. phase \in [ManualJobs -> Phases] /\ passed \in [ManualJobs -> BOOLEAN]
  BY <1>3 DEF Phases
<1> QED
  BY <1>1, <1>5, <1>6, <1>7 DEF ManualInv

\* The operator of an M1 task is asked only about a candidate that waits for
\* him and was adjudicated to be valid, and his decision reaches task and
\* candidate (_after_adjudication, signoff_manual_candidate_task and
\* _reject_manual_candidate_task_after_job_failure), for any number of
\* requests that advance the same jobs and whichever of them die.
THEOREM TaskAndCandidateStayTogether == RouterSpec => []TaskAndCandidateAgree
<1> DEFINE Inv == workflow = "manual_candidate" => ManualInv
<1>1. RouterInit => Inv
  BY ManualInit
<1>2. Inv /\ [RouterNext]_vars => Inv'
  <2> SUFFICES ASSUME Inv, [RouterNext]_vars PROVE Inv'
    OBVIOUS
  <2>1. workflow' = workflow
    BY WorkflowStays
  <2> QED
    BY <2>1, ManualStep
<1>3. Inv => TaskAndCandidateAgree
  BY DEF ManualInv, Together, VerdictTrue, Won, TaskAndCandidateAgree
<1> HIDE DEF Inv
<1> QED
  BY <1>1, <1>2, <1>3, PTL DEF RouterSpec

-----------------------------------------------------------------------------
(* Framework Smoke.                                                        *)

SmokeAll == {Prepare, Noop} \cup SmokeJobs

\* A run that has passed is on record.
Backed == \E i \in DOMAIN evidence : passed[Smoke(evidence[i])]

SmokeAsks == {Op(d, Task, "awaiting_signoff") : d \in {"ensure", "move"}}

SmokeOps ==
    {Op(d, e, s) : d \in {"ensure", "move"}, e \in {Task, Cand},
                   s \in {"building", "built", "artifact_preparing", "framework_smoke_passed",
                          "output_validating", "rejected"}}
    \cup {o \in SmokeAsks : Backed}
    \cup {Enqueue(Noop)} \cup {Do(what, j) : what \in {"create", "execute"}, j \in SmokeAll}
    \cup {Do(what, j) : what \in {"record", "judge"}, j \in SmokeJobs \cap Succ}
    \cup {Mark(j) : j \in SmokeAll}

OnRecord(r) == \E i \in DOMAIN evidence : evidence[i] = r

\* What is judged is on record, or will be before.
SmokeOrder ==
    \A r \in 0 .. MaxRetests :
        OnRecord(r) \/ AllBefore(calls, {Do("record", Smoke(r))}, {Do("judge", Smoke(r))})

Recorded ==
    /\ evidence \in Seq(0 .. MaxRetests)
    /\ \A i \in DOMAIN evidence : phase[Smoke(evidence[i])] = "succeeded"
    /\ \A i, k \in DOMAIN evidence : evidence[i] = evidence[k] => i = k

SmokeInv ==
    /\ workflow = "framework_smoke" /\ DOMAIN state = {Task} \cup Members
    /\ phase \in [SmokeAll -> Phases] /\ passed \in [SmokeAll -> BOOLEAN]
    /\ retests \in 0 .. MaxRetests
    /\ Holds(unadvanced, calls, SmokeOps, Succ)
    /\ SmokeOrder /\ Recorded
    /\ state[Task] \in {"awaiting_signoff", "completed"} => Backed

\* A result that is there stays as it is.
SmokeKept == \A j \in SmokeAll :
               phase[j] = "succeeded" => phase'[j] = "succeeded" /\ passed'[j] = passed[j]

LEMMA SmokeIs == workflow = "framework_smoke" => MyJobs = SmokeAll
BY DEF MyJobs, JobsOf, SmokeAll

LEMMA SmokeNames ==
  /\ Prepare \in SmokeAll /\ Noop \in SmokeAll /\ Prepare # Noop /\ Cand # Task
  /\ \A r \in 0 .. MaxRetests : Smoke(r) \in SmokeAll /\ Smoke(r) \in SmokeJobs
  /\ \A r : Smoke(r) # Prepare /\ Smoke(r) # Noop
  /\ \A r, s : Smoke(r) = Smoke(s) => r = s
  /\ \A j \in SmokeAll : j # Task /\ j # Cand
BY DEF SmokeAll, SmokeJobs, Prepare, Noop, Smoke, Cand, Candidate, Task

LEMMA SmokeOpIs ==
  ASSUME NEW o \in SmokeOps
  PROVE  \/ /\ o.do \in {"ensure", "move"} /\ o.who \in {Task, Cand}
            /\ o = Op(o.do, o.who, o.to) /\ o.to # "completed"
            /\ o.who = Task /\ o.to = "awaiting_signoff" => Backed
         \/ o.do = "enqueue" /\ o.who = Noop
         \/ o.do \in {"create", "execute"}
         \/ /\ o.do \in {"record", "judge"}
            /\ \E r \in 0 .. MaxRetests : o = Do(o.do, Smoke(r)) /\ Smoke(r) \in Succ
         \/ o.do = "mark"
BY DEF SmokeOps, SmokeAsks, SmokeJobs, Op, Do, Mark, Enqueue

LEMMA SmokeRunIs ==
  ASSUME NEW o \in SmokeOps, o.do \in {"record", "judge"}
  PROVE  \E r \in 0 .. MaxRetests :
            o = Do(o.do, Smoke(r)) /\ o.who = Smoke(r) /\ o.who[2] = r /\ Smoke(r) \in Succ
<1>1. PICK r \in 0 .. MaxRetests : o = Do(o.do, Smoke(r)) /\ Smoke(r) \in Succ
  BY SmokeOpIs
<1>2. o.who = Smoke(r)
  BY <1>1 DEF Do, Op
<1>3. Smoke(r)[2] = r
  BY DEF Smoke
<1> QED
  BY <1>1, <1>2, <1>3

LEMMA BackedGrows ==
  ASSUME Recorded, SmokeKept, Backed,
         evidence' = evidence \/ \E r : evidence' = Append(evidence, r)
  PROVE  Backed'
<1>1. PICK i \in DOMAIN evidence : passed[Smoke(evidence[i])]
  BY DEF Backed
<1>2. evidence[i] \in 0 .. MaxRetests /\ i \in DOMAIN evidence' /\ evidence'[i] = evidence[i]
  <2>1. evidence \in Seq(0 .. MaxRetests) /\ i \in 1 .. Len(evidence) /\ Len(evidence) \in Nat
    BY <1>1 DEF Recorded
  <2>2. evidence[i] \in 0 .. MaxRetests
    BY <2>1, ElementOfSeq
  <2>3. CASE evidence' = evidence
    BY <1>1, <2>2, <2>3
  <2>4. CASE \E r : evidence' = Append(evidence, r)
    BY <2>1, <2>2, <2>4
  <2> QED
    BY <2>3, <2>4
<1>3. passed'[Smoke(evidence[i])]
  BY <1>1, <1>2, SmokeNames DEF Recorded, SmokeKept
<1> QED
  BY <1>2, <1>3 DEF Backed

LEMMA SmokeHoldsGrow ==
  ASSUME SmokeInv, workflow' = workflow, SmokeKept,
         evidence' = evidence \/ \E r : evidence' = Append(evidence, r),
         NEW u, NEW c, Holds(u, c, SmokeOps, Succ)
  PROVE  Holds(u, c, SmokeOps', Succ') /\ Succ \subseteq Succ'
<1>1. Succ \subseteq Succ'
  BY SmokeIs DEF SmokeInv, Succ, MyJobs, SmokeKept
<1>2. Backed => Backed'
  BY BackedGrows DEF SmokeInv
<1>3. SmokeOps \subseteq SmokeOps'
  BY <1>1, <1>2 DEF SmokeOps
<1> QED
  BY <1>1, <1>3, HoldsMore

\* A step that writes no evidence.
LEMMA SmokeGoesOn ==
  ASSUME SmokeInv, UNCHANGED <<workflow, evidence>>,
         phase' \in [SmokeAll -> Phases], passed' \in [SmokeAll -> BOOLEAN], SmokeKept,
         retests' \in 0 .. MaxRetests, DOMAIN state' = DOMAIN state,
         state'[Task] \in {"awaiting_signoff", "completed"} => Backed,
         Holds(unadvanced', calls', SmokeOps', Succ'),
         \A r \in 0 .. MaxRetests :
            AllBefore(calls, {Do("record", Smoke(r))}, {Do("judge", Smoke(r))}) =>
               OnRecord(r) \/ AllBefore(calls', {Do("record", Smoke(r))}, {Do("judge", Smoke(r))})
  PROVE  SmokeInv'
<1>1. Backed => Backed'
  BY BackedGrows DEF SmokeInv
<1>2. Recorded'
  <2>1. \A i \in DOMAIN evidence : evidence[i] \in 0 .. MaxRetests
    <3>1. evidence \in Seq(0 .. MaxRetests) /\ DOMAIN evidence = 1 .. Len(evidence)
      BY LenProperties DEF SmokeInv, Recorded
    <3> QED
      BY <3>1, ElementOfSeq
  <2> QED
    BY <2>1, SmokeNames DEF SmokeInv, Recorded, SmokeKept
<1>3. SmokeOrder'
  BY DEF SmokeInv, SmokeOrder, OnRecord
<1> QED
  BY <1>1, <1>2, <1>3 DEF SmokeInv, Members

\* What a request may be asked to do next, and that it is neither recorded nor judged.
LEMMA SmokePlain ==
  ASSUME NEW e \in {Task, Cand},
         NEW s \in {"building", "built", "artifact_preparing", "framework_smoke_passed",
                    "output_validating", "rejected"},
         NEW j \in SmokeAll, NEW what \in {"create", "execute"}, NEW d \in {"ensure", "move"}
  PROVE  /\ Op(d, e, s) \in SmokeOps /\ Enqueue(Noop) \in SmokeOps /\ Do(what, j) \in SmokeOps
         /\ Mark(j) \in SmokeOps /\ (Backed => Op(d, Task, "awaiting_signoff") \in SmokeOps)
BY DEF SmokeOps, SmokeAsks, Ensure

LEMMA SmokeHandlerDue ==
  ASSUME SmokeInv, NEW j \in Succ
  PROVE  /\ SmokeHandler(j) \in Seq(SmokeOps)
         /\ \A r : Before(SmokeHandler(j), {Do("record", Smoke(r))}, {Do("judge", Smoke(r))})
<1>1. j \in SmokeAll
  BY SmokeIs DEF SmokeInv, Succ
<1>2. CASE state[Task] = "cancelled"
  <2>1. SmokeHandler(j) = <<Mark(j)>>
    BY <1>2 DEF SmokeHandler
  <2>2. Mark(j) \in SmokeOps
    BY <1>1, SmokePlain
  <2> QED
    BY <2>1, <2>2 DEF Before, Mark, Do, Op
<1>3. CASE state[Task] # "cancelled" /\ j = Prepare
  <2> DEFINE h == <<Do("create", j), Ensure(Cand, "building"),
                    Ensure(Task, "artifact_preparing"), Enqueue(Noop), Mark(j)>>
  <2>1. SmokeHandler(j) = h
    BY <1>3, SmokeNames DEF SmokeHandler
  <2>2. /\ Do("create", j) \in SmokeOps /\ Ensure(Cand, "building") \in SmokeOps
        /\ Ensure(Task, "artifact_preparing") \in SmokeOps /\ Enqueue(Noop) \in SmokeOps
        /\ Mark(j) \in SmokeOps
    BY <1>1, SmokePlain DEF Ensure
  <2>3. h \in Seq(SmokeOps)
    BY <2>2
  <2>4. \A r : Before(h, {Do("record", Smoke(r))}, {Do("judge", Smoke(r))})
    BY DEF Before, Do, Ensure, Enqueue, Mark, Op
  <2> QED
    BY <2>1, <2>3, <2>4
<1>4. CASE state[Task] # "cancelled" /\ j = Noop
  <2> DEFINE h == <<Ensure(Cand, "built"), Do("execute", j), Mark(j)>>
  <2>1. SmokeHandler(j) = h
    BY <1>4, SmokeNames DEF SmokeHandler
  <2>2. /\ Do("execute", j) \in SmokeOps /\ Ensure(Cand, "built") \in SmokeOps
        /\ Mark(j) \in SmokeOps
    BY <1>1, SmokePlain DEF Ensure
  <2>3. h \in Seq(SmokeOps)
    BY <2>2
  <2>4. \A r : Before(h, {Do("record", Smoke(r))}, {Do("judge", Smoke(r))})
    BY DEF Before, Do, Ensure, Mark, Op
  <2> QED
    BY <2>1, <2>3, <2>4
<1>5. CASE state[Task] # "cancelled" /\ j \notin {Prepare, Noop}
  <2> DEFINE a == Do("record", j)
             b == Do("judge", j)
             h == <<a, b, Mark(j)>>
  <2>1. SmokeHandler(j) = h
    BY <1>5, SmokeNames DEF SmokeHandler
  <2>2. j \in SmokeJobs
    BY <1>1, <1>5 DEF SmokeAll
  <2>3. a \in SmokeOps /\ b \in SmokeOps /\ Mark(j) \in SmokeOps
    BY <1>1, <2>2 DEF SmokeOps
  <2>4. h \in Seq(SmokeOps) /\ DOMAIN h = 1 .. 3 /\ h[1] = a /\ h[2] = b /\ h[3] = Mark(j)
    BY <2>3
  <2>5. ASSUME NEW r PROVE Before(h, {Do("record", Smoke(r))}, {Do("judge", Smoke(r))})
    <3>1. a # Do("judge", Smoke(r)) /\ Mark(j) # Do("judge", Smoke(r))
      BY DEF Do, Mark, Op
    <3>2. b = Do("judge", Smoke(r)) => a = Do("record", Smoke(r))
      BY DEF Do, Op
    <3> HIDE DEF h, a, b
    <3> QED
      BY <2>4, <3>1, <3>2 DEF Before
  <2> QED
    BY <2>1, <2>4, <2>5
<1> QED
  BY <1>2, <1>3, <1>4, <1>5

LEMMA SmokeServe ==
  ASSUME SmokeInv, NEW k \in Call, Serve(k)
  PROVE  SmokeInv'
<1> DEFINE o == Next1(k)
           A(r) == {Do("record", Smoke(r))}
           B(r) == {Do("judge", Smoke(r))}
<1>1. /\ workflow = "framework_smoke" /\ MyJobs = SmokeAll
      /\ Holds(unadvanced, calls, SmokeOps, Succ) /\ unadvanced \in Seq(Succ)
      /\ phase \in [SmokeAll -> Phases] /\ passed \in [SmokeAll -> BOOLEAN]
      /\ retests \in 0 .. MaxRetests /\ DOMAIN state = {Task} \cup Members
      /\ Task \in DOMAIN state /\ Cand \in DOMAIN state /\ Cand # Task
  BY SmokeIs, SmokeNames, CandidatesAssumption DEF SmokeInv, Holds, Members, Cand
<1>2. calls[k].todo # <<>> => o \in SmokeOps
  BY <1>1, HeadHolds
<1>3. state[Task] \in {"awaiting_signoff", "completed"} => Backed
  BY DEF SmokeInv
<1>4. ASSUME UNCHANGED <<workflow, evidence, passed, retests, unadvanced>>,
             phase' \in [SmokeAll -> Phases], SmokeKept, DOMAIN state' = DOMAIN state,
             state'[Task] \in {"awaiting_signoff", "completed"} => Backed,
             Holds(unadvanced', calls', SmokeOps, Succ),
             \A r \in 0 .. MaxRetests :
                AllBefore(calls, A(r), B(r)) => OnRecord(r) \/ AllBefore(calls', A(r), B(r))
      PROVE  SmokeInv'
  <2>1. Holds(unadvanced', calls', SmokeOps', Succ')
    BY <1>4, SmokeHoldsGrow
  <2>2. passed' \in [SmokeAll -> BOOLEAN] /\ retests' \in 0 .. MaxRetests
    BY <1>1, <1>4
  <2> QED
    BY <1>4, <2>1, <2>2, SmokeGoesOn
\* A request does, or skips, what is not the writing of evidence.
<1>5. ASSUME calls[k].todo # <<>>, o.do # "record", NEW s \in Seq(SmokeOps), Replace(k, s),
             unadvanced' \in Seq(Succ), \A r \in 0 .. MaxRetests : Before(s, A(r), B(r))
      PROVE  /\ Holds(unadvanced', calls', SmokeOps, Succ)
             /\ \A r \in 0 .. MaxRetests : AllBefore(calls, A(r), B(r)) => AllBefore(calls', A(r), B(r))
  <2>1. \A r : o \notin A(r)
    BY <1>5 DEF Do, Op
  <2> QED
    BY <1>1, <1>5, <2>1, ReplaceHolds, ReplaceOrder
<1>6. ASSUME calls[k].todo # <<>>, o.do # "record", Skip(k), unadvanced' \in Seq(Succ)
      PROVE  /\ Holds(unadvanced', calls', SmokeOps, Succ)
             /\ \A r \in 0 .. MaxRetests : AllBefore(calls, A(r), B(r)) => AllBefore(calls', A(r), B(r))
  BY <1>5, <1>6, EmptySeq, EmptyBefore DEF Skip
<1>7. ASSUME Raise(k), unadvanced' = unadvanced
      PROVE  /\ Holds(unadvanced', calls', SmokeOps, Succ)
             /\ \A r \in 0 .. MaxRetests : AllBefore(calls, A(r), B(r)) => AllBefore(calls', A(r), B(r))
  BY <1>1, <1>7, ResetHolds, PlainOrder DEF Raise
<1>8. phase' = phase /\ passed' = passed => SmokeKept
  BY DEF SmokeKept
<1>9. ASSUME calls[k].queue # <<>>, Turn(k, Handler(Head(calls[k].queue))), UNCHANGED OnlyBase
      PROVE  SmokeInv'
  <2> DEFINE h == Handler(Head(calls[k].queue))
  <2>1. Head(calls[k].queue) \in Succ
    BY <1>1, <1>9, HeadHolds
  <2>2. h = SmokeHandler(Head(calls[k].queue))
    BY <1>1 DEF Handler
  <2>3. h \in Seq(SmokeOps) /\ \A r : Before(h, A(r), B(r))
    BY <2>1, <2>2, SmokeHandlerDue
  <2> HIDE DEF h
  <2>4. Turn(k, h)
    BY <1>9 DEF h
  <2>5. /\ Holds(unadvanced', calls', SmokeOps, Succ)
        /\ \A r \in 0 .. MaxRetests : AllBefore(calls, A(r), B(r)) => AllBefore(calls', A(r), B(r))
    BY <1>1, <2>3, <2>4, TurnHolds, TurnOrder
  <2>6. UNCHANGED <<workflow, evidence, passed, retests, unadvanced, phase, state>>
    BY <1>9 DEF Turn, OnlyBase, smokeVars
  <2> QED
    BY <1>1, <1>3, <1>4, <1>8, <2>5, <2>6
<1>10. ASSUME Return(k), UNCHANGED OnlyBase PROVE SmokeInv'
  <2>1. /\ Holds(unadvanced', calls', SmokeOps, Succ)
        /\ \A r \in 0 .. MaxRetests : AllBefore(calls, A(r), B(r)) => AllBefore(calls', A(r), B(r))
    BY <1>1, <1>10, PlainRequests, PlainOrder
  <2>2. UNCHANGED <<workflow, evidence, passed, retests, unadvanced, phase, state>>
    BY <1>10 DEF Return, OnlyBase, smokeVars
  <2> QED
    BY <1>1, <1>3, <1>4, <1>8, <2>1, <2>2
<1>11. ASSUME MarkAdvanced(k), UNCHANGED OnlyBase PROVE SmokeInv'
  <2>1. UNCHANGED <<workflow, evidence, passed, retests, phase, state>>
    BY <1>11 DEF MarkAdvanced, OnlyBase, smokeVars
  <2>2. Holds(unadvanced', calls', SmokeOps, Succ)
    BY <1>1, <1>11, PlainRequests
  <2>3. \A r \in 0 .. MaxRetests : AllBefore(calls, A(r), B(r)) => AllBefore(calls', A(r), B(r))
    <3>1. calls[k].todo # <<>> /\ o.do # "record" /\ Skip(k) /\ unadvanced' \in Seq(Succ)
      BY <1>11, <2>2 DEF MarkAdvanced, Now, Holds
    <3> QED
      BY <1>6, <3>1
  <2>4. SmokeKept /\ phase' \in [SmokeAll -> Phases] /\ passed' \in [SmokeAll -> BOOLEAN]
        /\ retests' \in 0 .. MaxRetests
    BY <1>1, <1>8, <2>1
  <2>5. Holds(unadvanced', calls', SmokeOps', Succ')
    BY <2>1, <2>2, <2>4, SmokeHoldsGrow
  <2> QED
    BY <1>3, <2>1, <2>3, <2>4, <2>5, SmokeGoesOn
<1>12. ASSUME EnsureState(k), UNCHANGED OnlyBase PROVE SmokeInv'
  <2> DEFINE s == SmokeMoves(o.who, o.to)
  <2>1. /\ calls[k].todo # <<>> /\ o.do = "ensure" /\ Replace(k, s)
        /\ UNCHANGED <<workflow, evidence, passed, retests, unadvanced, phase, state>>
    BY <1>1, <1>12 DEF EnsureState, Now, MovesTo, OnlyBase, smokeVars
  <2>2. s \in {<<>>, <<MoveTo(o.who, o.to)>>}
    BY DEF SmokeMoves
  <2>3. MoveTo(o.who, o.to) \in SmokeOps
    BY <1>2, <2>1 DEF SmokeOps, SmokeAsks, MoveTo, Op, Do, Enqueue, Mark
  <2> HIDE DEF s
  <2>4. s \in Seq(SmokeOps)
    <3> DEFINE m == MoveTo(o.who, o.to)
    <3> HIDE DEF m
    <3>1. s \in {<<>>, <<m>>} /\ m \in SmokeOps
      BY <2>2, <2>3 DEF m
    <3>2. <<m>> \in Seq(SmokeOps)
      BY <3>1
    <3>3. <<>> \in Seq(SmokeOps)
      BY EmptySeq
    <3> QED
      BY <3>1, <3>2, <3>3
  <2>5. \A r : Before(s, A(r), B(r))
    BY <2>2 DEF Before, MoveTo, Do, Op
  <2>6. /\ Holds(unadvanced', calls', SmokeOps, Succ)
        /\ \A r \in 0 .. MaxRetests : AllBefore(calls, A(r), B(r)) => AllBefore(calls', A(r), B(r))
    BY <1>1, <1>5, <2>1, <2>4, <2>5
  <2> QED
    BY <1>1, <1>3, <1>4, <1>8, <2>1, <2>6
<1>13. ASSUME Move(k), UNCHANGED OnlyBase PROVE SmokeInv'
  <2>1. /\ calls[k].todo # <<>> /\ o.do = "move"
        /\ UNCHANGED <<workflow, evidence, passed, retests, unadvanced, phase>>
    BY <1>13 DEF Move, Now, OnlyBase, smokeVars
  <2>2. /\ o.who \in {Task, Cand} /\ o.to # "completed"
        /\ o.who = Task /\ o.to = "awaiting_signoff" => Backed
    BY <1>2, <2>1, SmokeOpIs DEF Do, Op
  <2>3. \/ Raise(k) /\ UNCHANGED state
        \/ Skip(k) /\ state' = [state EXCEPT ![o.who] = o.to]
    BY <1>13 DEF Move
  <2>4. DOMAIN state' = DOMAIN state /\ (state'[Task] \in {"awaiting_signoff", "completed"} => Backed)
    BY <1>1, <1>3, <2>2, <2>3
  <2>5. /\ Holds(unadvanced', calls', SmokeOps, Succ)
        /\ \A r \in 0 .. MaxRetests : AllBefore(calls, A(r), B(r)) => AllBefore(calls', A(r), B(r))
    BY <1>1, <1>6, <1>7, <2>1, <2>3
  <2> QED
    BY <1>1, <1>4, <1>8, <2>1, <2>4, <2>5
\* A job that was absent is queued.
<1>14. ASSUME NEW j \in SmokeAll, passed' = passed,
              phase' = [phase EXCEPT ![j] = IF @ = "absent" THEN "queued" ELSE @]
       PROVE  phase' \in [SmokeAll -> Phases] /\ SmokeKept
  BY <1>1, <1>14 DEF SmokeKept, Phases
<1>15. ASSUME EnqueueOne(k), UNCHANGED OnlyBase PROVE SmokeInv'
  <2>1. /\ calls[k].todo # <<>> /\ o.do = "enqueue" /\ Skip(k)
        /\ phase' = [phase EXCEPT ![o.who] = IF @ = "absent" THEN "queued" ELSE @]
        /\ UNCHANGED <<workflow, evidence, passed, retests, unadvanced, state>>
    BY <1>15 DEF EnqueueOne, Now, OnlyBase, smokeVars
  <2>2. o.who \in SmokeAll
    BY <1>2, <2>1, SmokeOpIs, SmokeNames DEF Do, Op
  <2>3. phase' \in [SmokeAll -> Phases] /\ SmokeKept
    BY <1>14, <2>1, <2>2
  <2>4. /\ Holds(unadvanced', calls', SmokeOps, Succ)
        /\ \A r \in 0 .. MaxRetests : AllBefore(calls, A(r), B(r)) => AllBefore(calls', A(r), B(r))
    BY <1>1, <1>6, <2>1
  <2> QED
    BY <1>3, <1>4, <2>1, <2>3, <2>4
<1>16. ASSUME CreateNoopCandidate(k), UNCHANGED ButSmoke PROVE SmokeInv'
  <2>1. /\ calls[k].todo # <<>> /\ o.do = "create" /\ Skip(k)
        /\ state' = [state EXCEPT ![Cand] = IF @ = "absent" THEN "proposed" ELSE @]
        /\ UNCHANGED <<workflow, evidence, passed, retests, unadvanced, phase>>
    BY <1>16 DEF CreateNoopCandidate, Now, ButSmoke, smokeVars
  <2>2. DOMAIN state' = DOMAIN state /\ state'[Task] = state[Task]
    BY <1>1, <2>1
  <2>3. /\ Holds(unadvanced', calls', SmokeOps, Succ)
        /\ \A r \in 0 .. MaxRetests : AllBefore(calls, A(r), B(r)) => AllBefore(calls', A(r), B(r))
    BY <1>1, <1>6, <2>1
  <2> QED
    BY <1>1, <1>3, <1>4, <1>8, <2>1, <2>2, <2>3
<1>17. ASSUME ExecuteFramework(k), UNCHANGED ButSmoke PROVE SmokeInv'
  <2>1. /\ calls[k].todo # <<>> /\ o.do = "execute"
        /\ UNCHANGED <<workflow, evidence, passed, retests, unadvanced>>
    BY <1>17 DEF ExecuteFramework, Now, ButSmoke, smokeVars
  <2>2. \/ (Skip(k) \/ Raise(k)) /\ UNCHANGED <<phase, state>>
        \/ /\ Skip(k)
           /\ state' = [state EXCEPT ![Task] = "framework_executing",
                                     ![Cand] = "framework_smoke_running"]
           /\ phase' = [phase EXCEPT ![Smoke(0)] = IF @ = "absent" THEN "queued" ELSE @]
    BY <1>17 DEF ExecuteFramework
  <2>3. /\ Holds(unadvanced', calls', SmokeOps, Succ)
        /\ \A r \in 0 .. MaxRetests : AllBefore(calls, A(r), B(r)) => AllBefore(calls', A(r), B(r))
    BY <1>1, <1>6, <1>7, <2>1, <2>2
  <2>4. DOMAIN state' = DOMAIN state /\ (state'[Task] \in {"awaiting_signoff", "completed"} => Backed)
    BY <1>1, <1>3, <2>2
  <2>5. 0 \in 0 .. MaxRetests
    BY MaxRetestsAssumption
  <2>6. phase' \in [SmokeAll -> Phases] /\ SmokeKept
    BY <1>1, <1>8, <1>14, <2>1, <2>2, <2>5, SmokeNames
  <2> QED
    BY <1>4, <2>1, <2>3, <2>4, <2>6
<1>18. ASSUME JudgeSmoke(k), UNCHANGED ButSmoke PROVE SmokeInv'
  <2>1. /\ calls[k].todo # <<>> /\ o.do = "judge"
        /\ UNCHANGED <<workflow, evidence, passed, retests, unadvanced, phase, state>>
    BY <1>18 DEF JudgeSmoke, Now, ButSmoke, smokeVars
  <2>2. PICK r \in 0 .. MaxRetests : o = Do("judge", Smoke(r)) /\ o.who = Smoke(r) /\ Smoke(r) \in Succ
    BY <1>2, <2>1, SmokeRunIs
  <2>3. OnRecord(r)
    <3>1. calls[k].todo \in Seq(SmokeOps)
      BY <1>1 DEF Holds, Row
    <3>2. ~ Before(calls[k].todo, A(r), B(r))
      BY <2>1, <2>2, <3>1, HeadBefore DEF Next1
    <3> QED
      BY <3>2 DEF SmokeInv, SmokeOrder, AllBefore
  <2>4. passed[o.who] => Backed
    BY <2>2, <2>3 DEF OnRecord, Backed
  <2>5. ASSUME NEW s \in Seq(SmokeOps), Replace(k, s), \A r1 : Before(s, A(r1), B(r1)) PROVE SmokeInv'
    <3>1. /\ Holds(unadvanced', calls', SmokeOps, Succ)
          /\ \A r1 \in 0 .. MaxRetests : AllBefore(calls, A(r1), B(r1)) => AllBefore(calls', A(r1), B(r1))
      BY <1>1, <1>5, <2>1, <2>5
    <3> QED
      BY <1>1, <1>3, <1>4, <1>8, <2>1, <3>1
  <2>6. CASE state[Task] \in {"awaiting_signoff", "rejected", "cancelled"}
    BY <1>18, <2>5, <2>6, EmptySeq, EmptyBefore DEF JudgeSmoke
  <2>7. CASE state[Task] \notin {"awaiting_signoff", "rejected", "cancelled"} /\ ~ passed[o.who]
    <3> DEFINE s == <<Ensure(Cand, "rejected"), Ensure(Task, "rejected")>>
    <3>1. Replace(k, s)
      BY <1>18, <2>7 DEF JudgeSmoke
    <3>2. Ensure(Cand, "rejected") \in SmokeOps /\ Ensure(Task, "rejected") \in SmokeOps
      BY SmokePlain, SmokeNames DEF Ensure
    <3>3. s \in Seq(SmokeOps) /\ \A r1 : Before(s, A(r1), B(r1))
      BY <3>2 DEF Before, Ensure, Do, Op
    <3> QED
      BY <2>5, <3>1, <3>3
  <2>8. /\ Ensure(Cand, "framework_smoke_passed") \in SmokeOps
        /\ Ensure(Task, "output_validating") \in SmokeOps
        /\ Backed => Ensure(Task, "awaiting_signoff") \in SmokeOps
    BY SmokePlain, SmokeNames DEF Ensure
  <2>9. CASE state[Task] = "framework_executing" /\ passed[o.who]
    <3> DEFINE s == <<Ensure(Cand, "framework_smoke_passed"), Ensure(Task, "output_validating"),
                      Ensure(Task, "awaiting_signoff")>>
    <3>1. Replace(k, s)
      BY <1>18, <2>9 DEF JudgeSmoke
    <3>2. s \in Seq(SmokeOps) /\ \A r1 : Before(s, A(r1), B(r1))
      BY <2>4, <2>8, <2>9 DEF Before, Ensure, Do, Op
    <3> QED
      BY <2>5, <3>1, <3>2
  <2>10. CASE /\ state[Task] \notin {"awaiting_signoff", "rejected", "cancelled", "framework_executing"}
              /\ passed[o.who]
    <3> DEFINE s == <<Ensure(Cand, "framework_smoke_passed"), Ensure(Task, "awaiting_signoff")>>
    <3>1. Replace(k, s)
      BY <1>18, <2>10 DEF JudgeSmoke
    <3>2. s \in Seq(SmokeOps) /\ \A r1 : Before(s, A(r1), B(r1))
      BY <2>4, <2>8, <2>10 DEF Before, Ensure, Do, Op
    <3> QED
      BY <2>5, <3>1, <3>2
  <2> QED
    BY <2>6, <2>7, <2>9, <2>10
<1>19. ASSUME RecordEvidence(k), UNCHANGED ButSmoke PROVE SmokeInv'
  <2>1. /\ calls[k].todo # <<>> /\ o.do = "record" /\ Skip(k)
        /\ UNCHANGED <<workflow, passed, retests, unadvanced, phase, state>>
    BY <1>19 DEF RecordEvidence, Now, ButSmoke
  <2>2. PICK r \in 0 .. MaxRetests : /\ o = Do("record", Smoke(r)) /\ o.who = Smoke(r)
                                     /\ o.who[2] = r /\ Smoke(r) \in Succ
    BY <1>2, <2>1, SmokeRunIs
  <2>3. evidence' = IF OnRecord(r) THEN evidence ELSE Append(evidence, r)
    BY <1>19, <2>2 DEF RecordEvidence, OnRecord
  <2>4. /\ evidence \in Seq(0 .. MaxRetests) /\ Len(evidence) \in Nat
        /\ DOMAIN evidence = 1 .. Len(evidence)
        /\ \A i \in DOMAIN evidence : phase[Smoke(evidence[i])] = "succeeded"
        /\ \A i, n \in DOMAIN evidence : evidence[i] = evidence[n] => i = n
    BY LenProperties DEF SmokeInv, Recorded
  <2>5. Recorded' /\ OnRecord(r)' /\ \A s : OnRecord(s) => OnRecord(s)'
    <3>1. CASE OnRecord(r)
      BY <2>1, <2>3, <2>4, <3>1 DEF Recorded, OnRecord
    <3>2. CASE ~ OnRecord(r)
      <4>1. /\ evidence' = Append(evidence, r) /\ evidence' \in Seq(0 .. MaxRetests)
            /\ DOMAIN evidence' = 1 .. Len(evidence) + 1 /\ evidence'[Len(evidence) + 1] = r
            /\ \A i \in 1 .. Len(evidence) : evidence'[i] = evidence[i]
        BY <2>3, <2>4, <3>2, AppendProperties
      <4>2. phase[Smoke(r)] = "succeeded"
        BY <2>2 DEF Succ
      <4>3. \A i \in 1 .. Len(evidence) : evidence[i] # r
        BY <2>4, <3>2 DEF OnRecord
      <4>4. Recorded'
        BY <2>1, <2>4, <4>1, <4>2, <4>3 DEF Recorded
      <4>5. OnRecord(r)'
        BY <2>4, <4>1 DEF OnRecord
      <4>6. \A s : OnRecord(s) => OnRecord(s)'
        BY <2>4, <4>1 DEF OnRecord
      <4> QED
        BY <4>4, <4>5, <4>6
    <3> QED
      BY <3>1, <3>2
  <2>6. SmokeKept /\ phase' \in [SmokeAll -> Phases] /\ passed' \in [SmokeAll -> BOOLEAN]
    BY <1>1, <1>8, <2>1
  <2>7. Backed => Backed'
    BY <2>3, <2>6, BackedGrows DEF SmokeInv
  <2>8. Holds(unadvanced', calls', SmokeOps', Succ')
    <3>1. Holds(unadvanced', calls', SmokeOps, Succ)
      BY <1>1, <2>1, SkipHolds
    <3> QED
      BY <2>1, <2>3, <2>6, <3>1, SmokeHoldsGrow
  <2>9. SmokeOrder'
    <3>1. ASSUME NEW s \in 0 .. MaxRetests, s # r, AllBefore(calls, A(s), B(s))
          PROVE  AllBefore(calls', A(s), B(s))
      <4>1. o \notin A(s)
        BY <2>2, <3>1, SmokeNames DEF Do, Op
      <4> QED
        BY <1>1, <2>1, <3>1, <4>1, SkipOrder
    <3> QED
      BY <2>5, <3>1 DEF SmokeInv, SmokeOrder
  <2> QED
    BY <1>1, <1>3, <2>1, <2>5, <2>6, <2>7, <2>8, <2>9 DEF SmokeInv
<1> QED
  BY <1>2, <1>9, <1>10, <1>11, <1>12, <1>13, <1>15, <1>16, <1>17, <1>18, <1>19, SmokeOpIs
     DEF Serve, Now, ReadAgain, CreateCandidates, MaybeFinishRound, SetVerdict, RecordProbe,
         FinalizeStage0, RecordEndpoint, RecordAdjudication

LEMMA SmokeStep == SmokeInv /\ [RouterNext]_vars => SmokeInv'
<1> SUFFICES ASSUME SmokeInv, [RouterNext]_vars PROVE SmokeInv'
  OBVIOUS
<1> DEFINE A(r) == {Do("record", Smoke(r))}
           B(r) == {Do("judge", Smoke(r))}
<1>1. /\ workflow = "framework_smoke" /\ MyJobs = SmokeAll
      /\ Holds(unadvanced, calls, SmokeOps, Succ) /\ unadvanced \in Seq(Succ)
      /\ phase \in [SmokeAll -> Phases] /\ passed \in [SmokeAll -> BOOLEAN]
      /\ retests \in 0 .. MaxRetests /\ DOMAIN state = {Task} \cup Members
      /\ Task \in DOMAIN state /\ Cand \in DOMAIN state /\ Cand # Task
  BY SmokeIs, SmokeNames, CandidatesAssumption DEF SmokeInv, Holds, Members, Cand
<1>2. state[Task] \in {"awaiting_signoff", "completed"} => Backed
  BY DEF SmokeInv
\* Steps of the queue, and of those who are not served by it.
<1>3. ASSUME UNCHANGED <<workflow, evidence, passed>>, retests' \in 0 .. MaxRetests,
             phase' \in [SmokeAll -> Phases], SmokeKept, DOMAIN state' = DOMAIN state,
             state'[Task] \in {"awaiting_signoff", "completed"} => Backed,
             Holds(unadvanced', calls', SmokeOps, Succ),
             \A r \in 0 .. MaxRetests : AllBefore(calls, A(r), B(r)) => AllBefore(calls', A(r), B(r))
      PROVE  SmokeInv'
  <2>1. Holds(unadvanced', calls', SmokeOps', Succ')
    BY <1>3, SmokeHoldsGrow
  <2>2. passed' \in [SmokeAll -> BOOLEAN]
    BY <1>1, <1>3
  <2> QED
    BY <1>3, <2>1, <2>2, SmokeGoesOn
<1>4. ASSUME NEW j \in SmokeAll, phase[j] # "succeeded", NEW p \in Phases,
             phase' = [phase EXCEPT ![j] = p], \A i \in SmokeAll \ {j} : passed'[i] = passed[i]
      PROVE  phase' \in [SmokeAll -> Phases] /\ SmokeKept
  BY <1>1, <1>4 DEF SmokeKept
<1>5. ASSUME NEW k \in Call, Poll(k) \/ Die(k) PROVE SmokeInv'
  <2>1. Holds(unadvanced', calls', SmokeOps, Succ)
    BY <1>1, <1>5, PlainRequests DEF Poll, Die
  <2>2. UNCHANGED <<workflow, evidence, passed, retests, phase, state>>
    BY <1>5 DEF Poll, Die, Reconcile, Crash, OnlyBase, smokeVars
  <2>3. \A r \in 0 .. MaxRetests : AllBefore(calls, A(r), B(r)) => AllBefore(calls', A(r), B(r))
    BY <1>1, <1>5, PlainOrder DEF Poll, Die
  <2>4. SmokeKept
    BY <2>2 DEF SmokeKept
  <2> QED
    BY <1>1, <1>2, <1>3, <2>1, <2>2, <2>3, <2>4
<1>6. ASSUME NEW k \in Call, NEW j \in MyJobs, Claim(k, j) PROVE SmokeInv'
  <2>1. /\ ClaimJob(k, j) /\ UNCHANGED <<state, workflow, passed, evidence, retests>>
        /\ phase[j] = "queued" /\ phase' = [phase EXCEPT ![j] = "running"]
    BY <1>6 DEF Claim, ClaimJob, ButEndpoint, smokeVars
  <2>2. phase' \in [SmokeAll -> Phases] /\ SmokeKept
    BY <1>1, <1>4, <2>1 DEF Phases
  <2>3. Holds(unadvanced', calls', SmokeOps, Succ)
    BY <1>1, <2>1, PlainRequests
  <2>4. \A r \in 0 .. MaxRetests : AllBefore(calls, A(r), B(r)) => AllBefore(calls', A(r), B(r))
    BY <1>1, <2>1, PlainOrder
  <2> QED
    BY <1>1, <1>2, <1>3, <2>1, <2>2, <2>3, <2>4
<1>7. ASSUME NEW k \in Call, NEW j \in MyJobs, Complete(k, j) PROVE SmokeInv'
  <2>1. PICK ok \in BOOLEAN : CompleteJob(k, j, ok)
    BY <1>7 DEF Complete
  <2>2. /\ UNCHANGED <<state, workflow, evidence, retests>> /\ phase[j] = "running"
        /\ phase' = [phase EXCEPT ![j] = "succeeded"] /\ passed' = [passed EXCEPT ![j] = ok]
    BY <1>7, <2>1 DEF Complete, CompleteJob, OnlyBase, smokeVars
  <2>3. /\ passed' \in [SmokeAll -> BOOLEAN]
        /\ \A i \in SmokeAll \ {j} : passed'[i] = passed[i]
    BY <1>1, <2>2
  <2>4. phase' \in [SmokeAll -> Phases] /\ SmokeKept
    BY <1>1, <1>4, <2>2, <2>3 DEF Phases
  <2>5. j \in Succ'
    BY <1>1, <2>2 DEF Succ, MyJobs
  <2>6. Holds(unadvanced, calls, SmokeOps', Succ')
    BY <1>1, <2>2, <2>4, SmokeHoldsGrow
  <2>7. Holds(unadvanced', calls', SmokeOps', Succ')
    BY <2>1, <2>5, <2>6, CompleteHolds
  <2>8. \A r \in 0 .. MaxRetests : AllBefore(calls, A(r), B(r)) => AllBefore(calls', A(r), B(r))
    BY <1>1, <2>1, PlainOrder
  <2> QED
    BY <1>1, <1>2, <2>2, <2>3, <2>4, <2>7, <2>8, SmokeGoesOn
<1>8. ASSUME UNCHANGED <<workflow, evidence, passed, unadvanced, calls>>, retests' \in 0 .. MaxRetests,
             phase' \in [SmokeAll -> Phases], SmokeKept, DOMAIN state' = DOMAIN state,
             state'[Task] \in {"awaiting_signoff", "completed"} => Backed
      PROVE  SmokeInv'
  BY <1>1, <1>3, <1>8
<1>9. ASSUME NEW j \in MyJobs, Fail(j) PROVE SmokeInv'
  <2>1. /\ phase[j] = "running" /\ phase' = [phase EXCEPT ![j] = "over"]
        /\ UNCHANGED <<workflow, evidence, passed, unadvanced, calls, retests>>
        /\ DOMAIN state' = DOMAIN state /\ state'[Task] \in {state[Task], "rejected"}
    BY <1>1, <1>9 DEF Fail, FailSmokeJob, ButSmoke, smokeVars
  <2>2. phase' \in [SmokeAll -> Phases] /\ SmokeKept
    BY <1>1, <1>4, <2>1 DEF Phases
  <2> QED
    BY <1>1, <1>2, <1>8, <2>1, <2>2
<1>10. ASSUME Operator PROVE SmokeInv'
  <2>1. CASE RetestFramework /\ UNCHANGED ButSmoke
    <3>1. /\ retests < MaxRetests /\ retests' = retests + 1
          /\ phase' = [phase EXCEPT ![Smoke(retests + 1)] = IF @ = "absent" THEN "queued" ELSE @]
          /\ UNCHANGED <<workflow, evidence, passed, unadvanced, calls>>
          /\ DOMAIN state' = DOMAIN state /\ state'[Task] = "framework_retesting"
      BY <1>1, <2>1 DEF RetestFramework, ButSmoke
    <3>2. retests + 1 \in 0 .. MaxRetests
      BY <1>1, <3>1, MaxRetestsAssumption
    <3>3. Smoke(retests + 1) \in SmokeAll
      BY <3>2, SmokeNames
    <3>4. phase' \in [SmokeAll -> Phases] /\ SmokeKept
      BY <1>1, <3>1, <3>3 DEF SmokeKept, Phases
    <3> QED
      BY <1>8, <3>1, <3>2, <3>4
  <2>2. CASE CancelFramework /\ UNCHANGED ButSmoke
    <3>1. /\ phase' = [j \in DOMAIN phase |->
                         IF phase[j] \in {"queued", "running"} THEN "over" ELSE phase[j]]
          /\ UNCHANGED <<workflow, evidence, passed, unadvanced, calls, retests>>
          /\ DOMAIN state' = DOMAIN state /\ state'[Task] = "cancelled"
      BY <1>1, <2>2 DEF CancelFramework, ButSmoke, smokeVars
    <3>2. phase' \in [SmokeAll -> Phases] /\ SmokeKept
      BY <1>1, <3>1 DEF SmokeKept, Phases
    <3> QED
      BY <1>1, <1>8, <3>1, <3>2
  <2>3. ASSUME NEW b \in BOOLEAN, SignoffFramework(b), UNCHANGED ButSmoke PROVE SmokeInv'
    <3>1. /\ UNCHANGED <<workflow, evidence, passed, unadvanced, calls, retests, phase>>
          /\ DOMAIN state' = DOMAIN state /\ state[Task] = "awaiting_signoff"
      BY <1>1, <2>3 DEF SignoffFramework, ButSmoke
    <3>2. SmokeKept
      BY <3>1 DEF SmokeKept
    <3> QED
      BY <1>1, <1>2, <1>8, <3>1, <3>2
  <2>4. ASSUME NEW j \in MyJobs, CancelJob(j), UNCHANGED ButEndpoint PROVE SmokeInv'
    <3>1. /\ phase[j] # "succeeded" /\ phase' = [phase EXCEPT ![j] = "over"]
          /\ UNCHANGED <<workflow, evidence, passed, unadvanced, calls, retests, state>>
      BY <2>4 DEF CancelJob, ButEndpoint, smokeVars
    <3>2. phase' \in [SmokeAll -> Phases] /\ SmokeKept
      BY <1>1, <1>4, <2>4, <3>1 DEF Phases
    <3> QED
      BY <1>1, <1>2, <1>8, <3>1, <3>2
  <2> QED
    BY <1>1, <1>10, <2>1, <2>2, <2>3, <2>4 DEF Operator, CancelEndpointJob
<1>11. CASE UNCHANGED vars
  <2>1. UNCHANGED <<workflow, evidence, passed, unadvanced, calls, retests, state, phase>>
    BY <1>11 DEF vars, base, smokeVars
  <2>2. SmokeKept
    BY <2>1 DEF SmokeKept
  <2> QED
    BY <1>1, <1>2, <1>8, <2>1, <2>2
<1> QED
  BY <1>5, <1>6, <1>7, <1>9, <1>10, <1>11, SmokeServe DEF RouterNext

LEMMA SmokeInit == RouterInit /\ workflow = "framework_smoke" => SmokeInv
<1> SUFFICES ASSUME RouterInit, workflow = "framework_smoke" PROVE SmokeInv
  OBVIOUS
<1>1. MyJobs = SmokeAll /\ Holds(unadvanced, calls, SmokeOps, Succ)
  BY SmokeIs, InitHolds
<1>2. /\ phase \in [SmokeAll -> Phases] /\ passed \in [SmokeAll -> BOOLEAN]
      /\ DOMAIN state = {Task} \cup Members /\ state[Task] = "source_preparing"
  BY <1>1 DEF RouterInit, Phases
<1>3. retests \in 0 .. MaxRetests /\ evidence = <<>>
  BY MaxRetestsAssumption DEF RouterInit, SmokeStart
<1>4. Recorded
  BY <1>3, EmptySeq DEF Recorded
<1>5. SmokeOrder
  BY InitOrder DEF SmokeOrder
<1> QED
  BY <1>1, <1>2, <1>3, <1>4, <1>5 DEF SmokeInv

-----------------------------------------------------------------------------
(* The round of the optimization workflow.                                 *)

cs(c) == state[Candidate(c)]

PathStates == {"proposed", "building", "built", "correctness_running", "performance_running",
               "round_waiting"} \cup Finalist

\* What a request does before there are candidates, and what only then.
EarlyOp ==
    {Op(d, Task, s) : d \in {"ensure", "again", "move"},
                      s \in {"searching", "evaluating", "e2e_validating", "awaiting_signoff",
                             "rejected"}}
    \cup {Op(d, Task, "model_validating") : d \in {"again", "move"}}
    \cup {Do("propose", Generate)} \cup {Enqueue(j) : j \in {Profile, Generate}}
    \cup {Mark(j) : j \in RoundJobs}

LateOp ==
    {Ensure(Candidate(c), s) :
        c \in Ordinal, s \in {"building", "correctness_running", "performance_running",
                              "round_waiting", "e2e_running", "release_candidate", "rejected"}}
    \cup {MoveTo(Candidate(c), s) : c \in Ordinal, s \in PathStates \cup {"rejected"}}
    \cup {Enqueue(j) : j \in RoundJobs \ {Profile, Generate}} \cup {Barrier}

\* The candidate that goes on: the first of those that have not been rejected,
\* when all the others are through.
Chosen(w) ==
    \/ cs(w) = "rejected"
    \/ /\ cs(w) \in {"round_waiting"} \cup Finalist
       /\ \A d \in Ordinal \ {w} : cs(d) \in {"round_waiting", "rejected"}
       /\ \A d \in Ordinal : d < w => cs(d) = "rejected"

LostOne(c) == Lost(Correctness(c)) \/ Lost(Performance(c)) \/ Lost(E2E(c))

\* Which results and choices an operation rests on.
RoundDue(o) ==
    /\ \A c \in Ordinal :
          /\ o.who = Candidate(c) /\ o.to \in Finalist => Chosen(c)
          /\ o.who = Candidate(c) /\ o.to \in {"round_waiting"} \cup Finalist => Won(Performance(c))
          /\ o.who = Candidate(c) /\ o.to = "rejected" => LostOne(c)
          /\ o = Enqueue(E2E(c)) => Chosen(c) /\ Won(Performance(c))
          /\ o = Enqueue(Performance(c)) => Won(Correctness(c))
    /\ o.who # Task /\ o.to = "release_candidate" => Closed
    /\ o.who = Task /\ o.to \in {"awaiting_signoff", "rejected"} => Closed

RoundOps == {o \in EarlyOp \cup LateOp : RoundDue(o)}

Proposed  == \A c \in Ordinal : cs(c) # "absent"
Evaluated == state[Task] \notin {"baseline_pending", "profiling", "searching"}
AskEvaluating == {Op(d, Task, "evaluating") : d \in {"ensure", "again", "move"}}

\* Candidates come before all that is done for them, and evaluation begins.
RoundOrder ==
    /\ Proposed \/ AllBefore(calls, {Do("propose", Generate)}, LateOp)
    /\ Evaluated \/ AllBefore(calls, AskEvaluating, LateOp)

RoundFacts ==
    /\ state[Task] \in {"baseline_pending", "profiling", "searching", "evaluating",
                        "model_validating", "e2e_validating", "awaiting_signoff", "rejected"}
    /\ state[Task] \in {"awaiting_signoff", "rejected"} => Closed
    /\ \A j \in RoundJobs \ {Profile, Generate} : phase[j] # "absent" => Proposed /\ Evaluated
    /\ \A c \in Ordinal :
          /\ cs(c) \in {"absent", "rejected"} \cup PathStates
          /\ cs(c) \in {"round_waiting"} \cup Finalist => Won(Performance(c))
          /\ cs(c) \in Finalist => Chosen(c)
          /\ cs(c) = "release_candidate" => Closed
          /\ phase[E2E(c)] # "absent" => Chosen(c) /\ Won(Performance(c))
          /\ phase[Performance(c)] # "absent" => Won(Correctness(c))

\* Every operation of A stands right before one of B.
Followed(t, A, B) == \A i \in DOMAIN t : t[i] \in A => i + 1 \in DOMAIN t /\ t[i + 1] \in B

Running == {Op(d, Candidate(c), "e2e_running") : d \in {"ensure", "move"}, c \in Ordinal}
Settled == {Op(d, Candidate(c), s) : d \in {"ensure", "move"}, c \in Ordinal,
                                     s \in {"round_waiting", "rejected"}}
Again(s) == Op("again", Task, s)
Validating == {Op(d, Task, "e2e_validating") : d \in {"ensure", "again", "move"}}
Modelling  == {Op(d, Task, "model_validating") : d \in {"again", "move"}}
Launches == {Enqueue(E2E(c)) : c \in Ordinal}

\* Who has settled a candidate looks at the barrier next; who has found the
\* round to be over goes on, step by step, until the validation is enqueued.
Linked(t) ==
    /\ Followed(t, Settled, {Barrier})
    /\ \A c \in Ordinal :
          /\ Followed(t, {MoveTo(Candidate(c), "model_validating")}, {MoveTo(Candidate(c), "staged")})
          /\ Followed(t, {MoveTo(Candidate(c), "staged")}, {MoveTo(Candidate(c), "e2e_running")})
    /\ Followed(t, Running, {Ensure(Task, "e2e_validating")})
    /\ Followed(t, Modelling, {Again("e2e_validating")})
    /\ Followed(t, Validating, Launches)

AllLinked == \A k \in Call : Linked(calls[k].todo)

\* The next operation of k is the one that the round waits for.
Closes(o, w) == /\ o \in {Ensure(Candidate(w), "e2e_running"), MoveTo(Candidate(w), "model_validating")}
                /\ cs(w) = "round_waiting"

InStep(o, w) ==
    \/ cs(w) = "model_validating" /\ o = MoveTo(Candidate(w), "staged")
    \/ cs(w) = "staged" /\ o = MoveTo(Candidate(w), "e2e_running")
    \/ /\ cs(w) = "e2e_running"
       /\ \/ o = Ensure(Task, "e2e_validating") \/ o \in Launches
          \/ o = Again("model_validating") /\ state[Task] \in {"evaluating", "model_validating"}
          \/ o = MoveTo(Task, "model_validating") /\ state[Task] = "evaluating"
          \/ o = Again("e2e_validating") /\ state[Task] \in {"model_validating", "e2e_validating"}
          \/ o = MoveTo(Task, "e2e_validating") /\ state[Task] = "model_validating"


Awake ==
    /\ RoundReady => \E k \in Call : calls[k].todo # <<>> /\
                        (Next1(k) = Barrier \/ \E w \in Ordinal : Closes(Next1(k), w))
    /\ \A w \in Ordinal : cs(w) \in Finalist =>
          \E k \in Call : calls[k].todo # <<>> /\ InStep(Next1(k), w)

RoundInv ==
    /\ workflow = "optimization" /\ DOMAIN state = {Task} \cup Members
    /\ phase \in [RoundJobs -> Phases] /\ passed \in [RoundJobs -> BOOLEAN]
    /\ crashes \in Nat
    /\ Holds(unadvanced, calls, RoundOps, Succ)
    /\ RoundFacts /\ RoundOrder
    /\ Closed \/ AllLinked
    /\ Closed \/ crashes # 0 \/ Awake

\* A result that is there stays as it is.
RoundKept == \A j \in RoundJobs :
               phase[j] = "succeeded" => phase'[j] = "succeeded" /\ passed'[j] = passed[j]

LEMMA RoundIs == workflow = "optimization" => MyJobs = RoundJobs
BY DEF MyJobs, JobsOf

LEMMA RoundNames ==
  /\ Profile \in RoundJobs /\ Generate \in RoundJobs /\ Profile # Generate
  /\ \A c \in Ordinal :
        /\ WBuild(c) \in RoundJobs \ {Profile, Generate}
        /\ Correctness(c) \in RoundJobs \ {Profile, Generate}
        /\ Performance(c) \in RoundJobs \ {Profile, Generate}
        /\ E2E(c) \in RoundJobs \ {Profile, Generate}
        /\ Candidate(c) # Task /\ Candidate(c) \in Members
  /\ \A c, d : /\ Candidate(c) = Candidate(d) => c = d
               /\ Performance(c) = Performance(d) => c = d
               /\ E2E(c) = E2E(d) => c = d
               /\ E2E(c) # Performance(d) /\ E2E(c) # Correctness(d) /\ E2E(c) # WBuild(d)
               /\ Performance(c) # Correctness(d) /\ Performance(c) # WBuild(d)
               /\ E2E(c)[1] = "e2e"
  /\ \A j \in RoundJobs : /\ j # Task /\ \A c : j # Candidate(c)
                          /\ j[1] = "e2e" => \E c \in Ordinal : j = E2E(c)
<1>1. Ordinal \subseteq 0 .. Candidates
  BY CandidatesAssumption DEF Ordinal
<1> QED
  BY <1>1 DEF RoundJobs, Profile, Generate, WBuild, Correctness, Performance, E2E, Candidate, Task, Members

LEMMA ClosedIs == workflow = "optimization" => (Closed <=> \E c \in Ordinal : phase[E2E(c)] # "absent")
BY RoundIs, RoundNames DEF Closed

TaskTargets == {"searching", "evaluating", "model_validating", "e2e_validating",
                "awaiting_signoff", "rejected"}

LEMMA RoundOpIs ==
  ASSUME NEW o \in RoundOps
  PROVE  \/ /\ o.do \in {"ensure", "again", "move"} /\ o.who = Task /\ o.to \in TaskTargets
            /\ o = Op(o.do, Task, o.to) /\ (o.do = "ensure" => o.to # "model_validating")
            /\ o.to \in {"awaiting_signoff", "rejected"} => Closed
            /\ o \in EarlyOp
         \/ /\ o.do \in {"ensure", "move"} /\ o \in LateOp
            /\ \E c \in Ordinal : o.who = Candidate(c) /\ o = Op(o.do, Candidate(c), o.to)
            /\ o.to \in PathStates \cup {"rejected"}
            /\ o.do = "ensure" => o.to \notin {"proposed", "built", "model_validating", "staged"}
            /\ o.to = "release_candidate" => Closed
         \/ o.do = "propose" /\ o = Do("propose", Generate) /\ o \in EarlyOp
         \/ o.do = "enqueue" /\ o.who \in RoundJobs /\ o = Enqueue(o.who)
         \/ o.do = "barrier" /\ o = Barrier /\ o \in LateOp
         \/ o.do = "mark" /\ o \in EarlyOp
<1>0. \A c \in Ordinal : Candidate(c) # Task
  BY RoundNames
<1>1. CASE o \in EarlyOp
  BY <1>1, RoundNames DEF RoundOps, RoundDue, EarlyOp, TaskTargets, Op, Do, Mark, Enqueue
<1>2. CASE o \in LateOp
  BY <1>0, <1>2 DEF RoundOps, RoundDue, LateOp, PathStates, Finalist, Op, Do, Mark, Enqueue, Ensure, MoveTo, Barrier
<1> QED
  BY <1>1, <1>2 DEF RoundOps

LEMMA RoundOpsGrow ==
  ASSUME workflow = "optimization", workflow' = workflow, RoundKept,
         \A c \in Ordinal : Chosen(c) => Chosen(c)', Closed => Closed'
  PROVE  RoundOps \subseteq RoundOps' /\ Succ \subseteq Succ'
<1>1. Succ \subseteq Succ'
  BY RoundIs DEF Succ, MyJobs, RoundKept
<1>2. ASSUME NEW o, RoundDue(o) PROVE RoundDue(o)'
  <2>1. \A c \in Ordinal : /\ LostOne(c) => LostOne(c)'
                           /\ Won(Performance(c)) => Won(Performance(c))'
                           /\ Won(Correctness(c)) => Won(Correctness(c))'
    BY RoundNames DEF RoundKept, LostOne, Lost, Won
  <2> QED
    BY <1>2, <2>1 DEF RoundDue
<1> QED
  BY <1>1, <1>2 DEF RoundOps

LEMMA RoundHoldsGrow ==
  ASSUME workflow = "optimization", workflow' = workflow, RoundKept,
         \A c \in Ordinal : Chosen(c) => Chosen(c)', Closed => Closed',
         NEW u, NEW c, Holds(u, c, RoundOps, Succ)
  PROVE  Holds(u, c, RoundOps', Succ') /\ Succ \subseteq Succ'
BY RoundOpsGrow, HoldsMore

-----------------------------------------------------------------------------
(* What stands right behind what.                                          *)

\* The first operation is replaced by what it stands for.
LEMMA ReplaceFollowed ==
  ASSUME NEW T, NEW t \in Seq(T), t # <<>>, NEW r \in Seq(T), NEW A, NEW B, Followed(t, A, B),
         \A i \in 1 .. Len(r) : r[i] \in A =>
            IF i = Len(r) THEN Head(t) \in A ELSE r[i + 1] \in B
  PROVE  Followed(r \o Tail(t), A, B)
<1> DEFINE s == r \o Tail(t)
           n == Len(r)
           m == Len(t)
<1>1. /\ Tail(t) \in Seq(T) /\ Len(Tail(t)) = m - 1 /\ Head(t) = t[1]
      /\ \A i \in 1 .. Len(Tail(t)) : Tail(t)[i] = t[i + 1]
      /\ m \in Nat \ {0} /\ n \in Nat
  BY HeadTailProperties, LenProperties
<1>2. /\ Len(s) = n + m - 1 /\ DOMAIN s = 1 .. Len(s)
      /\ \A i \in 1 .. Len(s) : s[i] = IF i <= n THEN r[i] ELSE t[i - n + 1]
  BY <1>1, ConcatProperties
<1>3. DOMAIN r = 1 .. n /\ DOMAIN t = 1 .. m
  BY LenProperties
<1>4. \A i \in 1 .. n : r[i] \in A => IF i = n THEN t[1] \in A ELSE r[i + 1] \in B
  BY <1>1
<1>5. \A i \in 1 .. m : t[i] \in A => i + 1 \in 1 .. m /\ t[i + 1] \in B
  BY <1>3 DEF Followed
<1> HIDE DEF s, n, m
<1> SUFFICES ASSUME NEW i \in DOMAIN s, s[i] \in A, NEW h, h = i + 1
             PROVE  h \in DOMAIN s /\ s[h] \in B
  BY DEF Followed, s
<1>6. i \in Nat \ {0} /\ i <= n + m - 1 /\ h \in Nat /\ DOMAIN s = 1 .. Len(s)
  BY <1>1, <1>2
<1>7. CASE i < n
  <2>1. i \in 1 .. n /\ i # n /\ h \in 1 .. n /\ i \in 1 .. Len(s) /\ h \in 1 .. Len(s)
    BY <1>1, <1>2, <1>6, <1>7
  <2>2. s[i] = r[i] /\ s[h] = r[h]
    BY <1>2, <2>1
  <2> QED
    BY <1>4, <1>6, <2>1, <2>2
\* Behind the row, the operations are those of before.
<1>8. ASSUME NEW j \in 1 .. m, t[j] \in A, NEW g, g = j + 1, h = g + n - 1
      PROVE  h \in DOMAIN s /\ s[h] \in B
  <2>1. g \in 1 .. m /\ t[g] \in B
    BY <1>5, <1>8
  <2>2. h \in 1 .. Len(s) /\ ~ (h <= n) /\ h - n + 1 = g
    BY <1>1, <1>2, <1>6, <1>8, <2>1
  <2>3. s[h] = t[g]
    BY <1>2, <2>2
  <2> QED
    BY <1>6, <2>1, <2>2, <2>3
<1>9. CASE i = n
  <2>1. t[1] \in A
    BY <1>1, <1>2, <1>4, <1>6, <1>9
  <2> QED
    BY <1>1, <1>6, <1>8, <1>9, <2>1
<1>10. CASE i > n
  <2> DEFINE j == i - n + 1
  <2>1. j \in 1 .. m /\ h = (j + 1) + n - 1
    BY <1>1, <1>6, <1>10
  <2>2. s[i] = t[j]
    BY <1>1, <1>2, <1>6, <1>10
  <2> HIDE DEF j
  <2> QED
    BY <1>8, <2>1, <2>2
<1> QED
  BY <1>1, <1>6, <1>7, <1>9, <1>10

\* A row of operations that may replace the first one.
Fits(r, o, A, B) == \A i \in 1 .. Len(r) : r[i] \in A => IF i = Len(r) THEN o \in A ELSE r[i + 1] \in B

LinkedFits(r, o) ==
    /\ Fits(r, o, Settled, {Barrier})
    /\ \A c \in Ordinal :
          /\ Fits(r, o, {MoveTo(Candidate(c), "model_validating")}, {MoveTo(Candidate(c), "staged")})
          /\ Fits(r, o, {MoveTo(Candidate(c), "staged")}, {MoveTo(Candidate(c), "e2e_running")})
    /\ Fits(r, o, Running, {Ensure(Task, "e2e_validating")})
    /\ Fits(r, o, Modelling, {Again("e2e_validating")})
    /\ Fits(r, o, Validating, Launches)

LEMMA ReplaceLinked ==
  ASSUME NEW T, NEW Q, Holds(unadvanced, calls, T, Q), NEW k \in Call, NEW r \in Seq(T),
         calls[k].todo # <<>>, Replace(k, r), AllLinked, LinkedFits(r, Next1(k))
  PROVE  AllLinked'
<1>1. calls \in [Call -> Row(T, Q)] /\ calls[k].todo \in Seq(T)
  BY DEF Holds, Row
<1>2. Linked(calls[k].todo)
  BY DEF AllLinked
<1>3. ASSUME NEW A, NEW B, Followed(calls[k].todo, A, B), Fits(r, Next1(k), A, B)
      PROVE  Followed(r \o Tail(calls[k].todo), A, B)
  BY <1>1, <1>3, ReplaceFollowed DEF Fits, Next1
<1>4. Linked(r \o Tail(calls[k].todo))
  BY <1>2, <1>3 DEF Linked, LinkedFits
<1>5. /\ calls'[k].todo = r \o Tail(calls[k].todo)
      /\ \A l \in Call : l # k => calls'[l] = calls[l]
  BY <1>1 DEF Replace, Row
<1> QED
  BY <1>4, <1>5 DEF AllLinked

LEMMA EmptyFits == \A o : LinkedFits(<<>>, o)
BY DEF LinkedFits, Fits

LEMMA NewLinked ==
  ASSUME NEW T, NEW Q, Holds(unadvanced, calls, T, Q), NEW k \in Call, NEW row,
         calls' = [calls EXCEPT ![k] = row], AllLinked, Linked(row.todo)
  PROVE  AllLinked'
BY DEF Holds, AllLinked

LEMMA EmptyLinked == Linked(<<>>)
BY DEF Linked, Followed

-----------------------------------------------------------------------------
(* The moves of an ensure.                                                 *)

RPath == <<"proposed", "building", "built", "correctness_running",
           "performance_running", "round_waiting", "model_validating", "staged",
           "e2e_running", "release_candidate">>

RAt(s) == CHOOSE i \in DOMAIN RPath : RPath[i] = s

LEMMA PathIs ==
  /\ DOMAIN RPath = 1 .. 10
  /\ \A m \in 1 .. 10 :
        /\ RPath[m] \in PathStates /\ (RPath[m] \in Finalist <=> m >= 7)
        /\ RPath[m] = "round_waiting" <=> m = 6
        /\ RPath[m] = "model_validating" <=> m = 7
        /\ RPath[m] = "staged" <=> m = 8
        /\ RPath[m] = "e2e_running" <=> m = 9
        /\ RPath[m] = "release_candidate" <=> m = 10
  /\ \A s \in PathStates : \E m \in 1 .. 10 : RPath[m] = s
<1>1. DOMAIN RPath = 1 .. 10
  BY DEF RPath
<1>2. /\ RPath[1] = "proposed" /\ RPath[2] = "building" /\ RPath[3] = "built"
      /\ RPath[4] = "correctness_running" /\ RPath[5] = "performance_running"
      /\ RPath[6] = "round_waiting" /\ RPath[7] = "model_validating" /\ RPath[8] = "staged"
      /\ RPath[9] = "e2e_running" /\ RPath[10] = "release_candidate"
  BY DEF RPath
<1>3. \A m \in 1 .. 10 : m = 1 \/ m = 2 \/ m = 3 \/ m = 4 \/ m = 5 \/ m = 6 \/ m = 7 \/ m = 8
                         \/ m = 9 \/ m = 10
  OBVIOUS
<1> HIDE DEF RPath
<1> QED
  BY <1>1, <1>2, <1>3 DEF PathStates, Finalist

LEMMA AtIs == \A s \in PathStates : RAt(s) \in 1 .. 10 /\ RPath[RAt(s)] = s
BY PathIs DEF RAt

LEMMA ChainIs ==
  ASSUME NEW c \in Ordinal, cs(c) \in PathStates, NEW to \in PathStates, cs(c) # to
  PROVE  RoundMoves(Candidate(c), to) =
            IF After(RPath, cs(c), to) THEN <<>>
            ELSE [i \in 1 .. RAt(to) - RAt(cs(c)) |-> MoveTo(Candidate(c), RPath[RAt(cs(c)) + i])]
<1>1. Candidate(c) # Task /\ to # "rejected" /\ cs(c) # "rejected" /\ cs(c) # "build_failed"
  BY RoundNames DEF PathStates, Finalist
<1> QED
  BY <1>1 DEF RoundMoves, RPath, RAt, cs

LEMMA CandidateMovesAre ==
  ASSUME NEW c \in Ordinal, cs(c) \in PathStates, NEW to \in PathStates, cs(c) # to,
         RoundMoves(Candidate(c), to) # <<>>
  PROVE  /\ RAt(cs(c)) < RAt(to)
         /\ RoundMoves(Candidate(c), to) =
               [i \in 1 .. RAt(to) - RAt(cs(c)) |->
                  MoveTo(Candidate(c), RPath[RAt(cs(c)) + i])]
<1>1. RoundMoves(Candidate(c), to) = IF After(RPath, cs(c), to) THEN <<>>
        ELSE [i \in 1 .. RAt(to) - RAt(cs(c)) |-> MoveTo(Candidate(c), RPath[RAt(cs(c)) + i])]
  BY ChainIs
<1>2. ~ After(RPath, cs(c), to)
  BY <1>1
<1>3. /\ RAt(to) \in 1 .. 10 /\ RAt(cs(c)) \in 1 .. 10
      /\ RPath[RAt(to)] = to /\ RPath[RAt(cs(c))] = cs(c)
  BY AtIs
<1>4. ~ (RAt(cs(c)) > RAt(to))
  BY <1>2, <1>3, PathIs DEF After
<1>5. RAt(cs(c)) # RAt(to)
  BY <1>3
<1> QED
  BY <1>1, <1>2, <1>3, <1>4, <1>5

\* What an ensure on a candidate is replaced by.
LEMMA EnsureCandidate ==
  ASSUME RoundInv, NEW o \in RoundOps, o.do = "ensure", o.who # Task, Proposed
  PROVE  /\ RoundMoves(o.who, o.to) \in Seq(RoundOps)
         /\ ~ Closed => LinkedFits(RoundMoves(o.who, o.to), o)
         /\ \A w \in Ordinal : o = Ensure(Candidate(w), "e2e_running") /\ cs(w) = "round_waiting" =>
               /\ RoundMoves(o.who, o.to) # <<>>
               /\ Head(RoundMoves(o.who, o.to)) = MoveTo(Candidate(w), "model_validating")
<1> DEFINE r == RoundMoves(o.who, o.to)
<1>1. PICK c \in Ordinal : o.who = Candidate(c) /\ o = Ensure(Candidate(c), o.to)
  BY RoundOpIs DEF Ensure, Do, Op
<1>2. /\ o.to \in PathStates \cup {"rejected"}
      /\ o.to \notin {"proposed", "built", "model_validating", "staged"}
      /\ o.to = "release_candidate" => Closed
      /\ RoundDue(o) /\ Candidate(c) # Task
  BY RoundOpIs, RoundNames DEF Do, Op, RoundOps
<1>3. cs(c) \in {"rejected"} \cup PathStates
  BY DEF RoundInv, RoundFacts, Proposed
<1>4. ASSUME r = <<>>
      PROVE  /\ r \in Seq(RoundOps) /\ LinkedFits(r, o)
             /\ \A w \in Ordinal : ~ (o = Ensure(Candidate(w), "e2e_running") /\ cs(w) = "round_waiting")
  <2>1. ASSUME NEW w \in Ordinal, o = Ensure(Candidate(w), "e2e_running"), cs(w) = "round_waiting"
        PROVE  FALSE
    <3>1. w = c /\ o.to = "e2e_running"
      BY <1>1, <2>1, RoundNames DEF Ensure, Op
    <3>2. r = IF After(RPath, "round_waiting", "e2e_running") THEN <<>>
          ELSE [i \in 1 .. RAt("e2e_running") - RAt("round_waiting") |->
                  MoveTo(Candidate(c), RPath[RAt("round_waiting") + i])]
      <4>1. "round_waiting" \in PathStates /\ "e2e_running" \in PathStates
        BY DEF PathStates, Finalist
      <4>2. cs(c) = "round_waiting" /\ cs(c) # "e2e_running"
        BY <2>1, <3>1
      <4>3. RoundMoves(Candidate(c), "e2e_running") =
              IF After(RPath, cs(c), "e2e_running") THEN <<>>
              ELSE [i \in 1 .. RAt("e2e_running") - RAt(cs(c)) |->
                      MoveTo(Candidate(c), RPath[RAt(cs(c)) + i])]
        BY <4>1, <4>2, ChainIs
      <4>4. o.who = Candidate(c) /\ o.to = "e2e_running"
        BY <1>1, <3>1
      <4> QED
        BY <4>2, <4>3, <4>4
    <3>3. ~ After(RPath, "round_waiting", "e2e_running")
      BY PathIs DEF After
    <3>4. RAt("e2e_running") = 9 /\ RAt("round_waiting") = 6
      BY AtIs, PathIs DEF PathStates, Finalist
    <3>5. r = [i \in 1 .. 3 |-> MoveTo(Candidate(c), RPath[6 + i])]
      BY <3>2, <3>3, <3>4
    <3> HIDE DEF r
    <3>6. 1 \in DOMAIN r
      BY <3>5
    <3> QED
      BY <1>4, <3>6
  <2> QED
    BY <1>4, <2>1, EmptySeq, EmptyFits
<1>5. ASSUME r # <<>>, o.to = "rejected"
      PROVE  r \in Seq(RoundOps) /\ LinkedFits(r, o)
             /\ \A w \in Ordinal : o # Ensure(Candidate(w), "e2e_running")
  <2> DEFINE m == MoveTo(Candidate(c), "rejected")
  <2>1. r = <<m>>
    BY <1>1, <1>2, <1>5 DEF RoundMoves
  <2>2. m \in LateOp
    BY DEF LateOp
  <2>3. RoundDue(m)
    BY <1>1, <1>2, <1>5, RoundNames DEF RoundDue, MoveTo, Op, Enqueue, Finalist
  <2>4. m \in RoundOps
    BY <2>2, <2>3 DEF RoundOps
  <2>9. m.do = "move" /\ m.who = Candidate(c) /\ m.to = "rejected" /\ o.to = "rejected"
    BY <1>5 DEF MoveTo, Op
  <2>10. o \in Settled
    BY <1>1, <1>5 DEF Settled, Ensure, Op
  <2>11. m \notin Running /\ m \notin Modelling /\ m \notin Validating
    BY <1>2, <2>9 DEF Running, Modelling, Validating, Op
  <2>12. \A d \in Ordinal : m # MoveTo(Candidate(d), "model_validating")
                           /\ m # MoveTo(Candidate(d), "staged")
    BY <2>9 DEF MoveTo, Op
  <2>13. \A w \in Ordinal : o # Ensure(Candidate(w), "e2e_running")
    BY <2>9 DEF Ensure, Op
  <2>5. /\ o \in Settled /\ m \notin Running /\ m \notin Modelling /\ m \notin Validating
        /\ \A d \in Ordinal : m # MoveTo(Candidate(d), "model_validating")
                              /\ m # MoveTo(Candidate(d), "staged")
        /\ \A w \in Ordinal : o # Ensure(Candidate(w), "e2e_running")
    BY <2>10, <2>11, <2>12, <2>13
  <2> HIDE DEF m
  <2>6. Len(r) = 1 /\ r[1] = m /\ r \in Seq(RoundOps)
    BY <2>1, <2>4
  <2>7. \A i \in 1 .. Len(r) : i = Len(r) /\ r[i] = m
    BY <2>6
  <2> HIDE DEF r
  <2>8. LinkedFits(r, o)
    BY <2>5, <2>7 DEF LinkedFits, Fits
  <2> QED
    BY <2>5, <2>6, <2>8
<1>6. ASSUME r # <<>>, o.to # "rejected"
      PROVE  /\ r \in Seq(RoundOps) /\ (~ Closed => LinkedFits(r, o))
             /\ \A w \in Ordinal : o = Ensure(Candidate(w), "e2e_running") /\ cs(w) = "round_waiting" =>
                   Head(r) = MoveTo(Candidate(w), "model_validating")
  <2>1. o.to \in PathStates /\ cs(c) # o.to /\ cs(c) # "rejected"
    BY <1>1, <1>2, <1>6 DEF RoundMoves, cs
  <2> DEFINE p == RAt(cs(c))
             q == RAt(o.to)
  <2>2. /\ p < q /\ r = [i \in 1 .. q - p |-> MoveTo(Candidate(c), RPath[p + i])]
        /\ p \in 1 .. 10 /\ q \in 1 .. 10 /\ RPath[p] = cs(c) /\ RPath[q] = o.to
    BY <1>1, <1>3, <1>6, <2>1, CandidateMovesAre, AtIs
  <2> HIDE DEF p, q, r
  <2>3. q \notin {7, 8} /\ (q = 10 => Closed) /\ (q >= 7 => p >= 6)
    <3>1. q >= 7 => Chosen(c)
      BY <1>1, <1>2, <2>2, PathIs DEF RoundDue
    <3>2. q >= 7 => cs(c) \in {"round_waiting"} \cup Finalist
      BY <2>1, <3>1 DEF Chosen
    <3> QED
      BY <1>2, <2>2, <3>2, PathIs
  <2>4. ASSUME NEW m \in 1 .. 10, m <= q PROVE MoveTo(Candidate(c), RPath[m]) \in RoundOps
    <3> DEFINE x == MoveTo(Candidate(c), RPath[m])
    <3>1. x \in LateOp
      BY PathIs DEF LateOp
    <3>2. /\ RPath[m] \in Finalist => o.to \in Finalist
          /\ RPath[m] \in {"round_waiting"} \cup Finalist => o.to \in {"round_waiting"} \cup Finalist
          /\ RPath[m] = "release_candidate" => o.to = "release_candidate"
          /\ RPath[m] # "rejected"
      <4>1. RPath[m] # "rejected"
        BY PathIs DEF PathStates, Finalist
      <4> QED
        BY <2>2, <2>4, <4>1, PathIs
    <3>3. x.who = Candidate(c) /\ x.to = RPath[m] /\ x.do = "move"
      BY DEF MoveTo, Op
    <3>4. RoundDue(x)
      BY <1>1, <1>2, <3>2, <3>3, RoundNames DEF RoundDue, Enqueue, Op
    <3> QED
      BY <3>1, <3>4 DEF RoundOps
  <2>5. /\ Len(r) = q - p /\ \A i \in 1 .. q - p : r[i] = MoveTo(Candidate(c), RPath[p + i])
        /\ r \in Seq(RoundOps)
    <3>1. \A i \in 1 .. q - p : p + i \in 1 .. 10 /\ p + i <= q
      BY <2>2
    <3>2. \A i \in 1 .. q - p : MoveTo(Candidate(c), RPath[p + i]) \in RoundOps
      BY <2>4, <3>1
    <3>3. q - p \in Nat
      BY <2>2
    <3> QED
      BY <2>2, <3>2, <3>3
  <2>6. ~ Closed => LinkedFits(r, o)
    <3> SUFFICES ASSUME ~ Closed PROVE LinkedFits(r, o)
      OBVIOUS
    <3>1. q \in 1 .. 6 \/ q = 9
      BY <2>2, <2>3
    <3>2. ASSUME NEW i \in 1 .. Len(r), NEW m, m = p + i
          PROVE  /\ m \in 1 .. 10 /\ r[i] = MoveTo(Candidate(c), RPath[m])
                 /\ m = 6 => i = Len(r) /\ q = 6
                 /\ m = 7 \/ m = 8 => i # Len(r) /\ r[i + 1] = MoveTo(Candidate(c), RPath[m + 1])
                 /\ m = 9 => i = Len(r) /\ q = 9
      <4>1. /\ m \in 1 .. 10 /\ m <= q /\ m > p /\ i \in 1 .. q - p
            /\ r[i] = MoveTo(Candidate(c), RPath[m])
        <5>1. i \in 1 .. q - p
          BY <2>5, <3>2
        <5>2. m \in 1 .. 10 /\ m <= q /\ m > p
          BY <2>2, <3>2, <5>1
        <5> QED
          BY <2>5, <3>2, <5>1, <5>2
      <4>2. m = 6 => q = 6
        BY <2>2, <2>3, <3>1, <4>1
      <4>3. m = 7 \/ m = 8 => q = 9
        BY <2>2, <3>1, <4>1
      <4>4. m = 9 => q = 9
        BY <2>2, <3>1, <4>1
      <4>5. m < q => i + 1 \in 1 .. q - p /\ p + (i + 1) = m + 1
        BY <2>2, <3>2, <4>1
      <4>6. m < q => r[i + 1] = MoveTo(Candidate(c), RPath[m + 1])
        <5> DEFINE h == i + 1
        <5> HIDE DEF h
        <5>1. m < q => h \in 1 .. q - p /\ p + h = m + 1
          BY <4>5 DEF h
        <5>2. m < q => r[h] = MoveTo(Candidate(c), RPath[m + 1])
          BY <2>5, <5>1
        <5> QED
          BY <5>2 DEF h
      <4>7. m = q <=> i = Len(r)
        <5>1. Len(r) = q - p /\ i \in 1 .. q - p /\ m = p + i /\ p \in 1 .. 10 /\ q \in 1 .. 10
          BY <2>2, <2>5, <3>2, <4>1
        <5> DEFINE n == Len(r)
        <5>2. n = q - p
          BY <5>1
        <5> HIDE DEF n
        <5>3. m = q <=> i = n
          BY <5>1, <5>2
        <5> QED
          BY <5>3 DEF n
      <4> QED
        BY <2>2, <4>1, <4>2, <4>3, <4>4, <4>6, <4>7
    <3>3. ASSUME NEW i \in 1 .. Len(r)
          PROVE  /\ r[i] \in Settled => i = Len(r) /\ o \in Settled
                 /\ r[i] \in Running => i = Len(r) /\ o \in Running
                 /\ r[i] \notin Modelling /\ r[i] \notin Validating
                 /\ \A d \in Ordinal :
                      /\ r[i] = MoveTo(Candidate(d), "model_validating") =>
                            i # Len(r) /\ r[i + 1] = MoveTo(Candidate(d), "staged")
                      /\ r[i] = MoveTo(Candidate(d), "staged") =>
                            i # Len(r) /\ r[i + 1] = MoveTo(Candidate(d), "e2e_running")
      <4> DEFINE m == p + i
                 s == RPath[m]
      <4>1. /\ m \in 1 .. 10 /\ r[i] = MoveTo(Candidate(c), s)
            /\ m = 6 => i = Len(r) /\ q = 6
            /\ m = 7 \/ m = 8 => i # Len(r) /\ r[i + 1] = MoveTo(Candidate(c), RPath[m + 1])
            /\ m = 9 => i = Len(r) /\ q = 9
        BY <3>2
      <4>2. /\ s = "round_waiting" <=> m = 6
            /\ s = "model_validating" <=> m = 7
            /\ s = "staged" <=> m = 8
            /\ s = "e2e_running" <=> m = 9
            /\ s # "rejected"
        BY <4>1, PathIs DEF PathStates, Finalist
      <4>3. RPath[8] = "staged" /\ RPath[9] = "e2e_running" /\ RPath[6] = "round_waiting"
        BY PathIs
      <4>4. m = 7 => m + 1 = 8
        OBVIOUS
      <4>5. m = 8 => m + 1 = 9
        OBVIOUS
      <4>6. q = 6 => o \in Settled
        BY <1>1, <2>2, <4>3 DEF Settled, Ensure, Op
      <4>7. q = 9 => o \in Running
        BY <1>1, <2>2, <4>3 DEF Running, Ensure, Op
      <4> HIDE DEF m, s
      <4>8. /\ r[i] \in Settled => m = 6
            /\ r[i] \in Running => m = 9
            /\ r[i] \notin Modelling /\ r[i] \notin Validating
            /\ \A d \in Ordinal :
                  /\ r[i] = MoveTo(Candidate(d), "model_validating") => d = c /\ m = 7
                  /\ r[i] = MoveTo(Candidate(d), "staged") => d = c /\ m = 8
        <5>1. r[i].do = "move" /\ r[i].who = Candidate(c) /\ r[i].to = s
          BY <4>1 DEF MoveTo, Op
        <5>2. /\ r[i] \in Settled => s \in {"round_waiting", "rejected"}
              /\ r[i] \in Running => s = "e2e_running"
          BY <5>1 DEF Settled, Running, Op
        <5>3. r[i] \notin Modelling /\ r[i] \notin Validating
          BY <1>2, <5>1 DEF Modelling, Validating, Op
        <5>4. ASSUME NEW d \in Ordinal
              PROVE  /\ r[i] = MoveTo(Candidate(d), "model_validating") => d = c /\ m = 7
                     /\ r[i] = MoveTo(Candidate(d), "staged") => d = c /\ m = 8
          BY <4>2, <5>1, RoundNames DEF MoveTo, Op
        <5> QED
          BY <4>2, <5>2, <5>3, <5>4
      <4> QED
        BY <4>1, <4>3, <4>4, <4>5, <4>6, <4>7, <4>8
    <3> QED
      BY <3>3 DEF LinkedFits, Fits
  <2>7. ASSUME NEW w \in Ordinal, o = Ensure(Candidate(w), "e2e_running"), cs(w) = "round_waiting"
        PROVE  Head(r) = MoveTo(Candidate(w), "model_validating")
    <3>1. w = c
      BY <1>1, <2>7, RoundNames DEF Ensure, Op
    <3>2. p = 6
      BY <2>2, <2>7, <3>1, PathIs
    <3>3. r[1] = MoveTo(Candidate(c), RPath[7])
      BY <2>2, <2>5, <3>2
    <3>4. Head(r) = r[1]
      BY <1>6, <2>5
    <3> QED
      BY <3>1, <3>3, <3>4, PathIs
  <2> QED
    BY <2>5, <2>6, <2>7
<1> QED
  BY <1>4, <1>5, <1>6

-----------------------------------------------------------------------------
(* The handlers of the round.                                              *)

LEMMA AppendFollowed ==
  ASSUME NEW T, NEW t \in Seq(T), NEW m \in T, NEW A, NEW B, m \notin A, Followed(t, A, B)
  PROVE  Followed(t \o <<m>>, A, B)
<1>1. t \o <<m>> = Append(t, m)
  OBVIOUS
<1>2. /\ Append(t, m) \in Seq(T) /\ DOMAIN Append(t, m) = 1 .. Len(t) + 1 /\ DOMAIN t = 1 .. Len(t)
      /\ \A i \in 1 .. Len(t) : Append(t, m)[i] = t[i]
      /\ Append(t, m)[Len(t) + 1] = m /\ Len(t) \in Nat
  BY AppendProperties, LenProperties
<1> DEFINE s == Append(t, m)
<1> HIDE DEF s
<1>3. ASSUME NEW i \in DOMAIN s, s[i] \in A, NEW h, h = i + 1 PROVE h \in DOMAIN s /\ s[h] \in B
  <2>1. i \in 1 .. Len(t) /\ s[i] = t[i]
    BY <1>2, <1>3 DEF s
  <2>2. h \in 1 .. Len(t) /\ t[h] \in B
    BY <1>2, <1>3, <2>1 DEF Followed
  <2> QED
    BY <1>2, <2>2 DEF s
<1> QED
  BY <1>1, <1>2, <1>3 DEF Followed, s

\* An operation that need not stand before any other.
Cold(o) == /\ o \notin Settled \cup Running \cup Modelling \cup Validating
           /\ \A c \in Ordinal : o \notin {MoveTo(Candidate(c), "model_validating"),
                                           MoveTo(Candidate(c), "staged")}

LEMMA ColdLinked == ASSUME NEW t, \A i \in DOMAIN t : Cold(t[i]) PROVE Linked(t)
BY DEF Linked, Followed, Cold

LEMMA AppendLinked ==
  ASSUME NEW T, NEW t \in Seq(T), NEW m \in T, Cold(m), Linked(t)
  PROVE  Linked(t \o <<m>>)
<1>1. ASSUME NEW A, NEW B, m \notin A, Followed(t, A, B) PROVE Followed(t \o <<m>>, A, B)
  BY <1>1, AppendFollowed
<1> QED
  BY <1>1 DEF Linked, Cold

LEMMA ColdOps ==
  /\ \A j : Cold(Enqueue(j)) /\ Cold(Mark(j)) /\ Cold(Do("propose", j)) /\ Cold(Barrier)
  /\ Cold(Ensure(Task, "searching")) /\ Cold(Ensure(Task, "evaluating"))
  /\ \A c \in Ordinal, s \in {"building", "correctness_running", "performance_running"} :
        Cold(Ensure(Candidate(c), s))
<1>1. ASSUME NEW o, o.do \notin {"ensure", "again", "move"} PROVE Cold(o)
  BY <1>1 DEF Cold, Settled, Running, Modelling, Validating, MoveTo, Op
<1>2. ASSUME NEW o, o.do = "ensure",
             o.to \in {"searching", "evaluating", "building", "correctness_running",
                       "performance_running"} PROVE Cold(o)
  BY <1>2 DEF Cold, Settled, Running, Modelling, Validating, MoveTo, Op
<1>3. \A j : /\ Enqueue(j).do = "enqueue" /\ Mark(j).do = "mark"
             /\ Do("propose", j).do = "propose" /\ Barrier.do = "barrier"
  BY DEF Enqueue, Mark, Do, Barrier, Op
<1>4. \A e, s : Ensure(e, s).do = "ensure" /\ Ensure(e, s).to = s
  BY DEF Ensure, Op
<1> QED
  BY <1>1, <1>2, <1>3, <1>4

LEMMA Apart == \A o \in EarlyOp : o \notin LateOp
BY RoundNames DEF EarlyOp, LateOp, Op, Do, Mark, Enqueue, Ensure, MoveTo, Barrier

\* What the handlers consist of.
LEMMA DueOps ==
  ASSUME workflow = "optimization"
  PROVE  /\ \A j \in RoundJobs : Mark(j) \in RoundOps /\ Mark(j) \in EarlyOp
         /\ Barrier \in RoundOps /\ Do("propose", Generate) \in RoundOps
         /\ Enqueue(Generate) \in RoundOps /\ Enqueue(Profile) \in RoundOps
         /\ Ensure(Task, "searching") \in RoundOps /\ Ensure(Task, "evaluating") \in RoundOps
         /\ Ensure(Task, "e2e_validating") \in RoundOps
         /\ Closed => /\ Ensure(Task, "awaiting_signoff") \in RoundOps
                      /\ Ensure(Task, "rejected") \in RoundOps
         /\ \A c \in Ordinal :
               /\ Ensure(Candidate(c), "building") \in RoundOps
               /\ Ensure(Candidate(c), "correctness_running") \in RoundOps
               /\ Ensure(Candidate(c), "performance_running") \in RoundOps
               /\ Enqueue(WBuild(c)) \in RoundOps /\ Enqueue(Correctness(c)) \in RoundOps
               /\ Won(Correctness(c)) => Enqueue(Performance(c)) \in RoundOps
               /\ Won(Performance(c)) => Ensure(Candidate(c), "round_waiting") \in RoundOps
               /\ LostOne(c) => Ensure(Candidate(c), "rejected") \in RoundOps
               /\ Chosen(c) /\ Won(Performance(c)) => Ensure(Candidate(c), "e2e_running") \in RoundOps
               /\ Chosen(c) /\ Won(Performance(c)) => Enqueue(E2E(c)) \in RoundOps
               /\ Chosen(c) /\ Won(Performance(c)) /\ Closed =>
                     Ensure(Candidate(c), "release_candidate") \in RoundOps
<1>1. \A o \in EarlyOp : o.to \notin {"awaiting_signoff", "rejected"} \/ Closed => o \in RoundOps
  <2> SUFFICES ASSUME NEW o \in EarlyOp, o.to \notin {"awaiting_signoff", "rejected"} \/ Closed
               PROVE  RoundDue(o)
    BY DEF RoundOps
  <2>1. /\ \A c \in Ordinal : /\ o.who # Candidate(c) /\ o # Enqueue(E2E(c))
                              /\ o # Enqueue(Performance(c))
        /\ o.who = Task \/ o.to \in {"-", "queued"}
    BY RoundNames DEF EarlyOp, Op, Do, Mark, Enqueue
  <2> QED
    BY <2>1 DEF RoundDue
<1>2. /\ \A j \in RoundJobs : Mark(j) \in EarlyOp /\ Mark(j).to = "-"
      /\ Do("propose", Generate) \in EarlyOp /\ Do("propose", Generate).to = "-"
      /\ \A j \in {Profile, Generate} : Enqueue(j) \in EarlyOp /\ Enqueue(j).to = "queued"
      /\ \A s \in {"searching", "evaluating", "e2e_validating", "awaiting_signoff", "rejected"} :
            Ensure(Task, s) \in EarlyOp /\ Ensure(Task, s).to = s
  <2>1. /\ \A j : Mark(j).to = "-" /\ Do("propose", j).to = "-" /\ Enqueue(j).to = "queued"
        /\ \A s : Ensure(Task, s).to = s
    BY DEF Mark, Do, Enqueue, Ensure, Op
  <2>2. /\ \A j \in RoundJobs : Mark(j) \in EarlyOp
        /\ Do("propose", Generate) \in EarlyOp
        /\ \A j \in {Profile, Generate} : Enqueue(j) \in EarlyOp
    BY DEF EarlyOp
  <2>3. \A s \in {"searching", "evaluating", "e2e_validating", "awaiting_signoff", "rejected"} :
            Ensure(Task, s) \in EarlyOp
    BY DEF EarlyOp, Ensure
  <2> QED
    BY <2>1, <2>2, <2>3
<1>3. Barrier \in RoundOps
  BY RoundNames DEF RoundOps, LateOp, RoundDue, Barrier, Do, Op, Candidate, Task, Finalist, Enqueue
<1>4. ASSUME NEW c \in Ordinal,
             NEW s \in {"building", "correctness_running", "performance_running",
                        "round_waiting", "e2e_running", "release_candidate", "rejected"},
             s \in Finalist => Chosen(c), s \in {"round_waiting"} \cup Finalist => Won(Performance(c)),
             s = "rejected" => LostOne(c), s = "release_candidate" => Closed
      PROVE  Ensure(Candidate(c), s) \in RoundOps
  <2> DEFINE o == Ensure(Candidate(c), s)
  <2>1. o \in LateOp
    BY DEF LateOp
  <2>2. o.who = Candidate(c) /\ o.to = s /\ o.do = "ensure"
    BY DEF Ensure, Op
  <2>3. RoundDue(o)
    BY <1>4, <2>2, RoundNames DEF RoundDue, Enqueue, Op
  <2> QED
    BY <2>1, <2>3 DEF RoundOps
<1>5. ASSUME NEW c \in Ordinal, NEW j \in {WBuild(c), Correctness(c), Performance(c), E2E(c)},
             j = E2E(c) => Chosen(c) /\ Won(Performance(c)), j = Performance(c) => Won(Correctness(c))
      PROVE  Enqueue(j) \in RoundOps
  <2> DEFINE o == Enqueue(j)
  <2>1. o \in LateOp /\ j \in RoundJobs
    BY <1>5, RoundNames DEF LateOp
  <2>2. o.who = j /\ o.to = "queued"
    BY DEF Enqueue, Op
  <2>3. \A d \in Ordinal : /\ o = Enqueue(E2E(d)) => j = E2E(d)
                           /\ o = Enqueue(Performance(d)) => j = Performance(d)
    BY <2>2 DEF Enqueue, Op
  <2>4. \A d \in Ordinal : /\ j = E2E(d) => d = c /\ j = E2E(c)
                           /\ j = Performance(d) => d = c /\ j = Performance(c)
    BY <1>5, RoundNames
  <2> HIDE DEF o
  <2>5. RoundDue(o)
    BY <1>5, <2>1, <2>2, <2>3, <2>4, RoundNames DEF RoundDue
  <2> QED
    BY <2>1, <2>5 DEF RoundOps, o
<1>6. \A c \in Ordinal : /\ WBuild(c) # E2E(c) /\ WBuild(c) # Performance(c)
                         /\ Correctness(c) # E2E(c) /\ Correctness(c) # Performance(c)
                         /\ Performance(c) # E2E(c)
  BY RoundNames
<1>7. \A c \in Ordinal :
               /\ Ensure(Candidate(c), "building") \in RoundOps
               /\ Ensure(Candidate(c), "correctness_running") \in RoundOps
               /\ Ensure(Candidate(c), "performance_running") \in RoundOps
               /\ Won(Performance(c)) => Ensure(Candidate(c), "round_waiting") \in RoundOps
               /\ LostOne(c) => Ensure(Candidate(c), "rejected") \in RoundOps
               /\ Chosen(c) /\ Won(Performance(c)) => Ensure(Candidate(c), "e2e_running") \in RoundOps
               /\ Chosen(c) /\ Won(Performance(c)) /\ Closed =>
                     Ensure(Candidate(c), "release_candidate") \in RoundOps
  BY <1>4 DEF Finalist
<1>8. \A c \in Ordinal :
               /\ Enqueue(WBuild(c)) \in RoundOps /\ Enqueue(Correctness(c)) \in RoundOps
               /\ Won(Correctness(c)) => Enqueue(Performance(c)) \in RoundOps
               /\ Chosen(c) /\ Won(Performance(c)) => Enqueue(E2E(c)) \in RoundOps
  BY <1>5, <1>6
<1> QED
  BY <1>1, <1>2, <1>3, <1>7, <1>8

\* What may be done for a job that has succeeded, in an order that is right.
Fine(h) == /\ h \in Seq(RoundOps)
           /\ Proposed \/ Before(h, {Do("propose", Generate)}, LateOp)
           /\ Evaluated \/ Before(h, AskEvaluating, LateOp)
           /\ Closed \/ Linked(h)

LEMMA FineMark ==
  ASSUME workflow = "optimization", NEW h, Fine(h), NEW j \in RoundJobs
  PROVE  Fine(h \o <<Mark(j)>>)
<1>1. Mark(j) \in RoundOps /\ Mark(j) \notin LateOp /\ Cold(Mark(j))
  BY DueOps, Apart, ColdOps
<1> QED
  BY <1>1, AppendBefore, AppendLinked DEF Fine

LEMMA BuildAllDue ==
  ASSUME workflow = "optimization"
  PROVE  BuildAll \in Seq(RoundOps) /\ \A i \in DOMAIN BuildAll : Cold(BuildAll[i])
<1>0. Candidates \in Nat
  BY CandidatesAssumption
<1>1. ASSUME NEW i \in 1 .. 2 * Candidates
      PROVE  (i + 1) \div 2 \in Ordinal
  BY <1>0, <1>1 DEF Ordinal
<1>2. ASSUME NEW i \in 1 .. 2 * Candidates
      PROVE  BuildAll[i] \in RoundOps /\ Cold(BuildAll[i])
  <2> DEFINE c == (i + 1) \div 2
  <2>1. c \in Ordinal
    BY <1>1
  <2>2. BuildAll[i] = IF i % 2 = 1 THEN Ensure(Candidate(c), "building") ELSE Enqueue(WBuild(c))
    BY DEF BuildAll
  <2> HIDE DEF c
  <2> QED
    BY <2>1, <2>2, DueOps, ColdOps
<1>3. DOMAIN BuildAll = 1 .. 2 * Candidates /\ 2 * Candidates \in Nat
  BY <1>0 DEF BuildAll
<1>4. BuildAll = [i \in 1 .. 2 * Candidates |-> BuildAll[i]]
  BY DEF BuildAll
<1> QED
  BY <1>2, <1>3, <1>4

LEMMA LateJob ==
  ASSUME RoundInv, NEW j \in Succ, j \notin {Profile, Generate}
  PROVE  Proposed /\ Evaluated
BY RoundIs DEF RoundInv, RoundFacts, Succ

LEMMA RoundJobIs ==
  ASSUME NEW j \in RoundJobs
  PROVE  \/ j = Profile \/ j = Generate
         \/ \E c \in Ordinal : j \in {WBuild(c), Correctness(c), Performance(c), E2E(c)} /\ j[2] = c
BY DEF RoundJobs, WBuild, Correctness, Performance, E2E

\* Two operations, the second of them to be done right behind the first.
LEMMA SettleFine ==
  ASSUME workflow = "optimization", Proposed, Evaluated, NEW c \in Ordinal,
         NEW s \in {"round_waiting", "rejected"}, Ensure(Candidate(c), s) \in RoundOps
  PROVE  Fine(<<Ensure(Candidate(c), s), Barrier>>)
<1> DEFINE a == Ensure(Candidate(c), s)
           h == <<a, Barrier>>
<1>1. Barrier \in RoundOps /\ Cold(Barrier)
  BY DueOps, ColdOps
<1>2. a.who # Task /\ a.to = s /\ a.do = "ensure"
  BY RoundNames DEF Ensure, Op
<1>3. /\ a \notin Running \cup Modelling \cup Validating
      /\ \A d \in Ordinal : a \notin {MoveTo(Candidate(d), "model_validating"),
                                      MoveTo(Candidate(d), "staged")}
  BY <1>2 DEF Running, Modelling, Validating, MoveTo, Op
<1> HIDE DEF a
<1>4. DOMAIN h = 1 .. 2 /\ h[1] = a /\ h[2] = Barrier /\ h \in Seq(RoundOps)
  BY <1>1 DEF a
<1> HIDE DEF h
<1>5. Followed(h, Settled, {Barrier})
  BY <1>1, <1>4 DEF Followed, Cold
<1>6. ASSUME NEW A, NEW B, a \notin A, Barrier \notin A PROVE Followed(h, A, B)
  BY <1>4, <1>6 DEF Followed
<1>7. Linked(h)
  BY <1>1, <1>3, <1>5, <1>6 DEF Linked, Cold
<1> QED
  BY <1>4, <1>7 DEF Fine, h, a

LEMMA RoundHandlerDue ==
  ASSUME RoundInv, NEW j \in Succ
  PROVE  Fine(RoundHandler(j))
<1>1. workflow = "optimization" /\ j \in RoundJobs /\ phase[j] = "succeeded"
  BY RoundIs DEF RoundInv, Succ
<1>2. passed[j] \in BOOLEAN
  BY <1>1 DEF RoundInv
<1>3. ASSUME j \notin {Profile, Generate}, NEW h \in Seq(RoundOps), Closed \/ Linked(h)
      PROVE  Fine(h)
  BY <1>3, LateJob DEF Fine
<1>4. CASE j = Profile
  <2> DEFINE h == <<Ensure(Task, "searching"), Enqueue(Generate)>>
  <2>1. RoundHandler(j) = h \o <<Mark(j)>>
    BY <1>4 DEF RoundHandler, Profile, Generate
  <2>2. /\ Ensure(Task, "searching") \in RoundOps /\ Enqueue(Generate) \in RoundOps
        /\ Cold(Ensure(Task, "searching")) /\ Cold(Enqueue(Generate))
    BY <1>1, DueOps, ColdOps
  <2>3. Ensure(Task, "searching") \in EarlyOp /\ Enqueue(Generate) \in EarlyOp
    BY DEF EarlyOp, Ensure
  <2>4. /\ h \in Seq(RoundOps)
        /\ \A i \in DOMAIN h : h[i] \in {Ensure(Task, "searching"), Enqueue(Generate)}
    BY <2>2
  <2> HIDE DEF h
  <2>5. Linked(h)
    BY <2>2, <2>4, ColdLinked
  <2>6. \A i \in DOMAIN h : h[i] \notin LateOp
    BY <2>3, <2>4, Apart
  <2>7. Fine(h)
    BY <2>4, <2>5, <2>6, NoneBefore DEF Fine
  <2> QED
    BY <1>1, <2>1, <2>7, FineMark
<1>5. CASE j = Generate
  <2> DEFINE a == Do("propose", Generate)
             b == Ensure(Task, "evaluating")
             r == <<a, b>>
             h == r \o BuildAll
  <2>1. RoundHandler(j) = h \o <<Mark(j)>>
    BY <1>5 DEF RoundHandler, Profile, Generate
  <2>2. a \in RoundOps /\ b \in RoundOps /\ Cold(a) /\ Cold(b)
    BY <1>1, DueOps, ColdOps
  <2>3. a \in EarlyOp /\ b \in EarlyOp /\ b \in AskEvaluating
    BY DEF EarlyOp, Ensure, AskEvaluating
  <2> HIDE DEF a, b
  <2>4. r \in Seq(RoundOps) /\ Len(r) = 2 /\ r[1] = a /\ r[2] = b
    BY <2>2
  <2>5. BuildAll \in Seq(RoundOps) /\ \A i \in DOMAIN BuildAll : Cold(BuildAll[i])
    BY <1>1, BuildAllDue
  <2> HIDE DEF r
  <2>6. /\ h \in Seq(RoundOps) /\ Len(BuildAll) \in Nat /\ DOMAIN h = 1 .. Len(h)
        /\ DOMAIN BuildAll = 1 .. Len(BuildAll) /\ Len(h) = 2 + Len(BuildAll)
        /\ \A i \in 1 .. Len(h) : h[i] = IF i <= 2 THEN r[i] ELSE BuildAll[i - 2]
    <3>1. /\ h \in Seq(RoundOps) /\ Len(h) = Len(r) + Len(BuildAll)
          /\ \A i \in 1 .. Len(h) : h[i] = IF i <= Len(r) THEN r[i] ELSE BuildAll[i - Len(r)]
      <4> HIDE DEF BuildAll
      <4>1. r \in Seq(RoundOps) /\ BuildAll \in Seq(RoundOps)
        BY <2>4, <2>5
      <4> QED
        BY <4>1, ConcatProperties
    <3>2. DOMAIN h = 1 .. Len(h) /\ DOMAIN BuildAll = 1 .. Len(BuildAll) /\ Len(BuildAll) \in Nat
      BY <2>5, <3>1, LenProperties
    <3> HIDE DEF h
    <3> QED
      BY <2>4, <3>1, <3>2
  <2> HIDE DEF h
  <2>11. /\ 1 \in DOMAIN h /\ 2 \in DOMAIN h /\ h[1] = a /\ h[2] = b
         /\ \A i \in DOMAIN h : i \in {1, 2} \/ (i > 2 /\ \E g \in DOMAIN BuildAll : h[i] = BuildAll[g])
    <3>1. ASSUME NEW i \in DOMAIN h, i \notin {1, 2}
          PROVE  i > 2 /\ \E g \in DOMAIN BuildAll : h[i] = BuildAll[g]
      <4> DEFINE g == i - 2
      <4>1. i > 2 /\ g \in DOMAIN BuildAll /\ h[i] = BuildAll[g]
        BY <2>6, <3>1
      <4> QED
        BY <4>1
    <3> QED
      BY <2>4, <2>6, <3>1
  <2>7. Linked(h)
    <3>1. \A i \in DOMAIN h : Cold(h[i])
      BY <2>2, <2>5, <2>11
    <3> QED
      BY <3>1, ColdLinked
  <2>8. \A i \in DOMAIN h : h[i] \in LateOp => 1 \in 1 .. i - 1 /\ 2 \in 1 .. i - 1
    <3>1. h[1] \notin LateOp /\ h[2] \notin LateOp
      BY <2>3, <2>11, Apart
    <3> QED
      BY <2>6, <2>11, <3>1
  <2>9. Before(h, {a}, LateOp) /\ Before(h, AskEvaluating, LateOp)
    BY <2>3, <2>8, <2>11 DEF Before
  <2>10. Fine(h)
    BY <2>6, <2>7, <2>9 DEF Fine, a
  <2> QED
    BY <1>1, <2>1, <2>10, FineMark
<1>6. CASE j \notin {Profile, Generate}
  <2>0. Proposed /\ Evaluated
    BY <1>6, LateJob
  <2>1. PICK c \in Ordinal : /\ j[2] = c
                             /\ j \in {WBuild(c), Correctness(c), Performance(c), E2E(c)}
    BY <1>1, <1>6, RoundJobIs
  <2>2. CASE j = WBuild(c)
    <3> DEFINE a == Ensure(Candidate(c), "correctness_running")
               b == Enqueue(Correctness(c))
               h == <<a, b>>
    <3>1. RoundHandler(j) = h \o <<Mark(j)>>
      BY <2>1, <2>2 DEF RoundHandler, Profile, Generate, WBuild
    <3>2. a \in RoundOps /\ b \in RoundOps /\ Cold(a) /\ Cold(b)
      BY <1>1, DueOps, ColdOps
    <3> HIDE DEF a, b
    <3>3. h \in Seq(RoundOps) /\ \A i \in DOMAIN h : h[i] \in {a, b}
      BY <3>2
    <3> HIDE DEF h
    <3>4. Fine(h)
      BY <1>3, <1>6, <3>2, <3>3, ColdLinked
    <3> QED
      BY <1>1, <3>1, <3>4, FineMark
  <2>3. CASE j = Correctness(c) /\ passed[j]
    <3> DEFINE a == Ensure(Candidate(c), "performance_running")
               b == Enqueue(Performance(c))
               h == <<a, b, Barrier>>
    <3>1. RoundHandler(j) = h \o <<Mark(j)>>
      BY <2>1, <2>3 DEF RoundHandler, Profile, Generate, Correctness
    <3>2. Won(Correctness(c))
      BY <1>1, <2>3 DEF Won
    <3>3. a \in RoundOps /\ b \in RoundOps /\ Barrier \in RoundOps /\ Cold(a) /\ Cold(b) /\ Cold(Barrier)
      BY <1>1, <3>2, DueOps, ColdOps
    <3> HIDE DEF a, b
    <3>4. h \in Seq(RoundOps) /\ \A i \in DOMAIN h : h[i] \in {a, b, Barrier}
      BY <3>3
    <3> HIDE DEF h
    <3>5. Fine(h)
      BY <1>3, <1>6, <3>3, <3>4, ColdLinked
    <3> QED
      BY <1>1, <3>1, <3>5, FineMark
  <2>4. CASE j = Correctness(c) /\ ~ passed[j]
    <3>1. RoundHandler(j) = <<Ensure(Candidate(c), "rejected"), Barrier>> \o <<Mark(j)>>
      BY <2>1, <2>4 DEF RoundHandler, Profile, Generate, Correctness
    <3>2. LostOne(c)
      BY <1>1, <2>4 DEF LostOne, Lost
    <3>3. Fine(<<Ensure(Candidate(c), "rejected"), Barrier>>)
      BY <1>1, <2>0, <3>2, DueOps, SettleFine
    <3> QED
      BY <1>1, <3>1, <3>3, FineMark
  <2>5. CASE j = Performance(c)
    <3> DEFINE s == IF passed[j] THEN "round_waiting" ELSE "rejected"
    <3>1. RoundHandler(j) = <<Ensure(Candidate(c), s), Barrier>> \o <<Mark(j)>>
      BY <2>1, <2>5 DEF RoundHandler, Profile, Generate, Performance, AfterPerformance
    <3>2. /\ s \in {"round_waiting", "rejected"}
          /\ s = "round_waiting" => Won(Performance(c))
          /\ s = "rejected" => LostOne(c)
      BY <1>1, <2>5 DEF LostOne, Lost, Won
    <3> HIDE DEF s
    <3>3. Fine(<<Ensure(Candidate(c), s), Barrier>>)
      BY <1>1, <2>0, <3>2, DueOps, SettleFine
    <3> QED
      BY <1>1, <3>1, <3>3, FineMark
  <2>6. ASSUME j = E2E(c)
        PROVE  Closed /\ Chosen(c) /\ Won(Performance(c)) /\ (~ passed[j] => LostOne(c))
    <3>1. phase[E2E(c)] # "absent"
      BY <1>1, <2>6
    <3> QED
      BY <1>1, <2>6, <3>1, ClosedIs DEF RoundInv, RoundFacts, LostOne, Lost
  <2>7. CASE j = E2E(c) /\ passed[j]
    <3> DEFINE a == Ensure(Candidate(c), "release_candidate")
               b == Ensure(Task, "awaiting_signoff")
               h == <<a, b>>
    <3>1. RoundHandler(j) = h \o <<Mark(j)>>
      BY <2>1, <2>7 DEF RoundHandler, Profile, Generate, E2E
    <3>2. a \in RoundOps /\ b \in RoundOps
      BY <1>1, <2>6, <2>7, DueOps
    <3> HIDE DEF a, b
    <3>3. h \in Seq(RoundOps)
      BY <3>2
    <3> HIDE DEF h
    <3>4. Fine(h)
      BY <1>3, <1>6, <2>6, <2>7, <3>3
    <3> QED
      BY <1>1, <3>1, <3>4, FineMark
  <2>8. CASE j = E2E(c) /\ ~ passed[j]
    <3> DEFINE a == Ensure(Candidate(c), "rejected")
               b == Ensure(Task, "rejected")
               h == <<a, b>>
    <3>1. RoundHandler(j) = h \o <<Mark(j)>>
      <4>1. j[1] = "e2e" /\ j # Profile /\ j # Generate /\ j[2] = c
        BY <1>6, <2>1, <2>8 DEF E2E
      <4> QED
        BY <2>8, <4>1 DEF RoundHandler
    <3>2. a \in RoundOps /\ b \in RoundOps
      BY <1>1, <2>6, <2>8, DueOps
    <3> HIDE DEF a, b
    <3>3. h \in Seq(RoundOps)
      BY <3>2
    <3> HIDE DEF h
    <3>4. Fine(h)
      BY <1>3, <1>6, <2>6, <2>8, <3>3
    <3> QED
      BY <1>1, <3>1, <3>4, FineMark
  <2> QED
    BY <1>2, <2>1, <2>2, <2>3, <2>4, <2>5, <2>7, <2>8
<1> QED
  BY <1>4, <1>5, <1>6

-----------------------------------------------------------------------------
(* Whom the round waits for.                                               *)

LEMMA NextReplaced ==
  ASSUME NEW T, NEW Q, Holds(unadvanced, calls, T, Q), NEW k \in Call, NEW r \in Seq(T),
         calls[k].todo # <<>>, Replace(k, r)
  PROVE  /\ \A l \in Call \ {k} : calls'[l] = calls[l]
         /\ r # <<>> => calls'[k].todo # <<>> /\ Next1(k)' = Head(r)
<1>1. calls \in [Call -> Row(T, Q)] /\ calls[k].todo \in Seq(T)
  BY DEF Holds, Row
<1>2. /\ calls'[k].todo = r \o Tail(calls[k].todo)
      /\ \A l \in Call \ {k} : calls'[l] = calls[l]
  BY <1>1 DEF Replace, Row
<1>3. ASSUME r # <<>> PROVE calls'[k].todo # <<>> /\ Head(calls'[k].todo) = Head(r)
  <2> DEFINE s == r \o Tail(calls[k].todo)
             n == Len(r)
  <2>1. n \in Nat \ {0} /\ r[1] = Head(r)
    BY <1>3, HeadTailProperties
  <2>2. /\ s \in Seq(T) /\ Len(s) = n + Len(Tail(calls[k].todo)) /\ Len(Tail(calls[k].todo)) \in Nat
        /\ \A i \in 1 .. n : s[i] = r[i]
    BY <1>1, <2>1, HeadTailProperties, ConcatProperties
  <2> HIDE DEF s, n
  <2>3. Len(s) # 0 /\ s[1] = r[1]
    BY <2>1, <2>2
  <2>4. s # <<>> /\ Head(s) = s[1]
    BY <2>2, <2>3, HeadTailProperties
  <2> QED
    BY <1>2, <2>1, <2>3, <2>4 DEF s
<1> QED
  BY <1>2, <1>3 DEF Next1

LEMMA NextFollowed ==
  ASSUME NEW T, NEW Q, Holds(unadvanced, calls, T, Q), NEW k \in Call,
         calls[k].todo # <<>>, Skip(k), NEW A, NEW B, Followed(calls[k].todo, A, B), Next1(k) \in A
  PROVE  calls'[k].todo # <<>> /\ Next1(k)' \in B
<1> DEFINE t == calls[k].todo
<1>1. calls \in [Call -> Row(T, Q)] /\ t \in Seq(T)
  BY DEF Holds, Row
<1>2. calls'[k].todo = <<>> \o Tail(t) /\ Tail(t) \in Seq(T)
  BY <1>1, HeadTailProperties DEF Replace, Skip, Row
<1>3. calls'[k].todo = Tail(t)
  BY <1>2
<1>4. t[1] \in A /\ DOMAIN t = 1 .. Len(t) /\ Len(t) \in Nat \ {0}
  BY <1>1, HeadTailProperties, LenProperties DEF Next1
<1>5. 2 \in 1 .. Len(t) /\ t[2] \in B
  BY <1>4 DEF Followed
<1>6. /\ Len(Tail(t)) = Len(t) - 1
      /\ \A i \in 1 .. Len(Tail(t)) : Tail(t)[i] = t[i + 1]
  BY <1>1, HeadTailProperties
<1> HIDE DEF t
<1>7. Tail(t)[1] = t[2] /\ Len(Tail(t)) # 0
  BY <1>4, <1>5, <1>6
<1>8. /\ Tail(t)[1] = t[2] => Tail(t) # <<>> /\ Head(Tail(t)) = t[2]
  <2> DEFINE s == Tail(t)
  <2>1. s \in Seq(T) /\ Len(s) # 0
    BY <1>2, <1>7
  <2> HIDE DEF s
  <2>2. s # <<>> /\ Head(s) = s[1]
    BY <2>1, HeadTailProperties
  <2> QED
    BY <2>2 DEF s
<1> QED
  BY <1>3, <1>5, <1>7, <1>8 DEF Next1, t

Urgent(o) == o = Barrier \/ \E w \in Ordinal : Closes(o, w) \/ InStep(o, w)

\* One request goes on, and the round can see it do so.
LEMMA AwakeStays ==
  ASSUME Awake, UNCHANGED state, NEW k \in Call, \A l \in Call \ {k} : calls'[l] = calls[l],
         calls[k].todo # <<>> /\ RoundReady
            /\ (Next1(k) = Barrier \/ \E w \in Ordinal : Closes(Next1(k), w)) =>
               calls'[k].todo # <<>>
                 /\ (Next1(k)' = Barrier \/ \E w \in Ordinal : Closes(Next1(k)', w)),
         \A w \in Ordinal : calls[k].todo # <<>> /\ InStep(Next1(k), w) =>
               calls'[k].todo # <<>> /\ InStep(Next1(k)', w)
  PROVE  Awake'
<1>1. /\ RoundReady' = RoundReady /\ \A w \in Ordinal : cs(w)' = cs(w)
      /\ \A o, w : Closes(o, w)' = Closes(o, w)
      /\ \A o, w : InStep(o, w)' = InStep(o, w)
  BY DEF RoundReady, cs, Closes, InStep
<1>2. \A l \in Call \ {k} : Next1(l)' = Next1(l) /\ calls'[l].todo = calls[l].todo
  BY DEF Next1
<1>3. ASSUME RoundReady
      PROVE  \E l \in Call : calls'[l].todo # <<>> /\
                (Next1(l)' = Barrier \/ \E w \in Ordinal : Closes(Next1(l)', w))
  <2>1. PICK l \in Call : calls[l].todo # <<>> /\
                (Next1(l) = Barrier \/ \E w \in Ordinal : Closes(Next1(l), w))
    BY <1>3 DEF Awake
  <2> QED
    BY <1>2, <1>3, <2>1
<1>4. ASSUME NEW w \in Ordinal, cs(w) \in Finalist
      PROVE  \E l \in Call : calls'[l].todo # <<>> /\ InStep(Next1(l)', w)
  <2>1. PICK l \in Call : calls[l].todo # <<>> /\ InStep(Next1(l), w)
    BY <1>4 DEF Awake
  <2> QED
    BY <1>2, <2>1
<1> QED
  BY <1>1, <1>3, <1>4 DEF Awake, Closes, InStep, Next1, cs, RoundReady

LEMMA AwakeElsewhere ==
  ASSUME Awake, UNCHANGED state, NEW k \in Call, \A l \in Call \ {k} : calls'[l] = calls[l],
         calls[k].todo # <<>> => ~ Urgent(Next1(k))
  PROVE  Awake'
BY AwakeStays DEF Urgent

-----------------------------------------------------------------------------
(* The candidates of a round.                                              *)

LEMMA GraphIs ==
  ASSUME NEW s, NEW to \in CandidateMoves(s)
  PROVE  /\ s \notin {"absent", "rejected"} /\ to # "absent"
         /\ s = "round_waiting" => to \in {"model_validating", "rejected"}
         /\ to = "model_validating" => s = "round_waiting"
         /\ to = "staged" => s = "model_validating"
         /\ to = "e2e_running" => s = "staged"
         /\ s \in Finalist => to \in Finalist \cup {"rejected"}
         /\ s = "model_validating" \/ s = "e2e_running" \/ s = "staged" \/ s = "performance_running"
            \/ to \notin Finalist \ {"model_validating"}
BY DEF CandidateMoves, Finalist

\* A candidate moves.
LEMMA CandidateMoved ==
  ASSUME RoundInv, NEW c \in Ordinal, NEW to, MoveTo(Candidate(c), to) \in RoundOps,
         to \in CandidateMoves(cs(c)), state' = [state EXCEPT ![Candidate(c)] = to],
         UNCHANGED <<workflow, phase, passed>>
  PROVE  /\ \A w \in Ordinal : Chosen(w) => Chosen(w)'
         /\ Closed' = Closed /\ RoundFacts' /\ (Proposed => Proposed') /\ Evaluated' = Evaluated
         /\ cs(c)' = to /\ \A d \in Ordinal \ {c} : cs(d)' = cs(d)
         /\ state'[Task] = state[Task] /\ DOMAIN state' = DOMAIN state
<1>1. /\ workflow = "optimization" /\ DOMAIN state = {Task} \cup Members
      /\ Candidate(c) \in DOMAIN state /\ Candidate(c) # Task
  BY RoundNames DEF RoundInv
<1>2. /\ cs(c)' = to /\ \A d \in Ordinal \ {c} : cs(d)' = cs(d)
      /\ state'[Task] = state[Task] /\ DOMAIN state' = DOMAIN state
  BY <1>1, RoundNames DEF cs
<1>3. Closed' = Closed /\ Evaluated' = Evaluated
  BY <1>2 DEF Closed, MyJobs, Evaluated
<1>4. to \in PathStates \cup {"rejected"} /\ (to = "release_candidate" => Closed)
  <2> DEFINE o == MoveTo(Candidate(c), to)
  <2>1. o.do = "move" /\ o.who = Candidate(c) /\ o.to = to /\ o.who # Task
    BY <1>1 DEF MoveTo, Op
  <2> HIDE DEF o
  <2> QED
    BY <2>1, RoundOpIs DEF o
<1>5. /\ to \in Finalist => Chosen(c)
      /\ to \in {"round_waiting"} \cup Finalist => Won(Performance(c))
  BY DEF RoundOps, RoundDue, MoveTo, Op
<1>6. cs(c) \notin {"absent", "rejected"} /\ to # "absent"
      /\ (cs(c) = "round_waiting" => to \in {"model_validating", "rejected"})
      /\ (cs(c) \in Finalist => to \in Finalist \cup {"rejected"})
  BY GraphIs
<1>7. ASSUME NEW w \in Ordinal, Chosen(w) PROVE Chosen(w)'
  <2>1. CASE w = c
    <3>1. cs(c)' \in {"round_waiting", "rejected"} \cup Finalist
      BY <1>2, <1>6, <1>7, <2>1 DEF Chosen, Finalist
    <3>2. \A d \in Ordinal \ {c} : cs(d)' = cs(d)
      BY <1>2
    <3>3. cs(c) # "rejected"
      BY <1>6
    <3> QED
      BY <1>7, <2>1, <3>1, <3>2, <3>3 DEF Chosen
  <2>2. CASE w # c /\ cs(w) = "rejected"
    BY <1>2, <2>2 DEF Chosen
  <2>3. CASE w # c /\ cs(w) # "rejected"
    <3>1. cs(c) = "round_waiting"
      BY <1>6, <1>7, <2>3 DEF Chosen
    <3>2. to # "model_validating"
      <4> SUFFICES ASSUME to = "model_validating" PROVE FALSE
        OBVIOUS
      <4>1. Chosen(c)
        BY <1>5 DEF Finalist
      <4>2. w < c \/ c < w
        BY <2>3 DEF Ordinal
      <4> QED
        BY <1>7, <2>3, <3>1, <4>1, <4>2 DEF Chosen
    <3>3. to = "rejected"
      BY <1>6, <3>1, <3>2
    <3> QED
      BY <1>2, <1>7, <2>3, <3>3 DEF Chosen
  <2> QED
    BY <2>1, <2>2, <2>3
<1>8. Proposed => Proposed'
  BY <1>2, <1>6 DEF Proposed
<1>9. RoundFacts'
  <2>1. \A d \in Ordinal : /\ Won(Performance(d))' <=> Won(Performance(d))
                           /\ Won(Correctness(d))' <=> Won(Correctness(d))
    BY DEF Won
  <2>2. ASSUME NEW d \in Ordinal
        PROVE  /\ cs(d)' \in {"absent", "rejected"} \cup PathStates
               /\ cs(d)' \in {"round_waiting"} \cup Finalist => Won(Performance(d))
               /\ cs(d)' \in Finalist => Chosen(d)
               /\ cs(d)' = "release_candidate" => Closed
    BY <1>2, <1>4, <1>5 DEF RoundInv, RoundFacts
  <2> QED
    BY <1>2, <1>3, <1>7, <1>8, <2>1, <2>2 DEF RoundInv, RoundFacts
<1> QED
  BY <1>2, <1>3, <1>7, <1>8, <1>9

-----------------------------------------------------------------------------
(* The steps of a round.                                                   *)

\* What has to be seen of a step.
LEMMA RoundGoesOn ==
  ASSUME RoundInv, workflow' = workflow, DOMAIN state' = DOMAIN state,
         phase' \in [RoundJobs -> Phases], passed' \in [RoundJobs -> BOOLEAN], crashes' \in Nat,
         RoundKept, \A c \in Ordinal : Chosen(c) => Chosen(c)', Closed => Closed',
         RoundFacts', RoundOrder',
         Holds(unadvanced', calls', RoundOps, Succ) \/ Holds(unadvanced', calls', RoundOps', Succ'),
         Closed' \/ AllLinked', Closed' \/ crashes' # 0 \/ Awake'
  PROVE  RoundInv'
<1>1. Holds(unadvanced', calls', RoundOps', Succ')
  BY RoundHoldsGrow DEF RoundInv
<1> QED
  BY <1>1 DEF RoundInv, Members

\* A step that leaves the states alone, and enqueues nothing.
LEMMA RoundQuiet ==
  ASSUME RoundInv, UNCHANGED <<workflow, state>>, crashes' \in Nat,
         phase' \in [RoundJobs -> Phases], passed' \in [RoundJobs -> BOOLEAN],
         RoundKept, \A j \in RoundJobs : phase'[j] = "absent" <=> phase[j] = "absent",
         Holds(unadvanced', calls', RoundOps, Succ) \/ Holds(unadvanced', calls', RoundOps', Succ'),
         RoundOrder => Proposed \/ AllBefore(calls', {Do("propose", Generate)}, LateOp),
         RoundOrder => Evaluated \/ AllBefore(calls', AskEvaluating, LateOp),
         Closed \/ AllLinked', Closed \/ crashes' # 0 \/ Awake'
  PROVE  RoundInv'
<1>1. /\ \A c : cs(c)' = cs(c)
      /\ Proposed' = Proposed /\ Evaluated' = Evaluated /\ state'[Task] = state[Task]
  BY DEF cs, Proposed, Evaluated
<1>2. \A c \in Ordinal : Chosen(c)' <=> Chosen(c)
  BY <1>1 DEF Chosen
<1>3. Closed' <=> Closed
  BY RoundIs DEF RoundInv, Closed, MyJobs
<1>4. \A c \in Ordinal : /\ Won(Performance(c)) => Won(Performance(c))'
                         /\ Won(Correctness(c)) => Won(Correctness(c))'
  BY RoundNames DEF RoundKept, Won
<1>5. \A c \in Ordinal : /\ phase'[E2E(c)] # "absent" => phase[E2E(c)] # "absent"
                         /\ phase'[Performance(c)] # "absent" => phase[Performance(c)] # "absent"
  BY RoundNames
<1>6. RoundFacts'
  BY <1>1, <1>2, <1>3, <1>4, <1>5 DEF RoundInv, RoundFacts
<1>7. RoundOrder'
  BY <1>1 DEF RoundInv, RoundOrder, AskEvaluating, LateOp
<1> QED
  BY <1>2, <1>3, <1>6, <1>7, RoundGoesOn DEF RoundInv

\* The same, where not even the jobs change.
LEMMA RoundStill ==
  ASSUME RoundInv, UNCHANGED <<workflow, state, phase, passed, crashes>>,
         Holds(unadvanced', calls', RoundOps, Succ),
         RoundOrder => Proposed \/ AllBefore(calls', {Do("propose", Generate)}, LateOp),
         RoundOrder => Evaluated \/ AllBefore(calls', AskEvaluating, LateOp),
         Closed \/ AllLinked', Closed \/ crashes # 0 \/ Awake'
  PROVE  RoundInv'
BY RoundQuiet DEF RoundInv, RoundKept

\* The first operation of a request, and what it needs.
LEMMA RoundHead ==
  ASSUME RoundInv, NEW k \in Call, calls[k].todo # <<>>
  PROVE  /\ Next1(k) \in RoundOps
         /\ Next1(k) \in LateOp => Proposed /\ Evaluated
<1>1. calls[k].todo \in Seq(RoundOps)
  BY DEF RoundInv, Holds, Row
<1>2. Next1(k) \in RoundOps
  BY HeadHolds DEF RoundInv
<1>3. RoundOrder
  BY DEF RoundInv
<1> QED
  BY <1>1, <1>2, <1>3, HeadBefore DEF RoundOrder, AllBefore, Next1

LEMMA RoundTurn ==
  ASSUME RoundInv, NEW k \in Call, calls[k].queue # <<>>, UNCHANGED workflow,
         Turn(k, Handler(Head(calls[k].queue)))
  PROVE  RoundInv'
<1> DEFINE j == Head(calls[k].queue)
           h == RoundHandler(j)
<1>1. /\ workflow = "optimization" /\ j \in Succ /\ Handler(j) = h
      /\ Holds(unadvanced, calls, RoundOps, Succ) /\ RoundOrder
  BY HeadHolds DEF RoundInv, Handler
<1>2. Fine(h)
  BY <1>1, RoundHandlerDue
<1> HIDE DEF j, h
<1>3. Turn(k, h) /\ UNCHANGED <<state, phase, passed, crashes>> /\ calls[k].todo = <<>>
  BY <1>1 DEF Turn, j
<1>4. Holds(unadvanced', calls', RoundOps, Succ)
  BY <1>1, <1>2, <1>3, TurnHolds DEF Fine
<1>5. /\ Proposed \/ AllBefore(calls', {Do("propose", Generate)}, LateOp)
      /\ Evaluated \/ AllBefore(calls', AskEvaluating, LateOp)
  BY <1>1, <1>2, <1>3, TurnOrder DEF Fine, RoundOrder
<1>6. /\ \A l \in Call \ {k} : calls'[l] = calls[l]
      /\ calls'[k].todo = h
  BY <1>1, <1>3 DEF Turn, Holds, Row
<1>7. Closed \/ AllLinked'
  BY <1>2, <1>6 DEF RoundInv, Fine, AllLinked
<1>8. Closed \/ crashes # 0 \/ Awake'
  BY <1>3, <1>6, AwakeElsewhere DEF RoundInv
<1> QED
  BY <1>3, <1>4, <1>5, <1>7, <1>8, RoundStill

\* An operation is replaced, and nothing else changes.
LEMMA RoundReplace ==
  ASSUME RoundInv, NEW k \in Call, calls[k].todo # <<>>, NEW r \in Seq(RoundOps), Replace(k, r),
         UNCHANGED <<workflow, state, phase, passed, crashes, unadvanced>>,
         Next1(k) # Do("propose", Generate), \A i \in DOMAIN r : r[i] \in LateOp => Proposed /\ Evaluated,
         Evaluated \/ (Next1(k) \in AskEvaluating => \E i \in DOMAIN r : r[i] \in AskEvaluating),
         Closed \/ LinkedFits(r, Next1(k)), Closed \/ crashes # 0 \/ Awake'
  PROVE  RoundInv'
<1>1. Holds(unadvanced, calls, RoundOps, Succ) /\ RoundOrder /\ unadvanced \in Seq(Succ)
  BY DEF RoundInv, Holds
<1>2. Holds(unadvanced', calls', RoundOps, Succ)
  BY <1>1, ReplaceHolds
<1>3. Proposed \/ AllBefore(calls', {Do("propose", Generate)}, LateOp)
  BY <1>1, ReplaceOrder DEF RoundOrder, Before
<1>4. Evaluated \/ AllBefore(calls', AskEvaluating, LateOp)
  BY <1>1, ReplaceOrder DEF RoundOrder, Before
<1>5. Closed \/ AllLinked'
  BY <1>1, ReplaceLinked DEF RoundInv
<1> QED
  BY <1>2, <1>3, <1>4, <1>5, RoundStill

LEMMA RoundEnsureCandidate ==
  ASSUME RoundInv, NEW k \in Call, Now(k, "ensure"), Next1(k).who # Task, EnsureState(k),
         UNCHANGED workflow
  PROVE  RoundInv'
<1> DEFINE o == Next1(k)
           r == RoundMoves(o.who, o.to)
<1>1. /\ calls[k].todo # <<>> /\ o.do = "ensure" /\ o \in RoundOps /\ o \in LateOp
      /\ \E c \in Ordinal : o.who = Candidate(c)
  BY RoundHead, RoundOpIs, RoundNames DEF Now
<1>2. Proposed /\ Evaluated
  BY <1>1, RoundHead
<1>3. /\ r \in Seq(RoundOps) /\ (~ Closed => LinkedFits(r, o))
      /\ \A w \in Ordinal : o = Ensure(Candidate(w), "e2e_running") /\ cs(w) = "round_waiting" =>
               /\ r # <<>> /\ Head(r) = MoveTo(Candidate(w), "model_validating")
  BY <1>1, <1>2, EnsureCandidate
<1>4. /\ workflow = "optimization"
      /\ Replace(k, r) /\ UNCHANGED <<state, phase, passed, crashes, unadvanced>>
      /\ Holds(unadvanced, calls, RoundOps, Succ)
  BY DEF EnsureState, MovesTo, RoundInv
<1>5. o # Barrier /\ o # Do("propose", Generate) /\ o.who # Task
      /\ \A w \in Ordinal : o # MoveTo(Candidate(w), "model_validating")
  BY <1>1, RoundNames DEF Barrier, Do, Op, MoveTo
<1> HIDE DEF o, r
<1>6. \A w \in Ordinal : ~ InStep(o, w)
  BY <1>1, <1>5 DEF InStep, MoveTo, Ensure, Again, Launches, Enqueue, Op
<1>7. /\ \A l \in Call \ {k} : calls'[l] = calls[l]
      /\ r # <<>> => calls'[k].todo # <<>> /\ Next1(k)' = Head(r)
  BY <1>1, <1>3, <1>4, NextReplaced
<1>8. Closed \/ crashes # 0 \/ Awake'
  <2> SUFFICES ASSUME Awake PROVE Awake'
    BY DEF RoundInv
  <2>1. ASSUME o = Barrier \/ \E w \in Ordinal : Closes(o, w)
        PROVE  calls'[k].todo # <<>>
                 /\ (Next1(k)' = Barrier \/ \E w \in Ordinal : Closes(Next1(k)', w))
    <3>1. PICK w \in Ordinal : o = Ensure(Candidate(w), "e2e_running") /\ cs(w) = "round_waiting"
      BY <1>5, <2>1 DEF Closes
    <3>2. calls'[k].todo # <<>> /\ Next1(k)' = MoveTo(Candidate(w), "model_validating")
      BY <1>3, <1>7, <3>1
    <3> QED
      BY <3>1, <3>2 DEF Closes
  <2> QED
    BY <1>4, <1>6, <1>7, <2>1, AwakeStays DEF o
<1> QED
  BY <1>1, <1>2, <1>3, <1>4, <1>5, <1>8, RoundReplace DEF o

LEMMA LeastOne == ASSUME NEW W, W \subseteq Nat, W # {} PROVE \E x \in W : \A y \in W : x <= y
<1>1. PICK x \in W : \A y \in W : ~ (<<y, x>> \in OpToRel(<, Nat))
  BY NatLessThanWellFounded, WFMin
<1>2. \A y \in W : ~ (y < x)
  BY <1>1 DEF OpToRel
<1> QED
  BY <1>2

\* A winner is in step with its task only when evaluation has begun.
LEMMA FinalistLate ==
  ASSUME RoundInv, NEW w \in Ordinal, cs(w) \in Finalist
  PROVE  Evaluated /\ Won(Performance(w))
<1>1. Won(Performance(w)) /\ phase[Performance(w)] # "absent"
  BY DEF RoundInv, RoundFacts, Won
<1> QED
  BY <1>1, RoundNames DEF RoundInv, RoundFacts

\* An ensure on the task.
LEMMA TaskMovesAre ==
  ASSUME RoundFacts, NEW to \in TaskTargets
  PROVE  LET r == RoundMoves(Task, to) IN
         \/ r = <<>> /\ (to = "evaluating" => Evaluated)
         \/ to = "e2e_validating" /\ r = <<Again("model_validating"), Again("e2e_validating")>>
            /\ state[Task] \in {"baseline_pending", "profiling", "searching", "evaluating",
                                "model_validating"}
         \/ to # "e2e_validating" /\ r = <<Again(to)>>
<1> DEFINE order == <<"baseline_pending", "profiling", "searching", "evaluating",
                   "model_validating", "e2e_validating", "awaiting_signoff", "completed",
                   "rejected">>
<1>1. /\ RoundMoves(Task, to) =
            IF state[Task] = to \/ After(order, state[Task], to) THEN <<>>
            ELSE IF to = "e2e_validating"
            THEN <<Again("model_validating"), Again("e2e_validating")>>
            ELSE <<Again(to)>>
  BY DEF RoundMoves, Again
<1>2. DOMAIN order = 1 .. 9 /\ order[1] = "baseline_pending" /\ order[2] = "profiling"
      /\ order[3] = "searching" /\ order[4] = "evaluating" /\ order[5] = "model_validating"
      /\ order[6] = "e2e_validating" /\ order[7] = "awaiting_signoff" /\ order[8] = "completed"
      /\ order[9] = "rejected"
  OBVIOUS
<1> HIDE DEF order
<1>3. \A m \in 1 .. 9 : m \in {1, 2, 3, 4, 5, 6, 7, 8, 9}
  OBVIOUS
<1>4. state[Task] = "evaluating" \/ After(order, state[Task], "evaluating") => Evaluated
  BY <1>2, <1>3 DEF After, Evaluated
<1>5. state[Task] \in {"awaiting_signoff", "rejected"} => After(order, state[Task], "e2e_validating")
  BY <1>2 DEF After
<1> QED
  BY <1>1, <1>4, <1>5 DEF RoundFacts

LEMMA AgainDue ==
  ASSUME workflow = "optimization", NEW o \in RoundOps, o.who = Task, o.do \in {"ensure", "again", "move"},
         NEW d \in {"again", "move"}, NEW s \in {o.to, "model_validating"}
  PROVE  Op(d, Task, s) \in RoundOps /\ Op(d, Task, s) \notin LateOp
<1> DEFINE x == Op(d, Task, s)
<1>1. o.to \in TaskTargets /\ (o.to \in {"awaiting_signoff", "rejected"} => Closed)
  BY RoundOpIs, RoundNames
<1>2. x \in EarlyOp /\ x \notin LateOp
  BY <1>1, Apart DEF EarlyOp, TaskTargets
<1>3. x.who = Task /\ x.to = s /\ x.do = d
  BY DEF Op
<1> HIDE DEF x
<1>4. \A c \in Ordinal : x # Enqueue(E2E(c)) /\ x # Enqueue(Performance(c)) /\ Candidate(c) # Task
  BY <1>3, RoundNames DEF Enqueue, Op
<1>5. RoundDue(x)
  BY <1>1, <1>3, <1>4 DEF RoundDue
<1> QED
  BY <1>2, <1>5 DEF RoundOps, x

LEMMA RoundEnsureTask ==
  ASSUME RoundInv, NEW k \in Call, Now(k, "ensure"), Next1(k).who = Task, EnsureState(k),
         UNCHANGED workflow
  PROVE  RoundInv'
<1> DEFINE o == Next1(k)
           s == o.to
           r == RoundMoves(Task, s)
           a == Again("model_validating")
           b == Again("e2e_validating")
<1>1. /\ calls[k].todo # <<>> /\ o.do = "ensure" /\ o \in RoundOps
      /\ s \in TaskTargets \ {"model_validating"} /\ o = Ensure(Task, s)
  BY RoundHead, RoundOpIs, RoundNames DEF Now, Ensure
<1>2. \/ r = <<>> /\ (s = "evaluating" => Evaluated)
      \/ s = "e2e_validating" /\ r = <<a, b>>
            /\ state[Task] \in {"baseline_pending", "profiling", "searching", "evaluating",
                                "model_validating"}
      \/ s # "e2e_validating" /\ r = <<Again(s)>>
  BY <1>1, TaskMovesAre DEF RoundInv
<1>3. /\ workflow = "optimization"
      /\ Replace(k, r) /\ UNCHANGED <<state, phase, passed, crashes, unadvanced>>
      /\ Holds(unadvanced, calls, RoundOps, Succ)
  BY DEF EnsureState, MovesTo, RoundInv
<1>4. /\ Again(s) \in RoundOps /\ Again(s) \notin LateOp
      /\ a \in RoundOps /\ a \notin LateOp /\ (s = "e2e_validating" => b \in RoundOps /\ b \notin LateOp)
  BY <1>1, <1>3, AgainDue DEF Again
<1>5. /\ o # Barrier /\ o # Do("propose", Generate)
      /\ \A w \in Ordinal : ~ Closes(o, w)
      /\ \A w \in Ordinal : InStep(o, w) => s = "e2e_validating" /\ cs(w) = "e2e_running"
      /\ o \in AskEvaluating => s = "evaluating"
      /\ s = "e2e_validating" => o \in Validating
  BY <1>1, RoundNames DEF Barrier, Do, Op, MoveTo, Ensure, Closes, InStep, Again, Launches, Enqueue,
                          AskEvaluating, Validating
<1>6. ASSUME NEW x, x.who = Task, x.do = "again"
      PROVE  /\ x \notin Settled /\ x \notin Running
             /\ \A c \in Ordinal : x # MoveTo(Candidate(c), "model_validating")
                                   /\ x # MoveTo(Candidate(c), "staged")
             /\ x \in Modelling => x.to = "model_validating"
             /\ x \in Validating => x.to = "e2e_validating"
  BY <1>6, RoundNames DEF Settled, Running, Modelling, Validating, MoveTo, Op
<1>7. /\ a.who = Task /\ a.do = "again" /\ a.to = "model_validating"
      /\ b.who = Task /\ b.do = "again" /\ b.to = "e2e_validating"
      /\ Again(s).who = Task /\ Again(s).do = "again" /\ Again(s).to = s
      /\ s = "evaluating" => Again(s) \in AskEvaluating
  BY DEF Again, Op, AskEvaluating
<1> HIDE DEF o, s, r, a, b
<1>8. CASE r = <<>>
  <2>1. Skip(k)
    BY <1>3, <1>8 DEF Skip
  <2>2. r \in Seq(RoundOps) /\ LinkedFits(r, o) /\ DOMAIN r = {}
    BY <1>8, EmptySeq, EmptyFits
  <2>3. \A l \in Call \ {k} : calls'[l] = calls[l]
    BY <1>1, <1>3, <2>2, NextReplaced
  <2>4. Closed \/ crashes # 0 \/ Awake'
    <3> SUFFICES ASSUME Awake, ~ Closed PROVE Awake'
      BY DEF RoundInv
    <3>1. ASSUME NEW w \in Ordinal, InStep(o, w)
          PROVE  calls'[k].todo # <<>> /\ InStep(Next1(k)', w)
      <4>1. Followed(calls[k].todo, Validating, Launches)
        BY DEF RoundInv, AllLinked, Linked
      <4>2. calls'[k].todo # <<>> /\ Next1(k)' \in Launches
        BY <1>1, <1>3, <1>5, <2>1, <3>1, <4>1, NextFollowed DEF o
      <4> QED
        BY <1>5, <3>1, <4>2 DEF InStep
    <3> QED
      BY <1>3, <1>5, <2>3, <3>1, AwakeStays DEF o
  <2>5. Evaluated \/ o \notin AskEvaluating
    BY <1>2, <1>5, <1>8
  <2> QED
    BY <1>1, <1>3, <1>5, <2>2, <2>4, <2>5, RoundReplace DEF o
<1>9. CASE s = "e2e_validating" /\ r = <<a, b>>
            /\ state[Task] \in {"baseline_pending", "profiling", "searching", "evaluating",
                                "model_validating"}
  <2>1. r \in Seq(RoundOps) /\ Len(r) = 2 /\ r[1] = a /\ r[2] = b /\ r # <<>> /\ Head(r) = a
    BY <1>4, <1>9
  <2>2. LinkedFits(r, o)
    <3>1. \A i \in 1 .. Len(r) : (i = 1 \/ i = 2) /\ (i = Len(r) <=> i = 2)
      BY <2>1
    <3>2. /\ a \notin Validating /\ b \notin Modelling /\ o \in Validating
          /\ a \notin Settled \cup Running /\ b \notin Settled \cup Running
          /\ \A c \in Ordinal : /\ a # MoveTo(Candidate(c), "model_validating")
                                /\ a # MoveTo(Candidate(c), "staged")
                                /\ b # MoveTo(Candidate(c), "model_validating")
                                /\ b # MoveTo(Candidate(c), "staged")
      BY <1>5, <1>6, <1>7, <1>9
    <3> DEFINE n == Len(r)
    <3>3. \A i \in 1 .. n : \/ i = 1 /\ i # n /\ r[i] = a /\ r[i + 1] = b
                            \/ i = 2 /\ i = n /\ r[i] = b
      BY <2>1, <3>1
    <3> HIDE DEF n
    <3> QED
      BY <3>2, <3>3 DEF LinkedFits, Fits, n, b
  <2>3. DOMAIN r = {1, 2} /\ \A i \in DOMAIN r : r[i] \notin LateOp
    BY <1>4, <1>9, <2>1
  <2>4. /\ \A l \in Call \ {k} : calls'[l] = calls[l]
        /\ calls'[k].todo # <<>> /\ Next1(k)' = a
    BY <1>1, <1>3, <2>1, NextReplaced
  <2>5. Closed \/ crashes # 0 \/ Awake'
    <3> SUFFICES ASSUME Awake PROVE Awake'
      BY DEF RoundInv
    <3>1. ASSUME NEW w \in Ordinal, InStep(o, w)
          PROVE  calls'[k].todo # <<>> /\ InStep(Next1(k)', w)
      <4>1. cs(w) = "e2e_running"
        BY <1>5, <3>1
      <4>2. Evaluated
        BY <4>1, FinalistLate DEF Finalist
      <4>3. state[Task] \in {"evaluating", "model_validating"}
        BY <1>9, <4>2 DEF Evaluated
      <4> QED
        BY <2>4, <4>1, <4>3 DEF InStep, a
    <3> QED
      BY <1>3, <1>5, <2>4, <3>1, AwakeStays DEF o
  <2>6. o \notin AskEvaluating
    BY <1>5, <1>9
  <2> QED
    BY <1>1, <1>3, <1>5, <2>1, <2>2, <2>3, <2>5, <2>6, RoundReplace DEF o
<1>10. CASE s # "e2e_validating" /\ r = <<Again(s)>>
  <2> DEFINE x == Again(s)
  <2>1. r \in Seq(RoundOps) /\ Len(r) = 1 /\ r[1] = x /\ DOMAIN r = {1}
    BY <1>4, <1>10
  <2>2. x \notin Validating /\ x \notin Modelling /\ x \notin Settled \cup Running
        /\ \A c \in Ordinal : /\ x # MoveTo(Candidate(c), "model_validating")
                              /\ x # MoveTo(Candidate(c), "staged")
    BY <1>1, <1>6, <1>7, <1>10 DEF s
  <2>3. \A i \in 1 .. Len(r) : r[i] = x
    BY <2>1
  <2>4. x \notin LateOp /\ (s = "evaluating" => x \in AskEvaluating)
    BY <1>4, <1>7
  <2> HIDE DEF x
  <2>5. LinkedFits(r, o)
    BY <2>2, <2>3 DEF LinkedFits, Fits
  <2>6. \A l \in Call \ {k} : calls'[l] = calls[l]
    BY <1>1, <1>3, <2>1, NextReplaced
  <2>7. ~ Urgent(o)
    BY <1>5, <1>10 DEF Urgent
  <2>8. Closed \/ crashes # 0 \/ Awake'
    BY <1>3, <2>6, <2>7, AwakeElsewhere DEF RoundInv, o
  <2> QED
    BY <1>1, <1>3, <1>5, <2>1, <2>4, <2>5, <2>8, RoundReplace DEF o
<1> QED
  BY <1>2, <1>8, <1>9, <1>10

LEMMA RoundReadAgain ==
  ASSUME RoundInv, NEW k \in Call, ReadAgain(k), UNCHANGED workflow
  PROVE  RoundInv'
<1> DEFINE o == Next1(k)
           s == o.to
           x == MoveTo(Task, s)
           r == IF state[Task] = s THEN <<>> ELSE <<x>>
<1>1. /\ calls[k].todo # <<>> /\ o.do = "again" /\ o \in RoundOps
      /\ s \in TaskTargets /\ o = Again(s) /\ o.who = Task
  BY RoundHead, RoundOpIs, RoundNames DEF Now, Again, ReadAgain
<1>2. /\ workflow = "optimization"
      /\ Replace(k, r) /\ UNCHANGED <<state, phase, passed, crashes, unadvanced>>
      /\ Holds(unadvanced, calls, RoundOps, Succ)
  BY DEF ReadAgain, RoundInv
<1>3. x \in RoundOps /\ x \notin LateOp
  BY <1>1, <1>2, AgainDue DEF MoveTo
<1>4. x.do = "move" /\ x.who = Task /\ x.to = s /\ o.do = "again" /\ o.who = Task
      /\ o # Barrier /\ o # Do("propose", Generate)
  BY <1>1 DEF MoveTo, Op, Barrier, Do
<1>5. /\ o \in AskEvaluating <=> s = "evaluating"
      /\ x \in AskEvaluating <=> s = "evaluating"
      /\ o \in Modelling <=> s = "model_validating"
      /\ x \in Modelling <=> s = "model_validating"
      /\ o \in Validating <=> s = "e2e_validating"
      /\ x \in Validating <=> s = "e2e_validating"
  BY <1>1 DEF AskEvaluating, Modelling, Validating, MoveTo, Again, Op
<1> HIDE DEF x
<1>6. /\ x \notin Settled \cup Running
      /\ \A c \in Ordinal : /\ x # MoveTo(Candidate(c), "model_validating")
                            /\ x # MoveTo(Candidate(c), "staged")
  BY <1>4, RoundNames DEF Settled, Running, MoveTo, Op
<1>7. /\ \A w \in Ordinal : ~ Closes(o, w)
      /\ \A w \in Ordinal : InStep(o, w) =>
            /\ cs(w) = "e2e_running"
            /\ \/ s = "model_validating" /\ state[Task] \in {"evaluating", "model_validating"}
               \/ s = "e2e_validating" /\ state[Task] \in {"model_validating", "e2e_validating"}
  <2>1. /\ o.do = "again" /\ \A e, t : MoveTo(e, t).do = "move" /\ Ensure(e, t).do = "ensure"
        /\ \A j : Enqueue(j).do = "enqueue"
        /\ \A t : Again(t).to = t
    BY <1>4 DEF MoveTo, Ensure, Enqueue, Again, Op
  <2>2. \A w \in Ordinal : ~ Closes(o, w)
    BY <2>1 DEF Closes
  <2>3. o \notin Launches
    BY <2>1 DEF Launches
  <2> QED
    BY <2>1, <2>2, <2>3 DEF InStep
<1> HIDE DEF o, s, r
<1>8. CASE r = <<>> /\ state[Task] = s
  <2>1. Skip(k)
    BY <1>2, <1>8 DEF Skip
  <2>2. r \in Seq(RoundOps) /\ LinkedFits(r, o) /\ DOMAIN r = {}
    BY <1>8, EmptySeq, EmptyFits
  <2>3. \A l \in Call \ {k} : calls'[l] = calls[l]
    BY <1>1, <1>2, <2>2, NextReplaced
  <2>4. Closed \/ crashes # 0 \/ Awake'
    <3> SUFFICES ASSUME Awake, ~ Closed PROVE Awake'
      BY DEF RoundInv
    <3>1. ASSUME NEW w \in Ordinal, InStep(o, w)
          PROVE  calls'[k].todo # <<>> /\ InStep(Next1(k)', w)
      <4>1. Followed(calls[k].todo, Validating, Launches)
            /\ Followed(calls[k].todo, Modelling, {Again("e2e_validating")})
        BY DEF RoundInv, AllLinked, Linked
      <4>2. CASE s = "e2e_validating"
        <5>1. calls'[k].todo # <<>> /\ Next1(k)' \in Launches
          BY <1>1, <1>2, <1>5, <2>1, <4>1, <4>2, NextFollowed DEF o
        <5> QED
          BY <1>7, <3>1, <5>1 DEF InStep
      <4>3. CASE s = "model_validating"
        <5>1. calls'[k].todo # <<>> /\ Next1(k)' \in {Again("e2e_validating")}
          BY <1>1, <1>2, <1>5, <2>1, <4>1, <4>3, NextFollowed DEF o
        <5>2. InStep(Again("e2e_validating"), w)
          BY <1>7, <1>8, <3>1, <4>3 DEF InStep
        <5> QED
          BY <5>1, <5>2
      <4> QED
        BY <1>7, <3>1, <4>2, <4>3
    <3> QED
      BY <1>2, <1>4, <1>7, <2>3, <3>1, AwakeStays DEF o
  <2>5. Evaluated \/ o \notin AskEvaluating
    BY <1>5, <1>8 DEF Evaluated
  <2> QED
    BY <1>1, <1>2, <1>4, <2>2, <2>4, <2>5, RoundReplace DEF o
<1>9. CASE r = <<x>> /\ state[Task] # s
  <2>1. r \in Seq(RoundOps) /\ Len(r) = 1 /\ r[1] = x /\ DOMAIN r = {1} /\ r # <<>> /\ Head(r) = x
    BY <1>3, <1>9
  <2>3. \A i \in 1 .. Len(r) : i = Len(r) /\ r[i] = x
    BY <2>1
  <2>5. LinkedFits(r, o)
    BY <1>5, <1>6, <2>3 DEF LinkedFits, Fits
  <2>6. /\ \A l \in Call \ {k} : calls'[l] = calls[l]
        /\ calls'[k].todo # <<>> /\ Next1(k)' = x
    BY <1>1, <1>2, <2>1, NextReplaced
  <2>8. Closed \/ crashes # 0 \/ Awake'
    <3> SUFFICES ASSUME Awake PROVE Awake'
      BY DEF RoundInv
    <3>1. ASSUME NEW w \in Ordinal, InStep(o, w)
          PROVE  calls'[k].todo # <<>> /\ InStep(Next1(k)', w)
      <4>1. InStep(x, w)
        BY <1>7, <1>9, <3>1 DEF InStep, x
      <4> QED
        BY <2>6, <4>1
    <3> QED
      BY <1>2, <1>4, <1>7, <2>6, <3>1, AwakeStays DEF o
  <2> QED
    BY <1>1, <1>2, <1>3, <1>4, <1>5, <2>1, <2>5, <2>8, RoundReplace DEF o
<1> QED
  BY <1>8, <1>9 DEF r

\* A move that the graph refuses ends the request, and nobody waited for it.
LEMMA RoundRaise ==
  ASSUME RoundInv, NEW k \in Call, Now(k, "move"), Next1(k).to \notin Moves(Next1(k).who),
         Raise(k), UNCHANGED <<workflow, state, phase, passed, crashes, unadvanced>>
  PROVE  RoundInv'
<1> DEFINE o == Next1(k)
<1>1. /\ o.do = "move" /\ calls[k].todo # <<>> /\ RoundOrder
      /\ Holds(unadvanced, calls, RoundOps, Succ) /\ unadvanced \in Seq(Succ)
  BY DEF Now, RoundInv, Holds
<1>2. \A c \in Ordinal : o.who = Candidate(c) => o.to \notin CandidateMoves(cs(c))
  BY RoundNames DEF Moves, cs
<1>3. o.who = Task => o.to \notin TaskMoves(state[Task])
  BY DEF Moves
<1>4. /\ \A e, s : Ensure(e, s).do = "ensure" /\ MoveTo(e, s).who = e /\ MoveTo(e, s).to = s
      /\ \A j : Enqueue(j).do = "enqueue"
      /\ \A s : Again(s).do = "again"
      /\ Barrier.do = "barrier"
  BY DEF Ensure, MoveTo, Enqueue, Again, Barrier, Do, Op
<1> HIDE DEF o
<1>5. \A w \in Ordinal : ~ Closes(o, w)
  BY <1>1, <1>2, <1>4 DEF Closes, CandidateMoves
<1>6. ASSUME NEW w \in Ordinal PROVE ~ InStep(o, w)
  <2>1. o \notin Launches
    BY <1>1, <1>4 DEF Launches
  <2>2. ~ (cs(w) = "model_validating" /\ o = MoveTo(Candidate(w), "staged"))
    BY <1>2, <1>4 DEF CandidateMoves
  <2>3. ~ (cs(w) = "staged" /\ o = MoveTo(Candidate(w), "e2e_running"))
    BY <1>2, <1>4 DEF CandidateMoves
  <2>4. ~ (o = MoveTo(Task, "model_validating") /\ state[Task] = "evaluating")
    BY <1>3, <1>4 DEF TaskMoves
  <2>5. ~ (o = MoveTo(Task, "e2e_validating") /\ state[Task] = "model_validating")
    BY <1>3, <1>4 DEF TaskMoves
  <2> QED
    BY <1>1, <1>4, <2>1, <2>2, <2>3, <2>4, <2>5 DEF InStep
<1>7. ~ Urgent(o)
  BY <1>1, <1>4, <1>5, <1>6 DEF Urgent
<1>8. /\ calls' = [calls EXCEPT ![k] = Idle] /\ Idle.todo = <<>>
      /\ \A l \in Call \ {k} : calls'[l] = calls[l]
  BY <1>1 DEF Raise, Idle, Holds
<1>9. Holds(unadvanced', calls', RoundOps, Succ)
  BY <1>1, <1>8, ResetHolds
<1>20. PICK row : calls' = [calls EXCEPT ![k] = row] /\ row.todo = <<>>
  BY <1>8
<1>10. /\ Proposed \/ AllBefore(calls', {Do("propose", Generate)}, LateOp)
       /\ Evaluated \/ AllBefore(calls', AskEvaluating, LateOp)
  BY <1>1, <1>20, NewOrder, EmptyBefore DEF RoundOrder
<1>11. Closed \/ AllLinked'
  BY <1>1, <1>20, NewLinked, EmptyLinked DEF RoundInv
<1>12. Closed \/ crashes # 0 \/ Awake'
  BY <1>7, <1>8, AwakeElsewhere DEF RoundInv, o
<1> QED
  BY <1>9, <1>10, <1>11, <1>12, RoundStill

\* What a move leaves behind.
LEMMA AfterSkip ==
  ASSUME RoundInv, NEW k \in Call, calls[k].todo # <<>>, Skip(k), unadvanced' = unadvanced
  PROVE  /\ Holds(unadvanced', calls', RoundOps, Succ)
         /\ \A l \in Call \ {k} : calls'[l] = calls[l] /\ Next1(l)' = Next1(l)
         /\ Closed \/ AllLinked'
         /\ Next1(k) # Do("propose", Generate) /\ RoundOrder =>
               Proposed \/ AllBefore(calls', {Do("propose", Generate)}, LateOp)
         /\ Next1(k) \notin AskEvaluating /\ RoundOrder =>
               Evaluated \/ AllBefore(calls', AskEvaluating, LateOp)
         /\ \A A, B : Followed(calls[k].todo, A, B) /\ Next1(k) \in A =>
               calls'[k].todo # <<>> /\ Next1(k)' \in B
<1>1. Holds(unadvanced, calls, RoundOps, Succ) /\ unadvanced' \in Seq(Succ)
  BY DEF RoundInv, Holds
<1>2. Holds(unadvanced', calls', RoundOps, Succ)
  BY <1>1, SkipHolds
<1>3. \A l \in Call \ {k} : calls'[l] = calls[l] /\ Next1(l)' = Next1(l)
  BY <1>1 DEF Skip, Replace, Holds, Next1
<1>4. Closed \/ AllLinked'
  BY <1>1, EmptySeq, EmptyFits, ReplaceLinked DEF RoundInv, Skip
<1>5. Next1(k) # Do("propose", Generate) /\ RoundOrder =>
               Proposed \/ AllBefore(calls', {Do("propose", Generate)}, LateOp)
  BY <1>1, SkipOrder DEF RoundOrder
<1>6. Next1(k) \notin AskEvaluating /\ RoundOrder =>
               Evaluated \/ AllBefore(calls', AskEvaluating, LateOp)
  BY <1>1, SkipOrder DEF RoundOrder
<1>7. \A A, B : Followed(calls[k].todo, A, B) /\ Next1(k) \in A =>
               calls'[k].todo # <<>> /\ Next1(k)' \in B
  BY <1>1, NextFollowed
<1> QED
  BY <1>2, <1>3, <1>4, <1>5, <1>6, <1>7

LEMMA RoundMoveCandidate ==
  ASSUME RoundInv, NEW k \in Call, Now(k, "move"), Next1(k).who # Task,
         Next1(k).to \in Moves(Next1(k).who), state' = [state EXCEPT ![Next1(k).who] = Next1(k).to],
         Skip(k), UNCHANGED <<workflow, phase, passed, crashes, unadvanced>>
  PROVE  RoundInv'
<1> DEFINE o == Next1(k)
           to == o.to
<1>1. /\ o.do = "move" /\ calls[k].todo # <<>> /\ o \in RoundOps /\ o \in LateOp
      /\ \E c \in Ordinal : o.who = Candidate(c) /\ o = MoveTo(Candidate(c), to)
      /\ to = "release_candidate" => Closed
  BY RoundHead, RoundOpIs, RoundNames DEF Now, MoveTo
<1>2. PICK c \in Ordinal : o.who = Candidate(c) /\ o = MoveTo(Candidate(c), to)
  BY <1>1
<1>3. Proposed /\ Evaluated
  BY <1>1, RoundHead
<1> HIDE DEF o, to
<1>4. /\ MoveTo(Candidate(c), to) \in RoundOps /\ to \in CandidateMoves(cs(c))
      /\ state' = [state EXCEPT ![Candidate(c)] = to]
  BY <1>1, <1>2, RoundNames DEF Moves, cs, o, to
<1>5. /\ \A w \in Ordinal : Chosen(w) => Chosen(w)'
      /\ Closed' = Closed /\ RoundFacts' /\ Proposed' /\ Evaluated'
      /\ cs(c)' = to /\ \A d \in Ordinal \ {c} : cs(d)' = cs(d)
      /\ state'[Task] = state[Task] /\ DOMAIN state' = DOMAIN state
  BY <1>3, <1>4, CandidateMoved
<1>6. /\ Holds(unadvanced', calls', RoundOps, Succ)
      /\ \A l \in Call \ {k} : calls'[l] = calls[l] /\ Next1(l)' = Next1(l)
      /\ Closed \/ AllLinked'
      /\ \A A, B : Followed(calls[k].todo, A, B) /\ o \in A =>
               calls'[k].todo # <<>> /\ Next1(k)' \in B
  BY <1>1, AfterSkip DEF o
<1>7. RoundOrder'
  BY <1>5 DEF RoundOrder
<1>8. RoundKept
  BY DEF RoundKept
<1>9. ASSUME ~ Closed, Awake PROVE Awake'
  <2>1. Linked(calls[k].todo)
    BY <1>9 DEF RoundInv, AllLinked
  <2>2. ASSUME RoundReady'
        PROVE  calls'[k].todo # <<>> /\ Next1(k)' = Barrier
    <3>1. to \in {"round_waiting", "rejected"}
      BY <1>5, <2>2 DEF RoundReady, cs
    <3>2. o \in Settled
      BY <1>2, <3>1 DEF Settled, MoveTo
    <3> QED
      BY <1>6, <2>1, <3>2 DEF Linked
  <2>3. ASSUME NEW w \in Ordinal, cs(w)' \in Finalist
        PROVE  \E l \in Call : calls'[l].todo # <<>> /\ InStep(Next1(l), w)'
    <3>1. CASE w = c
      <4>1. to \in {"model_validating", "staged", "e2e_running"}
        BY <1>1, <1>5, <1>9, <2>3, <3>1 DEF Finalist
      <4>2. CASE to = "model_validating"
        <5>0. /\ o \in {MoveTo(Candidate(c), "model_validating")}
              /\ Followed(calls[k].todo, {MoveTo(Candidate(c), "model_validating")},
                          {MoveTo(Candidate(c), "staged")})
          BY <1>2, <2>1, <4>2 DEF Linked
        <5>1. calls'[k].todo # <<>> /\ Next1(k)' = MoveTo(Candidate(c), "staged")
          BY <1>6, <5>0
        <5>2. InStep(Next1(k), w)'
          BY <1>5, <3>1, <4>2, <5>1 DEF InStep, cs
        <5> QED
          BY <5>1, <5>2
      <4>3. CASE to = "staged"
        <5>0. /\ o \in {MoveTo(Candidate(c), "staged")}
              /\ Followed(calls[k].todo, {MoveTo(Candidate(c), "staged")},
                          {MoveTo(Candidate(c), "e2e_running")})
          BY <1>2, <2>1, <4>3 DEF Linked
        <5>1. calls'[k].todo # <<>> /\ Next1(k)' = MoveTo(Candidate(c), "e2e_running")
          BY <1>6, <5>0
        <5>2. InStep(Next1(k), w)'
          BY <1>5, <3>1, <4>3, <5>1 DEF InStep, cs
        <5> QED
          BY <5>1, <5>2
      <4>4. CASE to = "e2e_running"
        <5>0. o \in Running
          BY <1>2, <4>4 DEF Running, MoveTo
        <5>1. calls'[k].todo # <<>> /\ Next1(k)' = Ensure(Task, "e2e_validating")
          BY <1>6, <2>1, <5>0 DEF Linked
        <5>2. InStep(Next1(k), w)'
          BY <1>5, <3>1, <4>4, <5>1 DEF InStep, cs
        <5> QED
          BY <5>1, <5>2
      <4> QED
        BY <4>1, <4>2, <4>3, <4>4
    <3>2. CASE w # c
      <4>1. cs(w) \in Finalist
        BY <1>5, <2>3, <3>2
      <4>2. PICK l \in Call : calls[l].todo # <<>> /\ InStep(Next1(l), w)
        BY <1>9, <4>1 DEF Awake
      <4>3. ~ InStep(o, w)
        <5>1. o.do = "move" /\ o.who = Candidate(c) /\ Candidate(w) # Candidate(c)
              /\ Candidate(c) # Task
          BY <1>1, <1>2, <3>2, RoundNames
        <5> QED
          BY <5>1 DEF InStep, MoveTo, Ensure, Again, Launches, Enqueue, Op
      <4>4. calls'[l].todo # <<>> /\ Next1(l)' = Next1(l)
        BY <1>6, <4>2, <4>3 DEF o
      <4>5. InStep(Next1(l), w)'
        BY <1>5, <3>2, <4>2, <4>4 DEF InStep, cs
      <4> QED
        BY <4>4, <4>5
    <3> QED
      BY <3>1, <3>2
  <2> QED
    BY <2>2, <2>3 DEF Awake
<1> QED
  BY <1>5, <1>6, <1>7, <1>8, <1>9, RoundGoesOn DEF RoundInv

LEMMA RoundMoveTask ==
  ASSUME RoundInv, NEW k \in Call, Now(k, "move"), Next1(k).who = Task,
         Next1(k).to \in Moves(Next1(k).who), state' = [state EXCEPT ![Next1(k).who] = Next1(k).to],
         Skip(k), UNCHANGED <<workflow, phase, passed, crashes, unadvanced>>
  PROVE  RoundInv'
<1> DEFINE o == Next1(k)
           to == o.to
<1>1. /\ o.do = "move" /\ calls[k].todo # <<>> /\ o \in RoundOps
      /\ o = MoveTo(Task, to) /\ to \in TaskTargets
      /\ to \in {"awaiting_signoff", "rejected"} => Closed
  BY RoundHead, RoundOpIs, RoundNames DEF Now, MoveTo
<1>2. /\ to \in TaskMoves(state[Task]) /\ state' = [state EXCEPT ![Task] = to]
      /\ DOMAIN state = {Task} \cup Members
  BY DEF Moves, RoundInv
<1> HIDE DEF o, to
<1>3. /\ state'[Task] = to /\ \A c \in Ordinal : cs(c)' = cs(c)
      /\ DOMAIN state' = DOMAIN state
  BY <1>2, RoundNames DEF cs
<1>4. Closed' = Closed /\ Proposed' = Proposed
  BY <1>3 DEF Closed, MyJobs, Proposed
<1>5. \A c \in Ordinal : Chosen(c)' <=> Chosen(c)
  BY <1>3 DEF Chosen
<1>6. Evaluated => Evaluated'
  BY <1>1, <1>2, <1>3 DEF RoundInv, RoundFacts, Evaluated, TaskMoves
<1>7. RoundFacts'
  <2>1. \A c \in Ordinal : /\ Won(Performance(c))' <=> Won(Performance(c))
                           /\ Won(Correctness(c))' <=> Won(Correctness(c))
    BY DEF Won
  <2> QED
    BY <1>1, <1>3, <1>4, <1>5, <1>6, <2>1 DEF RoundInv, RoundFacts, TaskTargets
<1>8. /\ Holds(unadvanced', calls', RoundOps, Succ) /\ RoundKept
      /\ \A l \in Call \ {k} : calls'[l] = calls[l] /\ Next1(l)' = Next1(l)
      /\ Closed \/ AllLinked'
      /\ o # Do("propose", Generate) /\ RoundOrder =>
               Proposed \/ AllBefore(calls', {Do("propose", Generate)}, LateOp)
      /\ o \notin AskEvaluating /\ RoundOrder =>
               Evaluated \/ AllBefore(calls', AskEvaluating, LateOp)
      /\ \A A, B : Followed(calls[k].todo, A, B) /\ o \in A =>
               calls'[k].todo # <<>> /\ Next1(k)' \in B
  BY <1>1, AfterSkip DEF o, RoundKept
<1>9. o # Do("propose", Generate) /\ (o \in AskEvaluating => Evaluated')
  BY <1>1, <1>3 DEF MoveTo, Do, Op, AskEvaluating, Evaluated
<1>10. RoundOrder'
  BY <1>4, <1>6, <1>8, <1>9 DEF RoundInv, RoundOrder, AskEvaluating, LateOp
<1>11. ASSUME ~ Closed, Awake PROVE Awake'
  <2>1. Linked(calls[k].todo)
    BY <1>11 DEF RoundInv, AllLinked
  <2>2. RoundReady' = RoundReady /\ \A d, w : w \in Ordinal => (Closes(d, w)' <=> Closes(d, w))
    BY <1>3 DEF RoundReady, cs, Closes
  <2>3. o # Barrier /\ \A w \in Ordinal : ~ Closes(o, w)
    BY <1>1, RoundNames DEF MoveTo, Ensure, Barrier, Do, Op, Closes
  <2>4. ASSUME RoundReady'
        PROVE  \E l \in Call : calls'[l].todo # <<>> /\
                 (Next1(l)' = Barrier \/ \E w \in Ordinal : Closes(Next1(l), w)')
    <3>1. PICK l \in Call : calls[l].todo # <<>> /\
                 (Next1(l) = Barrier \/ \E w \in Ordinal : Closes(Next1(l), w))
      BY <1>11, <2>2, <2>4 DEF Awake
    <3>2. l # k
      BY <2>3, <3>1 DEF o
    <3>3. calls'[l].todo # <<>> /\ Next1(l)' = Next1(l)
      BY <1>8, <3>1, <3>2
    <3> QED
      BY <1>3, <3>1, <3>3 DEF Closes, cs
  <2>5. ASSUME NEW w \in Ordinal, cs(w)' \in Finalist
        PROVE  \E l \in Call : calls'[l].todo # <<>> /\ InStep(Next1(l), w)'
    <3>1. cs(w) \in Finalist /\ Evaluated /\ cs(w) \in {"model_validating", "staged", "e2e_running"}
      BY <1>3, <1>11, <2>5, FinalistLate DEF Finalist, RoundInv, RoundFacts
    <3>2. to \in {"model_validating", "e2e_validating"}
      BY <1>1, <1>2, <1>11, <3>1 DEF RoundInv, RoundFacts, Evaluated, TaskMoves, TaskTargets
    <3>3. PICK l \in Call : calls[l].todo # <<>> /\ InStep(Next1(l), w)
      BY <1>11, <3>1 DEF Awake
    <3>4. CASE cs(w) \in {"model_validating", "staged"}
      <4>1. ~ InStep(o, w)
        BY <1>1, <3>4, RoundNames DEF InStep, MoveTo, Op
      <4>2. calls'[l].todo # <<>> /\ Next1(l)' = Next1(l)
        BY <1>8, <3>3, <4>1 DEF o
      <4>3. InStep(Next1(l), w)'
        BY <1>3, <3>3, <3>4, <4>2 DEF InStep, cs
      <4> QED
        BY <4>2, <4>3
    <3>5. CASE cs(w) = "e2e_running" /\ to = "model_validating"
      <4>1. o \in Modelling
        BY <1>1, <3>5 DEF Modelling, MoveTo
      <4>2. calls'[k].todo # <<>> /\ Next1(k)' = Again("e2e_validating")
        BY <1>8, <2>1, <4>1 DEF Linked
      <4>3. InStep(Next1(k), w)'
        BY <1>3, <3>5, <4>2 DEF InStep, cs
      <4> QED
        BY <4>2, <4>3
    <3>6. CASE cs(w) = "e2e_running" /\ to = "e2e_validating"
      <4>1. o \in Validating
        BY <1>1, <3>6 DEF Validating, MoveTo
      <4>2. calls'[k].todo # <<>> /\ Next1(k)' \in Launches
        BY <1>8, <2>1, <4>1 DEF Linked
      <4>3. InStep(Next1(k), w)'
        BY <1>3, <3>6, <4>2 DEF InStep, cs, Launches
      <4> QED
        BY <4>2, <4>3
    <3> QED
      BY <3>1, <3>2, <3>4, <3>5, <3>6
  <2> QED
    BY <2>4, <2>5 DEF Awake
<1> QED
  BY <1>3, <1>4, <1>5, <1>7, <1>8, <1>10, <1>11, RoundGoesOn DEF RoundInv

LEMMA RoundEnqueue ==
  ASSUME RoundInv, NEW k \in Call, EnqueueOne(k), UNCHANGED workflow
  PROVE  RoundInv'
<1> DEFINE o == Next1(k)
           j == o.who
<1>1. /\ o.do = "enqueue" /\ calls[k].todo # <<>> /\ o \in RoundOps
      /\ j \in RoundJobs /\ o = Enqueue(j)
  BY RoundHead, RoundOpIs DEF EnqueueOne, Now
<1>2. /\ phase' = [phase EXCEPT ![j] = IF @ = "absent" THEN "queued" ELSE @]
      /\ Skip(k) /\ UNCHANGED <<passed, unadvanced, state, crashes>>
      /\ phase \in [RoundJobs -> Phases]
  BY DEF EnqueueOne, RoundInv
<1> HIDE DEF o, j
<1>3. /\ phase' \in [RoundJobs -> Phases] /\ RoundKept
      /\ \A i \in RoundJobs : /\ i # j => phase'[i] = phase[i]
                              /\ phase[i] # "absent" => phase'[i] # "absent"
      /\ phase'[j] # "absent"
  BY <1>1, <1>2 DEF Phases, RoundKept
<1>4. /\ \A c : cs(c)' = cs(c)
      /\ Proposed' = Proposed /\ Evaluated' = Evaluated /\ state'[Task] = state[Task]
  BY <1>2 DEF cs, Proposed, Evaluated
<1>5. \A c \in Ordinal : Chosen(c)' <=> Chosen(c)
  BY <1>4 DEF Chosen
<1>6. MyJobs = RoundJobs /\ MyJobs' = RoundJobs
  BY RoundIs DEF RoundInv, MyJobs
<1>7. /\ Closed => Closed'
      /\ \A c \in Ordinal : j = E2E(c) => Closed'
  BY <1>3, <1>6, RoundNames DEF Closed
<1>8. \A c \in Ordinal : /\ Won(Performance(c)) => Won(Performance(c))'
                         /\ Won(Correctness(c)) => Won(Correctness(c))'
  BY <1>3, RoundNames DEF RoundKept, Won
<1>9. j \notin {Profile, Generate} => Proposed /\ Evaluated
  <2>1. j \notin {Profile, Generate} => o \in LateOp
    BY <1>1 DEF LateOp
  <2> QED
    BY <1>1, <2>1, RoundHead DEF o
<1>10. \A c \in Ordinal : /\ j = E2E(c) => Chosen(c) /\ Won(Performance(c))
                          /\ j = Performance(c) => Won(Correctness(c))
  BY <1>1 DEF RoundOps, RoundDue
<1>11. RoundFacts'
  <2>1. \A i \in RoundJobs \ {Profile, Generate} : phase'[i] # "absent" => Proposed /\ Evaluated
    BY <1>3, <1>9 DEF RoundInv, RoundFacts
  <2>2. ASSUME NEW c \in Ordinal
        PROVE  /\ phase'[E2E(c)] # "absent" => Chosen(c)' /\ Won(Performance(c))'
               /\ phase'[Performance(c)] # "absent" => Won(Correctness(c))'
    <3>1. E2E(c) \in RoundJobs /\ Performance(c) \in RoundJobs
      BY RoundNames
    <3>2. phase'[E2E(c)] # "absent" => Chosen(c) /\ Won(Performance(c))
      BY <1>3, <1>10, <3>1 DEF RoundInv, RoundFacts
    <3>3. phase'[Performance(c)] # "absent" => Won(Correctness(c))
      BY <1>3, <1>10, <3>1 DEF RoundInv, RoundFacts
    <3> QED
      BY <1>5, <1>8, <3>2, <3>3
  <2>3. ASSUME NEW c \in Ordinal
        PROVE  /\ cs(c)' \in {"absent", "rejected"} \cup PathStates
               /\ cs(c)' \in {"round_waiting"} \cup Finalist => Won(Performance(c))'
               /\ cs(c)' \in Finalist => Chosen(c)'
               /\ cs(c)' = "release_candidate" => Closed'
    BY <1>4, <1>5, <1>7, <1>8 DEF RoundInv, RoundFacts
  <2> QED
    BY <1>4, <1>7, <2>1, <2>2, <2>3 DEF RoundInv, RoundFacts
<1>12. /\ Holds(unadvanced', calls', RoundOps, Succ)
       /\ \A l \in Call \ {k} : calls'[l] = calls[l] /\ Next1(l)' = Next1(l)
       /\ Closed \/ AllLinked'
       /\ o # Do("propose", Generate) /\ RoundOrder =>
               Proposed \/ AllBefore(calls', {Do("propose", Generate)}, LateOp)
       /\ o \notin AskEvaluating /\ RoundOrder =>
               Evaluated \/ AllBefore(calls', AskEvaluating, LateOp)
  BY <1>1, <1>2, AfterSkip DEF o
<1>13. o # Do("propose", Generate) /\ o \notin AskEvaluating
  BY <1>1 DEF Do, Op, AskEvaluating
<1>14. RoundOrder'
  BY <1>4, <1>12, <1>13 DEF RoundInv, RoundOrder, AskEvaluating, LateOp
<1>15. Closed' \/ crashes' # 0 \/ Awake'
  <2> SUFFICES ASSUME Awake, ~ Closed' PROVE Awake'
    BY <1>2, <1>7 DEF RoundInv
  <2>1. o # Barrier /\ \A w \in Ordinal : ~ Closes(o, w)
    BY <1>1 DEF Barrier, Do, Op, Closes, Ensure, MoveTo
  <2>2. o \notin Launches
    BY <1>1, <1>7 DEF Launches, Enqueue, Op
  <2>3. \A w \in Ordinal : ~ InStep(o, w)
    BY <1>1, <2>2 DEF InStep, MoveTo, Ensure, Again, Op
  <2> QED
    BY <1>2, <1>12, <2>1, <2>3, AwakeElsewhere DEF Urgent, o
<1> QED
  BY <1>2, <1>3, <1>5, <1>7, <1>11, <1>12, <1>14, <1>15, RoundGoesOn DEF RoundInv

LEMMA RoundCreate ==
  ASSUME RoundInv, NEW k \in Call, CreateCandidates(k), UNCHANGED workflow
  PROVE  RoundInv'
<1> DEFINE o == Next1(k)
<1>1. /\ o.do = "propose" /\ calls[k].todo # <<>> /\ o \in RoundOps
      /\ o = Do("propose", Generate)
  BY RoundHead, RoundOpIs DEF CreateCandidates, Now
<1>2. /\ Skip(k) /\ UNCHANGED <<phase, passed, unadvanced, crashes>>
      /\ DOMAIN state' = DOMAIN state
      /\ DOMAIN state = {Task} \cup Members
  BY DEF CreateCandidates, RoundInv
<1>3. /\ state'[Task] = state[Task]
      /\ \A c \in Ordinal : cs(c)' = IF cs(c) = "absent" THEN "proposed" ELSE cs(c)
  BY <1>2, RoundNames DEF CreateCandidates, cs
<1> HIDE DEF o
<1>4. Closed' = Closed /\ Proposed' /\ Evaluated' = Evaluated /\ RoundKept
  BY <1>2, <1>3 DEF Closed, MyJobs, Proposed, Evaluated, RoundKept
<1>5. \A c \in Ordinal : Chosen(c) => Chosen(c)'
  BY <1>3 DEF Chosen, Finalist
<1>6. \A c \in Ordinal : /\ Won(Performance(c))' <=> Won(Performance(c))
                         /\ Won(Correctness(c))' <=> Won(Correctness(c))
  BY <1>2 DEF Won
<1>7. \A c \in Ordinal : /\ cs(c)' \in {"absent", "rejected"} \cup PathStates
                         /\ cs(c)' \in {"round_waiting", "rejected", "release_candidate"} \cup Finalist =>
                               cs(c)' = cs(c)
  BY <1>3 DEF RoundInv, RoundFacts, PathStates, Finalist
<1>8. RoundFacts'
  BY <1>2, <1>3, <1>4, <1>5, <1>6, <1>7 DEF RoundInv, RoundFacts
<1>9. /\ Holds(unadvanced', calls', RoundOps, Succ)
      /\ \A l \in Call \ {k} : calls'[l] = calls[l] /\ Next1(l)' = Next1(l)
      /\ Closed \/ AllLinked'
      /\ o \notin AskEvaluating /\ RoundOrder =>
               Evaluated \/ AllBefore(calls', AskEvaluating, LateOp)
  BY <1>1, <1>2, AfterSkip DEF o
<1>10. o \notin AskEvaluating
  BY <1>1 DEF AskEvaluating, Op
<1>11. RoundOrder'
  BY <1>4, <1>9, <1>10 DEF RoundInv, RoundOrder, AskEvaluating, LateOp
<1>12. ASSUME Awake PROVE Awake'
  <2>1. o # Barrier /\ (\A w \in Ordinal : ~ Closes(o, w)) /\ \A w \in Ordinal : ~ InStep(o, w)
    BY <1>1 DEF Barrier, Do, Op, Closes, Ensure, MoveTo, InStep, Again, Launches, Enqueue
  <2>2. ASSUME RoundReady'
        PROVE  \E l \in Call : calls'[l].todo # <<>> /\
                 (Next1(l)' = Barrier \/ \E w \in Ordinal : Closes(Next1(l), w)')
    <3>0. RoundReady
      BY <1>7, <2>2 DEF RoundReady, cs
    <3>1. PICK l \in Call : calls[l].todo # <<>> /\
                 (Next1(l) = Barrier \/ \E w \in Ordinal : Closes(Next1(l), w))
      BY <1>12, <3>0 DEF Awake
    <3>3. calls'[l].todo # <<>> /\ Next1(l)' = Next1(l)
      BY <1>9, <2>1, <3>1 DEF o
    <3>4. CASE Next1(l) = Barrier
      BY <3>3, <3>4
    <3>5. ASSUME NEW w \in Ordinal, Closes(Next1(l), w)
          PROVE  Closes(Next1(l), w)'
      BY <1>3, <3>3, <3>5 DEF Closes, cs
    <3> QED
      BY <3>1, <3>3, <3>4, <3>5
  <2>3. ASSUME NEW w \in Ordinal, cs(w)' \in Finalist
        PROVE  \E l \in Call : calls'[l].todo # <<>> /\ InStep(Next1(l), w)'
    <3>1. cs(w) \in Finalist /\ cs(w)' = cs(w)
      BY <1>7, <2>3
    <3>2. PICK l \in Call : calls[l].todo # <<>> /\ InStep(Next1(l), w)
      BY <1>12, <3>1 DEF Awake
    <3>3. calls'[l].todo # <<>> /\ Next1(l)' = Next1(l)
      BY <1>9, <2>1, <3>2 DEF o
    <3>4. InStep(Next1(l), w)'
      BY <1>3, <3>1, <3>2, <3>3 DEF InStep, cs
    <3> QED
      BY <3>3, <3>4
  <2> QED
    BY <2>2, <2>3 DEF Awake
<1> QED
  BY <1>2, <1>4, <1>5, <1>8, <1>9, <1>11, <1>12, RoundGoesOn DEF RoundInv

LEMMA RoundFinish ==
  ASSUME RoundInv, NEW k \in Call, MaybeFinishRound(k), UNCHANGED workflow
  PROVE  RoundInv'
<1> DEFINE o == Next1(k)
           W == {c \in Ordinal : state[Candidate(c)] = "round_waiting"}
           w == CHOOSE c \in W : \A d \in W : c <= d
           r == IF RoundReady
                THEN <<Ensure(Candidate(w), "e2e_running"), Ensure(Task, "e2e_validating"),
                       Enqueue(E2E(w))>>
                ELSE <<>>
<1>1. /\ o.do = "barrier" /\ calls[k].todo # <<>> /\ o \in RoundOps
      /\ o = Barrier /\ o \in LateOp
  BY RoundHead, RoundOpIs DEF MaybeFinishRound, Now
<1>2. Proposed /\ Evaluated
  BY <1>1, RoundHead
<1>3. RoundReady <=> W # {} /\ \A c \in Ordinal : state[Candidate(c)] \in {"round_waiting", "rejected"}
  BY DEF RoundReady
<1>4. /\ Replace(k, r) /\ UNCHANGED <<state, phase, passed, crashes, unadvanced>>
      /\ Holds(unadvanced, calls, RoundOps, Succ)
  BY <1>3 DEF MaybeFinishRound, Skip, RoundInv
<1>5. o # Do("propose", Generate) /\ o \notin AskEvaluating
  BY <1>1 DEF Do, Op, AskEvaluating
<1>6. \A v \in Ordinal : ~ InStep(o, v)
  BY <1>1 DEF InStep, MoveTo, Ensure, Again, Launches, Enqueue, Do, Op
<1>7. CASE ~ RoundReady
  <2>1. r = <<>> /\ r \in Seq(RoundOps) /\ LinkedFits(r, o) /\ DOMAIN r = {}
    BY <1>7, EmptySeq, EmptyFits
  <2>2. \A l \in Call \ {k} : calls'[l] = calls[l]
    BY <1>1, <1>4, <2>1, NextReplaced
  <2>3. Closed \/ crashes # 0 \/ Awake'
    BY <1>4, <1>6, <1>7, <2>2, AwakeStays DEF RoundInv
  <2> QED
    BY <1>1, <1>4, <1>5, <2>1, <2>3, RoundReplace
<1>8. CASE RoundReady
  <2>1. w \in W /\ \A d \in W : w <= d
    <3>1. W \subseteq Nat /\ W # {}
      BY <1>3, <1>8 DEF Ordinal
    <3> QED
      BY <3>1, LeastOne
  <2> HIDE DEF w
  <2>2. w \in Ordinal /\ cs(w) = "round_waiting"
    BY <2>1 DEF cs
  <2>3. Chosen(w) /\ Won(Performance(w))
    <3>1. \A d \in Ordinal : d < w => d \notin W
      BY <2>1 DEF Ordinal
    <3>2. \A d \in Ordinal : cs(d) \in {"round_waiting", "rejected"}
      BY <1>8 DEF RoundReady, cs
    <3>3. \A d \in Ordinal : d < w => cs(d) = "rejected"
      BY <3>1, <3>2 DEF cs
    <3> QED
      BY <2>2, <3>2, <3>3 DEF Chosen, RoundInv, RoundFacts
  <2> DEFINE x == Ensure(Candidate(w), "e2e_running")
             y == Ensure(Task, "e2e_validating")
             z == Enqueue(E2E(w))
  <2>4. r = <<x, y, z>>
    BY <1>8
  <2>5. x \in RoundOps /\ y \in RoundOps /\ z \in RoundOps
    BY <2>2, <2>3, DueOps DEF RoundInv
  <2>6. /\ x \in Running /\ y \in Validating /\ z \in Launches /\ Cold(z)
        /\ y \notin Settled \cup Running \cup Modelling
        /\ x \notin Settled \cup Modelling \cup Validating
        /\ \A c \in Ordinal : {x, y} \cap {MoveTo(Candidate(c), "model_validating"),
                                           MoveTo(Candidate(c), "staged")} = {}
    <3>1. x \in Running /\ y \in Validating /\ z \in Launches /\ Cold(z)
      BY <2>2, ColdOps DEF Running, Validating, Launches, Ensure
    <3>4. x.do = "ensure" /\ y.do = "ensure" /\ \A e, s : MoveTo(e, s).do = "move"
      BY DEF Ensure, MoveTo, Op
    <3>6. /\ y.who = Task /\ y.to = "e2e_validating"
          /\ x.who = Candidate(w) /\ x.to = "e2e_running" /\ Candidate(w) # Task
      BY <2>2, RoundNames DEF Ensure, Op
    <3> HIDE DEF x, y, z
    <3>2. y \notin Settled \cup Running \cup Modelling
      BY <3>4, <3>6, RoundNames DEF Settled, Running, Modelling, Op
    <3>3. x \notin Settled \cup Modelling \cup Validating
      BY <3>4, <3>6 DEF Settled, Validating, Modelling, Op
    <3>5. \A c \in Ordinal : {x, y} \cap {MoveTo(Candidate(c), "model_validating"),
                                           MoveTo(Candidate(c), "staged")} = {}
      BY <3>4
    <3> QED
      BY <3>1, <3>2, <3>3, <3>5
  <2>7. y = Ensure(Task, "e2e_validating")
    OBVIOUS
  <2>8. Closes(x, w)
    BY <2>2 DEF Closes
  <2> HIDE DEF r, x, y, z
  <2>9. r \in Seq(RoundOps) /\ Len(r) = 3 /\ r[1] = x /\ r[2] = y /\ r[3] = z /\ r # <<>> /\ Head(r) = x
    BY <2>4, <2>5
  <2>10. LinkedFits(r, o)
    <3> DEFINE n == Len(r)
    <3>1. \A i \in 1 .. n : \/ i = 1 /\ i # n /\ r[i] = x /\ r[i + 1] = y
                            \/ i = 2 /\ i # n /\ r[i] = y /\ r[i + 1] = z
                            \/ i = 3 /\ i = n /\ r[i] = z
      BY <2>9
    <3> HIDE DEF n
    <3> QED
      BY <2>6, <2>7, <3>1 DEF LinkedFits, Fits, Cold, n
  <2>11. /\ \A l \in Call \ {k} : calls'[l] = calls[l]
         /\ calls'[k].todo # <<>> /\ Next1(k)' = x
    BY <1>1, <1>4, <2>9, NextReplaced
  <2>12. Closed \/ crashes # 0 \/ Awake'
    BY <1>4, <1>6, <2>2, <2>8, <2>11, AwakeStays DEF RoundInv
  <2> QED
    BY <1>1, <1>2, <1>4, <1>5, <2>9, <2>10, <2>12, RoundReplace
<1> QED
  BY <1>7, <1>8

LEMMA EmptyRows ==
  /\ Idle.todo = <<>>
  /\ \A a, q : [kind |-> a, todo |-> <<>>, queue |-> q].todo = <<>>
BY DEF Idle

LEMMA RoundServe ==
  ASSUME RoundInv, NEW k \in Call, Serve(k)
  PROVE  RoundInv'
<1> DEFINE o == Next1(k)
<1>1. /\ calls[k].todo # <<>> =>
            o.do \in {"ensure", "again", "move", "propose", "enqueue", "barrier", "mark"}
      /\ Holds(unadvanced, calls, RoundOps, Succ) /\ RoundOrder /\ unadvanced \in Seq(Succ)
  BY RoundHead, RoundOpIs DEF RoundInv, Holds
<1>2. UNCHANGED OnlyBase => workflow' = workflow
  BY DEF OnlyBase
<1>3. CASE calls[k].queue # <<>> /\ Turn(k, Handler(Head(calls[k].queue))) /\ UNCHANGED OnlyBase
  BY <1>2, <1>3, RoundTurn
<1>4. CASE EnsureState(k) /\ UNCHANGED OnlyBase
  BY <1>2, <1>4, RoundEnsureCandidate, RoundEnsureTask DEF EnsureState
<1>5. CASE Move(k) /\ UNCHANGED OnlyBase
  <2>1. /\ Now(k, "move") /\ workflow' = workflow
        /\ UNCHANGED <<phase, passed, unadvanced, crashes>>
        /\ \/ /\ o.to \in Moves(o.who)
              /\ state' = [state EXCEPT ![o.who] = o.to] /\ Skip(k)
           \/ o.to \notin Moves(o.who) /\ Raise(k) /\ UNCHANGED state
    BY <1>2, <1>5 DEF Move
  <2> QED
    BY <2>1, RoundRaise, RoundMoveCandidate, RoundMoveTask
<1>6. CASE EnqueueOne(k) /\ UNCHANGED OnlyBase
  BY <1>2, <1>6, RoundEnqueue
<1>7. CASE MarkAdvanced(k) /\ UNCHANGED OnlyBase
  <2>1. /\ calls[k].todo # <<>> /\ o.do = "mark" /\ Skip(k) /\ workflow' = workflow
        /\ UNCHANGED <<phase, passed, state, crashes>>
    BY <1>2, <1>7 DEF MarkAdvanced, Now
  <2>2. Holds(unadvanced', calls', RoundOps, Succ)
    BY <1>1, <1>7, PlainRequests
  <2>3. o \notin AskEvaluating /\ o # Do("propose", Generate)
    BY <2>1 DEF AskEvaluating, Do, Op
  <2>4. /\ Proposed \/ AllBefore(calls', {Do("propose", Generate)}, LateOp)
        /\ Evaluated \/ AllBefore(calls', AskEvaluating, LateOp)
    BY <1>1, <2>1, <2>3, SkipOrder DEF RoundOrder
  <2>5. Closed \/ AllLinked'
    BY <1>1, <2>1, EmptySeq, EmptyFits, ReplaceLinked DEF RoundInv, Skip
  <2>6. ~ Urgent(o)
    BY <2>1 DEF Urgent, Closes, InStep, Barrier, Do, Op, MoveTo, Ensure, Again, Launches, Enqueue
  <2>7. \A l \in Call \ {k} : calls'[l] = calls[l]
    BY <1>1, <2>1 DEF Skip, Replace, Holds
  <2>8. Closed \/ crashes # 0 \/ Awake'
    BY <2>1, <2>6, <2>7, AwakeElsewhere DEF RoundInv
  <2> QED
    BY <2>1, <2>2, <2>4, <2>5, <2>8, RoundStill
<1>8. CASE Return(k) /\ UNCHANGED OnlyBase
  <2>1. /\ calls[k].todo = <<>> /\ calls' = [calls EXCEPT ![k] = Idle]
        /\ UNCHANGED <<phase, passed, state, crashes, unadvanced, workflow>>
    BY <1>2, <1>8 DEF Return, Done
  <2>2. Holds(unadvanced', calls', RoundOps, Succ)
    BY <1>1, <1>8, PlainRequests
  <2>4. /\ Proposed \/ AllBefore(calls', {Do("propose", Generate)}, LateOp)
        /\ Evaluated \/ AllBefore(calls', AskEvaluating, LateOp)
    BY <1>1, <1>8, PlainOrder DEF RoundOrder
  <2>3. PICK row : calls' = [calls EXCEPT ![k] = row] /\ row.todo = <<>>
    BY <2>1, EmptyRows
  <2>5. Closed \/ AllLinked'
    BY <1>1, <2>3, NewLinked, EmptyLinked DEF RoundInv
  <2>7. \A l \in Call \ {k} : calls'[l] = calls[l]
    BY <1>1, <2>1 DEF Holds
  <2>8. Closed \/ crashes # 0 \/ Awake'
    BY <2>1, <2>7, AwakeElsewhere DEF RoundInv
  <2> QED
    BY <2>1, <2>2, <2>4, <2>5, <2>8, RoundStill
<1>9. CASE ReadAgain(k) /\ UNCHANGED OnlyBase
  BY <1>2, <1>9, RoundReadAgain
<1>10. CASE CreateCandidates(k) /\ UNCHANGED OnlyBase
  BY <1>2, <1>10, RoundCreate
<1>11. CASE MaybeFinishRound(k) /\ UNCHANGED OnlyBase
  BY <1>2, <1>11, RoundFinish
\* What other workflows do is not asked for here.
<1>12. ~ (CreateNoopCandidate(k) \/ ExecuteFramework(k) \/ RecordEvidence(k) \/ JudgeSmoke(k))
  BY <1>1 DEF CreateNoopCandidate, ExecuteFramework, RecordEvidence, JudgeSmoke, Now
<1>13. ~ (SetVerdict(k) \/ RecordProbe(k) \/ FinalizeStage0(k) \/ RecordEndpoint(k)
          \/ RecordAdjudication(k))
  BY <1>1 DEF SetVerdict, RecordProbe, FinalizeStage0, RecordEndpoint, RecordAdjudication, Now
<1> QED
  BY <1>3, <1>4, <1>5, <1>6, <1>7, <1>8, <1>9, <1>10, <1>11, <1>12, <1>13 DEF Serve

LEMMA RoundStep == RoundInv /\ [RouterNext]_vars => RoundInv'
<1> SUFFICES ASSUME RoundInv, [RouterNext]_vars PROVE RoundInv'
  OBVIOUS
<1>1. /\ workflow = "optimization" /\ MyJobs = RoundJobs
      /\ Holds(unadvanced, calls, RoundOps, Succ) /\ unadvanced \in Seq(Succ) /\ RoundOrder
      /\ phase \in [RoundJobs -> Phases] /\ passed \in [RoundJobs -> BOOLEAN]
      /\ crashes \in Nat /\ DOMAIN state = {Task} \cup Members
  BY RoundIs DEF RoundInv, Holds
\* A request starts anew, or ends, while nobody waits for it.
<1>2. ASSUME NEW k \in Call, NEW row, calls' = [calls EXCEPT ![k] = row], row.todo = <<>>,
             calls[k].todo = <<>>, UNCHANGED state
      PROVE  /\ Proposed \/ AllBefore(calls', {Do("propose", Generate)}, LateOp)
             /\ Evaluated \/ AllBefore(calls', AskEvaluating, LateOp)
             /\ Closed \/ AllLinked'
             /\ Closed \/ crashes # 0 \/ Awake'
  <2>0. \A A, B : Before(row.todo, A, B)
    BY <1>2, EmptyBefore
  <2>5. \A A, B : AllBefore(calls, A, B) => AllBefore(calls', A, B)
    BY <1>1, <1>2, <2>0, NewOrder
  <2>1. /\ Proposed \/ AllBefore(calls', {Do("propose", Generate)}, LateOp)
        /\ Evaluated \/ AllBefore(calls', AskEvaluating, LateOp)
    BY <1>1, <2>5 DEF RoundOrder
  <2>2. Closed \/ AllLinked'
    BY <1>1, <1>2, NewLinked, EmptyLinked DEF RoundInv
  <2>3. \A l \in Call \ {k} : calls'[l] = calls[l]
    BY <1>1, <1>2 DEF Holds
  <2>4. Closed \/ crashes # 0 \/ Awake'
    BY <1>2, <2>3, AwakeElsewhere DEF RoundInv
  <2> QED
    BY <2>1, <2>2, <2>4
<1>3. ASSUME NEW j \in RoundJobs, phase[j] \notin {"succeeded", "absent"},
             NEW p \in Phases \ {"absent"}, phase' = [phase EXCEPT ![j] = p],
             \A i \in RoundJobs \ {j} : passed'[i] = passed[i]
      PROVE  /\ phase' \in [RoundJobs -> Phases] /\ RoundKept
             /\ \A i \in RoundJobs : phase'[i] = "absent" <=> phase[i] = "absent"
  BY <1>1, <1>3 DEF RoundKept
\* Requests stay as they are.
<1>4. ASSUME UNCHANGED <<workflow, state, passed, unadvanced, calls, crashes>>,
             NEW j \in RoundJobs, phase[j] \notin {"succeeded", "absent"},
             phase' = [phase EXCEPT ![j] = "over"]
      PROVE  RoundInv'
  <2>1. /\ phase' \in [RoundJobs -> Phases] /\ RoundKept
        /\ \A i \in RoundJobs : phase'[i] = "absent" <=> phase[i] = "absent"
    BY <1>3, <1>4 DEF Phases
  <2>2. AllLinked' <=> AllLinked
    BY <1>4 DEF AllLinked, Linked
  <2>3. Awake' <=> Awake
    BY <1>4 DEF Awake, RoundReady, Next1, cs, Closes, InStep
  <2> QED
    BY <1>1, <1>4, <2>1, <2>2, <2>3, RoundQuiet DEF RoundInv, RoundOrder
<1>5. ASSUME NEW k \in Call, Poll(k) PROVE RoundInv'
  <2>1. /\ UNCHANGED <<workflow, state, phase, passed, crashes>>
        /\ calls[k].todo = <<>>
        /\ calls' = [calls EXCEPT ![k] = [kind |-> "claim", todo |-> <<>>, queue |-> unadvanced]]
    BY <1>5 DEF Poll, Reconcile, OnlyBase, Idle
  <2>2. Holds(unadvanced', calls', RoundOps, Succ)
    BY <1>1, <1>5, PlainRequests DEF Poll
  <2>3. PICK row : calls' = [calls EXCEPT ![k] = row] /\ row.todo = <<>>
    BY <2>1, EmptyRows
  <2> QED
    BY <1>2, <2>1, <2>2, <2>3, RoundStill
<1>6. ASSUME NEW k \in Call, Die(k) PROVE RoundInv'
  <2>1. /\ UNCHANGED <<workflow, state, phase, passed>>
        /\ crashes' = crashes + 1 /\ calls' = [calls EXCEPT ![k] = Idle]
    BY <1>6 DEF Die, Crash, OnlyBase
  <2>2. Holds(unadvanced', calls', RoundOps, Succ)
    BY <1>1, <1>6, PlainRequests DEF Die
  <2>3. PICK row : calls' = [calls EXCEPT ![k] = row] /\ row.todo = <<>>
    BY <2>1, EmptyRows
  <2>4. /\ Proposed \/ AllBefore(calls', {Do("propose", Generate)}, LateOp)
        /\ Evaluated \/ AllBefore(calls', AskEvaluating, LateOp)
    BY <1>1, <2>3, NewOrder, EmptyBefore DEF RoundOrder
  <2>5. Closed \/ AllLinked'
    BY <1>1, <2>3, NewLinked, EmptyLinked DEF RoundInv
  <2>6. crashes' \in Nat /\ crashes' # 0 /\ RoundKept
    BY <1>1, <2>1 DEF RoundKept
  <2> QED
    BY <1>1, <2>1, <2>2, <2>4, <2>5, <2>6, RoundQuiet
<1>7. ASSUME NEW k \in Call, NEW j \in MyJobs, Claim(k, j) PROVE RoundInv'
  <2>1. /\ ClaimJob(k, j) /\ UNCHANGED <<state, workflow, passed, crashes>>
        /\ phase[j] = "queued" /\ phase' = [phase EXCEPT ![j] = "running"]
        /\ calls[k].todo = <<>> /\ calls' = [calls EXCEPT ![k] = Idle]
    BY <1>7 DEF Claim, ClaimJob, ButEndpoint, Done
  <2>2. /\ phase' \in [RoundJobs -> Phases] /\ RoundKept
        /\ \A i \in RoundJobs : phase'[i] = "absent" <=> phase[i] = "absent"
    BY <1>1, <1>3, <2>1 DEF Phases
  <2>3. Holds(unadvanced', calls', RoundOps, Succ)
    BY <1>1, <2>1, PlainRequests
  <2>4. PICK row : calls' = [calls EXCEPT ![k] = row] /\ row.todo = <<>>
    BY <2>1, EmptyRows
  <2> QED
    BY <1>1, <1>2, <2>1, <2>2, <2>3, <2>4, RoundQuiet
<1>8. ASSUME NEW k \in Call, NEW j \in MyJobs, Complete(k, j) PROVE RoundInv'
  <2>1. PICK ok \in BOOLEAN : CompleteJob(k, j, ok)
    BY <1>8 DEF Complete
  <2>2. /\ UNCHANGED <<state, workflow, crashes>> /\ phase[j] = "running"
        /\ phase' = [phase EXCEPT ![j] = "succeeded"] /\ passed' = [passed EXCEPT ![j] = ok]
        /\ calls[k].todo = <<>>
        /\ calls' = [calls EXCEPT ![k] = [kind |-> "complete", todo |-> <<>>, queue |-> <<j>>]]
    <3>1. workflow' = workflow
      BY <1>8 DEF Complete, OnlyBase
    <3> QED
      BY <2>1, <3>1, EmptyRows DEF CompleteJob
  <2>3. /\ passed' \in [RoundJobs -> BOOLEAN]
        /\ \A i \in RoundJobs \ {j} : passed'[i] = passed[i]
    BY <1>1, <2>2
  <2>4. /\ phase' \in [RoundJobs -> Phases] /\ RoundKept
        /\ \A i \in RoundJobs : phase'[i] = "absent" <=> phase[i] = "absent"
    BY <1>1, <1>3, <2>2, <2>3 DEF Phases
  <2>5. j \in Succ'
    BY <1>1, <2>2 DEF Succ, MyJobs
  <2>6. /\ \A c \in Ordinal : Chosen(c) => Chosen(c)'
        /\ Closed => Closed'
    BY <1>1, <2>2, <2>4 DEF Chosen, cs, Closed, MyJobs
  <2>7. Holds(unadvanced, calls, RoundOps', Succ')
    BY <1>1, <2>2, <2>4, <2>6, RoundHoldsGrow
  <2>8. Holds(unadvanced', calls', RoundOps', Succ')
    BY <2>1, <2>5, <2>7, CompleteHolds
  <2>9. PICK row : calls' = [calls EXCEPT ![k] = row] /\ row.todo = <<>>
    BY <2>2, EmptyRows
  <2> QED
    BY <1>1, <1>2, <2>2, <2>3, <2>4, <2>8, <2>9, RoundQuiet
<1>9. ASSUME NEW j \in MyJobs, Fail(j) PROVE RoundInv'
  <2>1. /\ phase[j] = "running" /\ phase' = [phase EXCEPT ![j] = "over"]
        /\ UNCHANGED <<workflow, passed, unadvanced, calls, state, crashes>>
    BY <1>1, <1>9 DEF Fail, FailRoundJob, OnlyBase
  <2> QED
    BY <1>1, <1>4, <2>1
<1>10. ASSUME NEW k \in Call, FreezeBaseline(k), UNCHANGED OnlyBase PROVE RoundInv'
  <2> DEFINE m == Enqueue(Profile)
             t == <<m>>
             row == [kind |-> "baseline", todo |-> t, queue |-> <<>>]
  <2>1. /\ calls[k].todo = <<>> /\ UNCHANGED <<workflow, phase, passed, unadvanced, crashes>>
        /\ calls' = [calls EXCEPT ![k] = row]
        /\ DOMAIN state' = DOMAIN state /\ \A c \in Ordinal : cs(c)' = cs(c)
        /\ state'[Task] = IF state[Task] = "baseline_pending" THEN "profiling" ELSE state[Task]
    BY <1>1, <1>10, RoundNames DEF FreezeBaseline, OnlyBase, Idle, cs
  <2>2. m \in RoundOps /\ Cold(m) /\ m \notin LateOp
    BY <1>1, DueOps, ColdOps, Apart DEF EarlyOp
  <2> HIDE DEF m
  <2>3. t \in Seq(RoundOps) /\ \A i \in DOMAIN t : t[i] = m
    BY <2>2
  <2> HIDE DEF t
  <2>4. row \in Row(RoundOps, Succ) /\ row.todo = t
    BY <2>3, EmptySeq DEF Row
  <2>5. Linked(t) /\ Before(t, {Do("propose", Generate)}, LateOp) /\ Before(t, AskEvaluating, LateOp)
    BY <2>2, <2>3, ColdLinked DEF Before
  <2> HIDE DEF row
  <2>6. Holds(unadvanced', calls', RoundOps, Succ)
    BY <1>1, <2>1, <2>4, NewHolds
  <2>7. /\ Closed' = Closed /\ Proposed' = Proposed /\ Evaluated' = Evaluated /\ RoundKept
    BY <2>1 DEF Closed, MyJobs, Proposed, Evaluated, RoundKept
  <2>8. RoundOrder'
    <3>1. /\ Proposed \/ AllBefore(calls', {Do("propose", Generate)}, LateOp)
          /\ Evaluated \/ AllBefore(calls', AskEvaluating, LateOp)
      BY <1>1, <2>1, <2>4, <2>5, NewOrder DEF RoundOrder
    <3> QED
      BY <2>7, <3>1 DEF RoundOrder, AskEvaluating, LateOp
  <2>9. Closed' \/ AllLinked'
    BY <1>1, <2>1, <2>4, <2>5, <2>7, NewLinked DEF RoundInv
  <2>10. \A c \in Ordinal : Chosen(c)' <=> Chosen(c)
    BY <2>1 DEF Chosen
  <2>11. RoundFacts'
    <3>1. \A c \in Ordinal : /\ Won(Performance(c))' <=> Won(Performance(c))
                             /\ Won(Correctness(c))' <=> Won(Correctness(c))
      BY <2>1 DEF Won
    <3> QED
      BY <2>1, <2>7, <2>10, <3>1 DEF RoundInv, RoundFacts
  <2>12. ASSUME Awake PROVE Awake'
    <3>1. \A l \in Call : calls[l].todo # <<>> => calls'[l] = calls[l] /\ Next1(l)' = Next1(l)
      BY <1>1, <2>1 DEF Holds, Next1
    <3>2. ASSUME RoundReady'
          PROVE  \E l \in Call : calls'[l].todo # <<>> /\
                   (Next1(l)' = Barrier \/ \E w \in Ordinal : Closes(Next1(l), w)')
      <4>1. PICK l \in Call : calls[l].todo # <<>> /\
                   (Next1(l) = Barrier \/ \E w \in Ordinal : Closes(Next1(l), w))
        BY <2>1, <2>12, <3>2 DEF Awake, RoundReady, cs
      <4> QED
        BY <2>1, <3>1, <4>1 DEF Closes, cs
    <3>3. ASSUME NEW w \in Ordinal, cs(w)' \in Finalist
          PROVE  \E l \in Call : calls'[l].todo # <<>> /\ InStep(Next1(l), w)'
      <4>1. cs(w) \in Finalist /\ cs(w)' = cs(w)
        BY <2>1, <3>3
      <4>2. Evaluated /\ state'[Task] = state[Task]
        BY <2>1, <4>1, FinalistLate DEF Evaluated
      <4>3. PICK l \in Call : calls[l].todo # <<>> /\ InStep(Next1(l), w)
        BY <2>12, <4>1 DEF Awake
      <4>4. calls'[l].todo # <<>> /\ Next1(l)' = Next1(l)
        BY <3>1, <4>3
      <4>5. InStep(Next1(l), w)'
        BY <4>1, <4>2, <4>3, <4>4 DEF InStep, cs
      <4> QED
        BY <4>4, <4>5
    <3> QED
      BY <3>2, <3>3 DEF Awake
  <2> QED
    BY <1>1, <2>1, <2>6, <2>7, <2>8, <2>9, <2>10, <2>11, <2>12, RoundGoesOn DEF RoundInv
<1>11. ASSUME Operator PROVE RoundInv'
  <2>1. ASSUME NEW j \in MyJobs, CancelJob(j), UNCHANGED ButEndpoint PROVE RoundInv'
    <3>1. /\ phase[j] \in {"queued", "running"} /\ phase' = [phase EXCEPT ![j] = "over"]
          /\ UNCHANGED <<workflow, passed, unadvanced, calls, state, crashes>>
      BY <2>1 DEF CancelJob, ButEndpoint
    <3> QED
      BY <1>1, <1>4, <2>1, <3>1
  <2> QED
    BY <1>1, <1>10, <1>11, <2>1 DEF Operator, CancelEndpointJob
<1>12. CASE UNCHANGED vars
  <2>1. UNCHANGED <<workflow, passed, unadvanced, calls, state, phase, crashes>>
    BY <1>12 DEF vars, base
  <2>2. (AllLinked' <=> AllLinked) /\ (Awake' <=> Awake)
    BY <2>1 DEF AllLinked, Linked, Awake, RoundReady, Next1, cs, Closes, InStep
  <2> QED
    BY <1>1, <2>1, <2>2, RoundStill DEF RoundInv, RoundOrder
<1> QED
  BY <1>5, <1>6, <1>7, <1>8, <1>9, <1>11, <1>12, RoundServe DEF RouterNext

LEMMA RoundInit == RouterInit /\ workflow = "optimization" => RoundInv
<1> SUFFICES ASSUME RouterInit, workflow = "optimization" PROVE RoundInv
  OBVIOUS
<1>1. MyJobs = RoundJobs /\ Holds(unadvanced, calls, RoundOps, Succ)
  BY RoundIs, InitHolds
<1>2. \A j \in RoundJobs : j # Prepare /\ j \notin ProbeJobs
  BY DEF RoundJobs, Profile, Generate, WBuild, Correctness, Performance, E2E, Prepare, ProbeJobs, Probe
<1>3. /\ phase = [j \in RoundJobs |-> "absent"] /\ passed \in [RoundJobs -> BOOLEAN]
      /\ DOMAIN state = {Task} \cup Members /\ state[Task] = "baseline_pending"
      /\ \A c \in Ordinal : cs(c) = "absent"
      /\ crashes = 0 /\ \A k \in Call : calls[k] = Idle
  BY <1>1, <1>2, RoundNames DEF RouterInit, cs
<1>4. phase \in [RoundJobs -> Phases] /\ RoundFacts
  BY <1>3, RoundNames DEF RoundFacts, Phases, PathStates, Finalist
<1>5. RoundOrder
  BY InitOrder DEF RoundOrder
<1>6. AllLinked
  BY <1>3, EmptyLinked DEF AllLinked, Idle
<1>7. Awake
  <2>1. 1 \in Ordinal
    BY CandidatesAssumption DEF Ordinal
  <2> QED
    BY <1>3, <2>1 DEF Awake, RoundReady, cs, Finalist
<1> QED
  BY <1>1, <1>3, <1>4, <1>5, <1>6, <1>7 DEF RoundInv

\* What stands in front of a launch leads up to it.
LEMMA LeadsToLaunch ==
  ASSUME NEW t, Linked(t), NEW w \in Ordinal, NEW i \in DOMAIN t,
         t[i] \in Launches \cup Validating \cup Modelling \cup Running
                    \cup {MoveTo(Candidate(w), "staged"), MoveTo(Candidate(w), "model_validating")}
  PROVE  \E h \in DOMAIN t : t[h] \in Launches
<1>1. \A h \in DOMAIN t : t[h] \in Validating => \E g \in DOMAIN t : t[g] \in Launches
  BY DEF Linked, Followed
<1>2. \A h \in DOMAIN t : t[h] \in Running => \E g \in DOMAIN t : t[g] \in Validating
  BY DEF Linked, Followed, Validating, Ensure
<1>3. \A h \in DOMAIN t : t[h] \in Modelling => \E g \in DOMAIN t : t[g] \in Validating
  BY DEF Linked, Followed, Validating, Again
<1>4. \A h \in DOMAIN t : t[h] = MoveTo(Candidate(w), "staged") => \E g \in DOMAIN t : t[g] \in Running
  BY DEF Linked, Followed, Running, MoveTo
<1>5. \A h \in DOMAIN t : t[h] = MoveTo(Candidate(w), "model_validating") =>
                             \E g \in DOMAIN t : t[g] = MoveTo(Candidate(w), "staged")
  BY DEF Linked, Followed
<1> QED
  BY <1>1, <1>2, <1>3, <1>4, <1>5

LEMMA RoundRespected == RoundInv => BarrierRespected
<1> SUFFICES ASSUME RoundInv, NEW c \in Ordinal, NEW d \in Ordinal,
                    cs(c) \in Finalist, c # d
             PROVE  cs(d) \in {"round_waiting", "rejected"}
  BY DEF BarrierRespected, cs
<1>1. Chosen(c)
  BY DEF RoundInv, RoundFacts
<1> QED
  BY <1>1 DEF Chosen, Finalist

LEMMA RoundWatched == RoundInv => RoundNotForgotten
<1> DEFINE Looks(k)   == \E i \in DOMAIN calls[k].todo : calls[k].todo[i].do = "barrier"
           Closing(k) == \E i \in DOMAIN calls[k].todo :
                            calls[k].todo[i].do = "enqueue" /\ calls[k].todo[i].who[1] = "e2e"
<1> SUFFICES ASSUME RoundInv, crashes = 0, ~ Closed
             PROVE  /\ RoundReady => \E k \in Call : Looks(k) \/ Closing(k)
                    /\ (\E c \in Ordinal : cs(c) \in Finalist) => \E k \in Call : Closing(k)
  BY DEF RoundNotForgotten, cs
<1>1. Awake /\ AllLinked /\ Holds(unadvanced, calls, RoundOps, Succ)
  BY DEF RoundInv
<1>2. ASSUME NEW k \in Call, calls[k].todo # <<>>
      PROVE  1 \in DOMAIN calls[k].todo /\ calls[k].todo[1] = Next1(k)
  <2>1. calls[k].todo \in Seq(RoundOps)
    BY <1>1 DEF Holds, Row
  <2> QED
    BY <1>2, <2>1, HeadTailProperties DEF Next1
<1>3. ASSUME NEW k \in Call, calls[k].todo # <<>>, NEW w \in Ordinal,
             Next1(k) \in Launches \cup Validating \cup Modelling \cup Running
                            \cup {MoveTo(Candidate(w), "staged"), MoveTo(Candidate(w), "model_validating")}
      PROVE  Closing(k)
  <2>1. PICK h \in DOMAIN calls[k].todo : calls[k].todo[h] \in Launches
    BY <1>1, <1>2, <1>3, LeadsToLaunch DEF AllLinked
  <2>2. \A o \in Launches : o.do = "enqueue" /\ o.who[1] = "e2e"
    BY RoundNames DEF Launches, Enqueue, Op
  <2> QED
    BY <2>1, <2>2
<1>4. ASSUME RoundReady PROVE \E k \in Call : Looks(k) \/ Closing(k)
  <2>1. PICK k \in Call : calls[k].todo # <<>> /\
                          (Next1(k) = Barrier \/ \E w \in Ordinal : Closes(Next1(k), w))
    BY <1>1, <1>4 DEF Awake
  <2>2. CASE Next1(k) = Barrier
    BY <1>2, <2>1, <2>2 DEF Barrier, Do, Op
  <2>3. ASSUME NEW w \in Ordinal, Closes(Next1(k), w) PROVE Closing(k)
    <3>1. Next1(k) \in Running \cup {MoveTo(Candidate(w), "model_validating")}
      BY <2>3 DEF Closes, Running, Ensure
    <3> QED
      BY <1>3, <2>1, <3>1
  <2> QED
    BY <2>1, <2>2, <2>3
<1>5. ASSUME NEW w \in Ordinal, cs(w) \in Finalist PROVE \E k \in Call : Closing(k)
  <2>1. PICK k \in Call : calls[k].todo # <<>> /\ InStep(Next1(k), w)
    BY <1>1, <1>5 DEF Awake
  <2>2. Next1(k) \in Launches \cup Validating \cup Modelling \cup Running
                       \cup {MoveTo(Candidate(w), "staged")}
    BY <2>1 DEF InStep, Validating, Modelling, Running, MoveTo, Ensure, Again
  <2> QED
    BY <1>3, <2>1, <2>2
<1> QED
  BY <1>4, <1>5

-----------------------------------------------------------------------------
(* What the other workflows never do.                                      *)

\* No candidate of another workflow is one that goes on.
NoneOn == \A c \in Ordinal : state[Candidate(c)] \notin Finalist

LEMMA NoneGoesOn ==
  ASSUME Shape, workflow # "optimization", NoneOn, [RouterNext]_vars,
         NEW T, NEW Q, Holds(unadvanced, calls, T, Q), \A o \in T : o.to \notin Finalist
  PROVE  NoneOn'
<1> SUFFICES ASSUME NEW c \in Ordinal PROVE state'[Candidate(c)] \notin Finalist
  BY DEF NoneOn
<1>1. /\ Candidate(c) \in DOMAIN state /\ Candidate(c) # Task
      /\ state[Candidate(c)] \notin Finalist
  BY RoundNames DEF Shape, NoneOn
<1>2. ASSUME UNCHANGED state PROVE state'[Candidate(c)] \notin Finalist
  BY <1>1, <1>2
<1>3. ASSUME NEW a, NEW e, NEW s, s \notin Finalist,
             state' = [state EXCEPT ![Task] = a] \/ state' = [state EXCEPT ![e] = s]
             \/ state' = [state EXCEPT ![Task] = a, ![e] = s]
      PROVE  state'[Candidate(c)] \notin Finalist
  BY <1>1, <1>3
<1>4. ASSUME NEW k \in Call, Serve(k) PROVE state'[Candidate(c)] \notin Finalist
  <2>1. CASE Move(k)
    <3>1. Now(k, "move") => Next1(k).to \notin Finalist
      BY HeadHolds DEF Now
    <3> QED
      BY <1>2, <1>3, <2>1, <3>1 DEF Move
  <2>2. CASE CreateCandidates(k)
    BY <1>1, <2>2 DEF CreateCandidates, Finalist
  <2>3. CASE CreateNoopCandidate(k)
    BY <1>1, <2>3 DEF CreateNoopCandidate, Finalist
  <2>4. CASE ExecuteFramework(k)
    BY <1>2, <1>3, <2>4 DEF ExecuteFramework, Finalist
  <2>5. CASE FinalizeStage0(k)
    BY <1>1, <2>5 DEF FinalizeStage0
  <2>6. CASE UNCHANGED state
    BY <1>2, <2>6
  <2> QED
    BY <1>4, <2>1, <2>2, <2>3, <2>4, <2>5, <2>6
    DEF Serve, Turn, EnsureState, EnqueueOne, MarkAdvanced, Return, ReadAgain, MaybeFinishRound,
        RecordEvidence, JudgeSmoke, SetVerdict, RecordProbe, RecordEndpoint, RecordAdjudication,
        ButStage0, ButManual, ButSmoke, ButEndpoint
<1>5. ASSUME NEW k \in Call, Poll(k) \/ Die(k) \/ \E j \in MyJobs : Claim(k, j) \/ Complete(k, j)
      PROVE  state'[Candidate(c)] \notin Finalist
  BY <1>2, <1>5 DEF Poll, Die, Claim, Complete, Reconcile, Crash, ClaimJob, CompleteJob
<1>6. ASSUME NEW j \in MyJobs, Fail(j) PROVE state'[Candidate(c)] \notin Finalist
  <2>1. CASE FailSmokeJob(j)
    BY <1>1, <2>1 DEF FailSmokeJob, Finalist
  <2>2. CASE FailManualJob(j)
    BY <1>1, <2>2 DEF FailManualJob, Finalist
  <2>3. CASE UNCHANGED state
    BY <1>2, <2>3
  <2> QED
    BY <1>6, <2>1, <2>2, <2>3 DEF Fail, FailProbeJob, FailEndpointJob
<1>7. ASSUME Operator PROVE state'[Candidate(c)] \notin Finalist
  <2>1. CASE RetestFramework \/ CancelFramework \/ \E b \in BOOLEAN : SignoffFramework(b)
    BY <1>1, <2>1 DEF RetestFramework, CancelFramework, SignoffFramework, Finalist
  <2>2. CASE CreateManualCandidate \/ \E b \in BOOLEAN : SignoffManual(b)
    BY <1>1, <2>2 DEF CreateManualCandidate, SignoffManual, Finalist
  <2>3. CASE SaveStage0
    BY <1>1, <2>3 DEF SaveStage0
  <2>4. CASE UNCHANGED state
    BY <1>2, <2>4
  <2>5. ASSUME \/ \E i \in 1 .. EndpointRuns : CreateEndpointRun(i)
               \/ CreateCampaign \/ \E b \in BOOLEAN : SignoffCampaign(b)
        PROVE  UNCHANGED state
    BY <2>5 DEF CreateEndpointRun, CreateCampaign, SignoffCampaign, base
  <2>6. ASSUME NEW j, CancelEndpointJob(j) \/ CancelJob(j) PROVE UNCHANGED state
    BY <2>6 DEF CancelEndpointJob, CancelJob
  <2>7. ASSUME NEW k, VerifyStage0(k) PROVE UNCHANGED state
    BY <2>7 DEF VerifyStage0
  <2> QED
    BY <1>7, <2>1, <2>2, <2>3, <2>4, <2>5, <2>6, <2>7 DEF Operator
<1>8. CASE UNCHANGED vars
  BY <1>2, <1>8 DEF vars, base
<1> QED
  BY <1>4, <1>5, <1>6, <1>7, <1>8 DEF RouterNext

\* Only Framework Smoke writes evidence bundles of this kind.
LEMMA NoneRecorded ==
  ASSUME workflow # "framework_smoke", [RouterNext]_vars,
         NEW T, NEW Q, Holds(unadvanced, calls, T, Q), \A o \in T : o.do # "record"
  PROVE  evidence' = evidence
<1>1. ASSUME NEW k \in Call, Serve(k) PROVE evidence' = evidence
  <2>1. ~ RecordEvidence(k)
    BY HeadHolds DEF RecordEvidence, Now
  <2> QED
    BY <1>1, <2>1 DEF Serve, CreateNoopCandidate, ExecuteFramework, JudgeSmoke,
                      OnlyBase, ButManual, ButStage0, ButEndpoint, smokeVars
<1>2. ASSUME NEW k \in Call, Poll(k) \/ Die(k) \/ \E j \in MyJobs : Claim(k, j) \/ Complete(k, j)
      PROVE  evidence' = evidence
  BY <1>2 DEF Poll, Die, Claim, Complete, OnlyBase, ButEndpoint, smokeVars
<1>3. ASSUME NEW j \in MyJobs, Fail(j) PROVE evidence' = evidence
  BY <1>3 DEF Fail, OnlyBase, ButManual, ButStage0, ButEndpoint, smokeVars
<1>4. ASSUME Operator PROVE evidence' = evidence
  BY <1>4 DEF Operator, OnlyBase, ButManual, ButStage0, ButEndpoint, smokeVars
<1>5. CASE UNCHANGED vars
  BY <1>5 DEF vars, smokeVars
<1> QED
  BY <1>1, <1>2, <1>3, <1>4, <1>5 DEF RouterNext

\* The invariant of every workflow, and what it leaves to the others.
AllInv ==
    /\ Shape /\ workflow \in {"framework_smoke", "manual_candidate", "optimization", "stage0",
                              "endpoint_validation"}
    /\ workflow = "framework_smoke" => SmokeInv
    /\ workflow = "manual_candidate" => ManualInv
    /\ workflow = "optimization" => RoundInv
    /\ workflow = "stage0" => StageInv
    /\ workflow = "endpoint_validation" => EndpointInv
    /\ workflow # "optimization" => NoneOn
    /\ workflow # "framework_smoke" => evidence = <<>>

LEMMA AllOps ==
  ASSUME AllInv
  PROVE  /\ workflow # "optimization" =>
              \E T, Q : Holds(unadvanced, calls, T, Q) /\ \A o \in T : o.to \notin Finalist
         /\ workflow # "framework_smoke" =>
              \E T, Q : Holds(unadvanced, calls, T, Q) /\ \A o \in T : o.do # "record"
<1>1. /\ \A o \in SmokeOps : o.to \notin Finalist
      /\ \A o \in ManualOps : o.to \notin Finalist /\ o.do # "record"
      /\ \A o \in StageOps(Succ) : o.to \notin Finalist /\ o.do # "record"
      /\ \A o \in EndpointOps(Succ) : o.to \notin Finalist /\ o.do # "record"
  BY DEF SmokeOps, SmokeAsks, ManualOps, ManualOp, ManualTargets, StageOps, EndpointOps, Finalist,
         Op, Do, Mark, Enqueue
<1>2. \A o \in RoundOps : o.do # "record"
  BY RoundOpIs
<1> QED
  BY <1>1, <1>2 DEF AllInv, SmokeInv, ManualInv, RoundInv, StageInv, EndpointInv

LEMMA AllStep == AllInv /\ [RouterNext]_vars => AllInv'
<1> SUFFICES ASSUME AllInv, [RouterNext]_vars PROVE AllInv'
  OBVIOUS
<1>1. workflow' = workflow /\ Shape'
  BY WorkflowStays, StepFinal DEF AllInv
<1>2. workflow # "optimization" => NoneOn'
  BY AllOps, NoneGoesOn DEF AllInv
<1>3. workflow # "framework_smoke" => evidence' = <<>>
  BY AllOps, NoneRecorded DEF AllInv
<1> QED
  BY <1>1, <1>2, <1>3, SmokeStep, ManualStep, RoundStep, StageStep, EndpointStep DEF AllInv

LEMMA AllStart == RouterInit => AllInv
<1> SUFFICES ASSUME RouterInit PROVE AllInv
  OBVIOUS
<1>1. NoneOn
  BY RoundNames DEF RouterInit, NoneOn, Finalist
<1>2. evidence = <<>> /\ workflow \in Workflows
  BY DEF RouterInit, SmokeStart
<1> QED
  BY <1>1, <1>2, WorkflowsAssumption, InitShape, SmokeInit, ManualInit, RoundInit, StageInit,
     EndpointInit DEF AllInv

\* No evidence bundle is written twice, and the operator of a Framework Smoke
\* task is asked only when that of a passed run is on record
\* (_after_framework_smoke, record_evidence_bundle), for any number of retests
\* and of requests, whichever of them die.
THEOREM EvidenceIsInTime == RouterSpec => []EvidenceInTime
<1>1. AllInv => EvidenceInTime
  BY DEF AllInv, SmokeInv, Recorded, Backed, EvidenceInTime
<1> QED
  BY <1>1, AllStart, AllStep, PTL DEF RouterSpec

\* Nobody passes the barrier of a round beside the one that goes on, and a
\* round that is ready is not forgotten while no request dies
\* (_maybe_finish_round), for any number of candidates and of requests.
THEOREM BarrierStands == RouterSpec => []BarrierHolds
<1>1. AllInv => BarrierHolds
  <2> SUFFICES ASSUME AllInv PROVE BarrierRespected /\ RoundNotForgotten
    BY DEF BarrierHolds
  <2>1. CASE workflow = "optimization"
    BY <2>1, RoundRespected, RoundWatched DEF AllInv
  <2>2. CASE workflow # "optimization"
    BY <2>2 DEF AllInv, NoneOn, BarrierRespected, RoundNotForgotten
  <2> QED
    BY <2>1, <2>2
<1> QED
  BY <1>1, AllStart, AllStep, PTL DEF RouterSpec
=============================================================================
