--------------------------- MODULE WorkflowRouter ---------------------------
(***************************************************************************)
(* WorkflowRouter: one task, of any of five workflow types, with its       *)
(* coordinator, the job queue below it, and the requests of workers and    *)
(* operators above it.                                                     *)
(***************************************************************************)
EXTENDS FrameworkSmoke, ManualCandidate, WalkingSkeleton, Stage0Probes,
        EndpointValidation

CONSTANT Workflows     \* the workflow types to consider

ASSUME WorkflowsAssumption ==
    Workflows \subseteq {"framework_smoke", "manual_candidate", "optimization", "stage0",
                         "endpoint_validation"}

VARIABLE workflow      \* tasks.workflow_type

vars == <<base, smokeVars, manualVars, stage0, endpointVars, workflow>>

\* All variables of the other workflows than the one that is named.
ButSmoke    == <<manualVars, stage0, endpointVars, workflow>>
ButManual   == <<smokeVars, stage0, endpointVars, workflow>>
ButStage0   == <<smokeVars, manualVars, endpointVars, workflow>>
ButEndpoint == <<smokeVars, manualVars, stage0, workflow>>
OnlyBase    == <<smokeVars, manualVars, stage0, endpointVars, workflow>>

JobsOf(w) == CASE w = "framework_smoke"  -> {Prepare, Noop} \cup SmokeJobs
               [] w = "manual_candidate" -> ManualJobs
               [] w = "optimization"     -> RoundJobs
               [] w = "stage0"           -> ProbeJobs
               [] w = "endpoint_validation" -> EndpointJobs

MyJobs  == JobsOf(workflow)
Members == {Candidate(c) : c \in 0 .. Candidates}

\* The jobs whose result carries a verdict.
Judged == SmokeJobs \cup {MCorrectness, MAdjudicate} \cup
          {Adjudicate} \cup
          UNION {{Correctness(c), Performance(c), E2E(c)} : c \in Ordinal}

RouterInit ==
    /\ workflow \in Workflows
    /\ phase = [j \in MyJobs |-> IF j = Prepare \/ j \in ProbeJobs THEN "queued" ELSE "absent"]
    /\ passed = [j \in MyJobs |-> FALSE]
    /\ unadvanced = <<>>
    /\ state = [e \in {Task} \cup Members |->
                  IF e # Task THEN "absent"
                  ELSE CASE workflow = "framework_smoke"  -> "source_preparing"
                         [] workflow = "manual_candidate" -> "manual_candidate_pending"
                         [] workflow = "optimization"     -> "baseline_pending"
                         [] workflow = "stage0"           -> "stage0_pending"
                         [] workflow = "endpoint_validation" -> "completed"]
    /\ calls = [k \in Call |-> Idle]
    /\ crashes = 0
    /\ SmokeStart /\ ManualStart /\ Stage0Start /\ EndpointStart

-----------------------------------------------------------------------------
(* Every job type has its coordinator.                                     *)

Handler(j) == CASE workflow = "framework_smoke"  -> SmokeHandler(j)
                [] workflow = "manual_candidate" -> ManualHandler(j)
                [] workflow = "optimization"     -> RoundHandler(j)
                [] workflow = "stage0"           -> ProbeHandler(j)
                [] workflow = "endpoint_validation" -> EndpointHandler(j)

MovesTo(e, to) == CASE workflow = "framework_smoke"  -> SmokeMoves(e, to)
                    [] workflow = "manual_candidate" -> ManualMoves(e, to)
                    [] workflow = "optimization"     -> RoundMoves(e, to)

EnsureState(k) ==
    /\ Now(k, "ensure")
    /\ Replace(k, MovesTo(Next1(k).who, Next1(k).to))
    /\ UNCHANGED <<phase, passed, unadvanced, state, crashes>>

\* A request does its next transaction.
Serve(k) ==
    \/ /\ \/ calls[k].queue # <<>> /\ Turn(k, Handler(Head(calls[k].queue)))
          \/ EnsureState(k) \/ Move(k) \/ EnqueueOne(k) \/ MarkAdvanced(k) \/ Return(k)
          \/ ReadAgain(k) \/ CreateCandidates(k) \/ MaybeFinishRound(k)
       /\ UNCHANGED OnlyBase
    \/ /\ \/ CreateNoopCandidate(k) \/ ExecuteFramework(k) \/ RecordEvidence(k) \/ JudgeSmoke(k)
       /\ UNCHANGED ButSmoke
    \/ SetVerdict(k) /\ UNCHANGED ButManual
    \/ (RecordProbe(k) \/ FinalizeStage0(k)) /\ UNCHANGED ButStage0
    \/ (RecordEndpoint(k) \/ RecordAdjudication(k)) /\ UNCHANGED ButEndpoint

\* A worker claims, and ends, its attempts.
Claim(k, j) ==
    /\ ClaimJob(k, j)
    /\ IF j \in EndpointJobs THEN EndpointClaimed(j) ELSE UNCHANGED endpointVars
    /\ UNCHANGED ButEndpoint

Complete(k, j) == /\ \E ok \in BOOLEAN : CompleteJob(k, j, ok) /\ (ok \/ j \in Judged)
                  /\ UNCHANGED OnlyBase

Fail(j) ==
    \/ workflow = "framework_smoke" /\ FailSmokeJob(j) /\ UNCHANGED ButSmoke
    \/ workflow = "manual_candidate" /\ FailManualJob(j) /\ UNCHANGED ButManual
    \/ workflow = "optimization" /\ FailRoundJob(j) /\ UNCHANGED OnlyBase
    \/ workflow = "stage0" /\ FailProbeJob(j) /\ UNCHANGED ButStage0
    \/ workflow = "endpoint_validation" /\ FailEndpointJob(j) /\ UNCHANGED ButEndpoint

Poll(k) == Reconcile(k) /\ UNCHANGED OnlyBase

Operator ==
    \/ /\ workflow = "framework_smoke"
       /\ RetestFramework \/ CancelFramework \/ \E b \in BOOLEAN : SignoffFramework(b)
       /\ UNCHANGED ButSmoke
    \/ /\ workflow = "manual_candidate"
       /\ CreateManualCandidate \/ \E b \in BOOLEAN : SignoffManual(b)
       /\ UNCHANGED ButManual
    \/ /\ workflow = "optimization"
       /\ \E k \in Call : FreezeBaseline(k)
       /\ UNCHANGED OnlyBase
    \/ /\ workflow = "stage0"
       /\ SaveStage0 \/ \E k \in Call : VerifyStage0(k)
       /\ UNCHANGED ButStage0
    \/ /\ workflow = "endpoint_validation"
       /\ \/ \E i \in 1 .. EndpointRuns : CreateEndpointRun(i)
          \/ CreateCampaign \/ \E b \in BOOLEAN : SignoffCampaign(b)
       /\ UNCHANGED ButEndpoint
    \/ /\ \E j \in MyJobs : IF j \in EndpointJobs
                             THEN CancelEndpointJob(j)
                             ELSE CancelJob(j) /\ UNCHANGED endpointVars
       /\ UNCHANGED ButEndpoint

Die(k) == Crash(k) /\ UNCHANGED OnlyBase

RouterNext ==
    \/ \E k \in Call : Serve(k) \/ Poll(k) \/ Die(k)
    \/ \E k \in Call, j \in MyJobs : Claim(k, j) \/ Complete(k, j)
    \/ \E j \in MyJobs : Fail(j)
    \/ Operator

RouterSpec == RouterInit /\ [][RouterNext]_vars

\* Requests are served, and workers poll for ever.
ServedSpec == RouterSpec /\ \A k \in Call : WF_vars(Serve(k)) /\ WF_vars(Poll(k))

\* Moreover, what is queued is claimed, and attempts end, as far as the
\* control plane is willing to listen.
RouterFairSpec ==
    /\ ServedSpec
    /\ SF_vars(\E k \in Call, j \in MyJobs : Claim(k, j))
    /\ SF_vars(\E j \in MyJobs : Fail(j) \/ \E k \in Call : Complete(k, j))

-----------------------------------------------------------------------------
(* What must hold, however many requests advance a job, in which order and  *)
(* to which point.                                                          *)

\* Handlers that run late, or for a second time, never undo a decision: a
\* task that was completed, rejected, cancelled or stopped stays so, and so do
\* a Stage 0 run that is over and a campaign that is signed or has failed.
DecisionsAreFinal ==
    [][/\ state[Task] \in {"completed", "rejected", "cancelled", "stopped_measurement"} =>
             state'[Task] = state[Task]
       /\ stage0.run \in {"finalized", "failed"} => stage0'.run = stage0.run
       /\ campaign \in {"invalid", "adjudication_failed", "completed", "rejected"} =>
             campaign' = campaign]_vars

\* A completion that is replayed writes its evidence bundle once, and the
\* operator of an F1 task is asked, and has decided, only when the evidence of
\* a passed run is on record, even if a handler died half-way.
EvidenceInTime ==
    /\ \A i, k \in DOMAIN evidence : evidence[i] = evidence[k] => i = k
    /\ workflow = "framework_smoke" /\ state[Task] \in {"awaiting_signoff", "completed"} =>
           \E i \in DOMAIN evidence : passed[Smoke(evidence[i])]

\* An M1 task and its candidate are moved by separate transactions, and yet
\* the operator is asked only about a candidate that waits for him and was
\* adjudicated to be valid, and the decision reaches both.
TaskAndCandidateAgree ==
    workflow = "manual_candidate" =>
        /\ state[Task] = "awaiting_signoff" =>
              state[MCand] = "awaiting_signoff" /\ verdict = "valid"
        /\ state[Task] = "completed" <=> state[MCand] = "accepted"

\* A Stage 0 task is decided once and by one authority: by a run all of whose
\* probes succeeded and are on record, or by the evidence that was submitted by
\* hand, although nothing is locked while the evidence of a run is verified.
DecidedByOne ==
    workflow = "stage0" =>
        /\ state[Task] # "stage0_pending" <=> stage0.authority # "none"
        /\ stage0.authority = "formal" <=> stage0.run = "finalized"
        /\ stage0.run \in {"ready", "finalized"} =>
              stage0.recorded = ProbeJobs /\ \A j \in ProbeJobs : phase[j] = "succeeded"

\* The operator of a campaign is asked, and has decided, only about a result
\* that was found to be valid by the adjudication of runs that have all passed;
\* and a campaign whose adjudication was cancelled or has failed says so.
CampaignBacked ==
    workflow = "endpoint_validation" =>
        /\ campaign # "absent" => \A i \in 1 .. EndpointRuns : Passed(i)
        /\ campaign \in {"awaiting_signoff", "completed", "rejected"} =>
              phase[Adjudicate] = "succeeded" /\ passed[Adjudicate]
        /\ campaign = "adjudication_failed" <=> phase[Adjudicate] = "over"

Finalist == {"model_validating", "staged", "e2e_running", "release_candidate"}

\* The barrier: a candidate goes on only when all the others are through, and
\* none of them goes on beside it, although any request may close the round.
BarrierRespected ==
    \A c, d \in Ordinal :
        state[Candidate(c)] \in Finalist /\ c # d =>
            state[Candidate(d)] \in {"round_waiting", "rejected"}

\* The round is ready to be closed, and has a candidate to go on with.
RoundReady ==
    /\ \A c \in Ordinal : state[Candidate(c)] \in {"round_waiting", "rejected"}
    /\ \E c \in Ordinal : state[Candidate(c)] = "round_waiting"

Closed == \E j \in MyJobs : j[1] = "e2e" /\ phase[j] # "absent"

\* A round that is ready is closed, whoever noticed that it is.
RoundCloses == workflow = "optimization" => (RoundReady ~> Closed)

\* No wake-up is lost, whichever jobs end together: while no request has died,
\* a round that is ready has a request that will find it so, and one whose
\* winner is on its way has the request that will enqueue its validation.
RoundNotForgotten ==
    LET Holds(k, do) == \E i \in DOMAIN calls[k].todo : calls[k].todo[i].do = do
        Closing(k)   == \E i \in DOMAIN calls[k].todo :
                           calls[k].todo[i].do = "enqueue" /\ calls[k].todo[i].who[1] = "e2e"
        Replays      == \E i \in DOMAIN unadvanced :
                           unadvanced[i][1] \in {"correctness", "performance"}
    IN workflow = "optimization" /\ crashes = 0 /\ ~ Closed =>
        /\ RoundReady => Replays \/ \E k \in Call : Holds(k, "barrier") \/ Closing(k)
        /\ (\E c \in Ordinal : state[Candidate(c)] \in Finalist) => \E k \in Call : Closing(k)

\* The barrier lets nobody through early, and is not forgotten either
\* (_maybe_finish_round).
BarrierHolds == BarrierRespected /\ RoundNotForgotten

\* Reconciliation catches up: what succeeded is advanced in the end.
Reconciled == []<>(unadvanced = <<>>)

\* The same, except where a handler is refused for ever because its workflow
\* has gone on without it: F1 tasks and endpoint campaigns after a crash, and
\* any Stage 0 run that is over.
ReconciledMostly ==
    []<>(\/ unadvanced = <<>>
         \/ workflow \in {"framework_smoke", "endpoint_validation"} /\ crashes > 0
         \/ workflow = "stage0" /\ stage0.run \in {"failed", "finalized"})

\* An approval binds the evidence of the latest run, and goes on doing so.
LatestIsSigned ==
    approval.decision = "approved" => approval.on = evidence[Len(evidence)]
=============================================================================
