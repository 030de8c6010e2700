---------------------------- MODULE Stage0Probes ----------------------------
(***************************************************************************)
(* The Stage 0 workflow of a target: Stage0Coordinator and the             *)
(* transactions of the repository that belong to it.  All probes of a      *)
(* formal run are enqueued with it; when the last of them is on record an  *)
(* operator has the evidence verified, outside of any transaction, and the *)
(* verdict decides how the task may go on.  The same task can be decided   *)
(* by synthetic evidence that is submitted by hand.  A dry run is never    *)
(* finalized and is left out; so is the optimization that a task which has *)
(* passed goes on with (WalkingSkeleton starts there).                     *)
(***************************************************************************)
EXTENDS Coordinator, FiniteSets

CONSTANT Probes    \* the probes of a run: 1 .. Probes (seven in the contract)

ASSUME ProbesAssumption == Probes \in Nat \ {0}

VARIABLE stage0    \* the row of stage0_runs, its records, the task's authority

Probe(n)  == <<"stage0_probe", n>>
ProbeJobs == {Probe(n) : n \in 1 .. Probes}

Stage0TypeOK ==
    stage0 \in [run : {"collecting", "ready", "finalized", "failed"},
                recorded : SUBSET ProbeJobs,
                authority : {"none", "synthetic", "formal"}]

Stage0Start == stage0 = [run |-> "collecting", recorded |-> {}, authority |-> "none"]

\* Where evaluate_stage0 may send the task.
Stage0Verdicts == {"stopped_measurement", "degraded", "baseline_pending"}

ProbeHandler(j) == <<Do("probe", j), Mark(j)>>

\* Mutant: the barrier opens one probe too early.
RecordProbe_Early(k) ==
    LET recorded == stage0.recorded \cup {Next1(k).who} IN
    /\ Now(k, "probe")
    /\ IF stage0.run \in {"finalized", "failed"}
       THEN Raise(k) /\ UNCHANGED stage0
       ELSE /\ stage0' = [stage0 EXCEPT !.recorded = recorded,
                                        !.run = IF Cardinality(recorded) >= Probes - 1
                                                THEN "ready" ELSE @]
            /\ Skip(k)
    /\ UNCHANGED <<phase, passed, unadvanced, state, crashes>>

\* record_stage0_probe: one record per probe; the last one opens the barrier.
RecordProbe(k) ==
    LET recorded == stage0.recorded \cup {Next1(k).who} IN
    /\ Now(k, "probe")
    /\ IF stage0.run \in {"finalized", "failed"}
       THEN Raise(k) /\ UNCHANGED stage0
       ELSE /\ stage0' = [stage0 EXCEPT !.recorded = recorded,
                                        !.run = IF recorded = ProbeJobs THEN "ready" ELSE @]
            /\ Skip(k)
    /\ UNCHANGED <<phase, passed, unadvanced, state, crashes>>

ReadyToFinalize == stage0.run = "ready" /\ state[Task] = "stage0_pending"

\* POST finalize reads the run and verifies its evidence, with no lock held.
VerifyStage0(k) ==
    /\ calls[k] = Idle
    /\ ReadyToFinalize
    /\ calls' = [calls EXCEPT ![k] = [kind |-> "finalize", queue |-> <<>>,
                                      todo |-> <<Do("finalize", Task)>>]]
    /\ UNCHANGED <<phase, passed, unadvanced, state, crashes, stage0>>

\* finalize_stage0_run commits: report, task and run in one transaction, after
\* a second look at all that was verified.
FinalizeStage0(k) ==
    /\ Now(k, "finalize")
    /\ \/ stage0.run = "finalized" /\ Skip(k) /\ UNCHANGED <<state, stage0>>
       \/ stage0.run # "finalized" /\ ~ ReadyToFinalize /\ Raise(k) /\ UNCHANGED <<state, stage0>>
       \/ /\ ReadyToFinalize
          /\ \E to \in Stage0Verdicts : state' = [state EXCEPT ![Task] = to]
          /\ stage0' = [stage0 EXCEPT !.run = "finalized", !.authority = "formal"]
          /\ Skip(k)
    /\ UNCHANGED <<phase, passed, unadvanced, crashes>>

\* save_stage0: evidence submitted by hand, for any task in stage0_pending.
SaveStage0 ==
    /\ state[Task] = "stage0_pending"
    /\ \E to \in Stage0Verdicts : state' = [state EXCEPT ![Task] = to]
    /\ stage0' = [stage0 EXCEPT !.authority = "synthetic"]
    /\ UNCHANGED <<phase, passed, unadvanced, calls, crashes>>

\* fail_job or the reaper, at the last attempt, with
\* _fail_stage0_run_after_job_failure in the same transaction.
FailProbeJob(j) ==
    /\ phase[j] = "running"
    /\ phase' = [phase EXCEPT ![j] = "over"]
    /\ stage0' = [stage0 EXCEPT !.run = IF @ \in {"collecting", "ready"} THEN "failed" ELSE @]
    /\ UNCHANGED <<passed, unadvanced, state, calls, crashes>>
=============================================================================
