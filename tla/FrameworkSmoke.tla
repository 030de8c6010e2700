--------------------------- MODULE FrameworkSmoke ---------------------------
(***************************************************************************)
(* The Framework Smoke workflow (F1): FrameworkSmokeCoordinator and the    *)
(* transactions of the repository that belong to it.  A task prepares the  *)
(* source, builds a no-op candidate, executes it, and waits for an         *)
(* operator, who may approve, reject, cancel, or order a retest.           *)
(***************************************************************************)
EXTENDS Coordinator

CONSTANT MaxRetests    \* bound: how many retests the operator orders

ASSUME MaxRetestsAssumption == MaxRetests \in Nat

VARIABLES
    retests,     \* tasks.retest_count
    evidence,    \* the retest ordinals of the evidence bundles, by created_at
    approval     \* framework_smoke_signoffs: the decision, and the evidence it binds

smokeVars == <<retests, evidence, approval>>

Prepare  == <<"source_prepare", 0>>
Noop     == <<"noop_build", 0>>
Smoke(r) == <<"framework_smoke", r>>
Cand     == Candidate(0)

SmokeJobs == {Smoke(r) : r \in 0 .. MaxRetests}

SmokeStart == retests = 0 /\ evidence = <<>> /\ approval = [decision |-> "none", on |-> 0]

-----------------------------------------------------------------------------
(* The coordinator.                                                        *)

\* Mutant: the task is moved on before the evidence is written.
SmokeHandler_JudgeFirst(j) ==
    IF state[Task] = "cancelled" THEN <<Mark(j)>>
    ELSE CASE j = Prepare -> <<Do("create", j), Ensure(Cand, "building"),
                               Ensure(Task, "artifact_preparing"), Enqueue(Noop), Mark(j)>>
           [] j = Noop    -> <<Ensure(Cand, "built"), Do("execute", j), Mark(j)>>
           [] OTHER       -> <<Do("judge", j), Do("record", j), Mark(j)>>

\* advance: the task is read first; what succeeded for a cancelled one is
\* only marked.
SmokeHandler(j) ==
    IF state[Task] = "cancelled" THEN <<Mark(j)>>
    ELSE CASE j = Prepare -> <<Do("create", j), Ensure(Cand, "building"),
                               Ensure(Task, "artifact_preparing"), Enqueue(Noop), Mark(j)>>
           [] j = Noop    -> <<Ensure(Cand, "built"), Do("execute", j), Mark(j)>>
           [] OTHER       -> <<Do("record", j), Do("judge", j), Mark(j)>>

\* The moves that an ensure still has to make, as its first read finds it.
SmokeMoves(e, to) ==
    LET over == IF e = Task THEN {"rejected", "cancelled", "completed"}
                            ELSE {"rejected", "build_failed"}
        path == IF e = Task
                THEN <<"source_preparing", "artifact_preparing", "framework_executing",
                       "output_validating", "awaiting_signoff">>
                ELSE <<"proposed", "building", "built", "framework_smoke_running",
                       "framework_smoke_passed">>
    IN IF state[e] \in over \cup {to} \/ After(path, state[e], to)
       THEN <<>> ELSE <<MoveTo(e, to)>>

\* create_noop_candidate, with the source snapshot and baseline before it.
CreateNoopCandidate(k) ==
    /\ Now(k, "create")
    /\ state' = [state EXCEPT ![Cand] = IF @ = "absent" THEN "proposed" ELSE @]
    /\ Skip(k)
    /\ UNCHANGED <<phase, passed, unadvanced, crashes, smokeVars>>

\* enqueue_framework_execution, the first time: task, candidate and job in
\* one transaction.  Replayed, it returns the job while the task is executing.
ExecuteFramework(k) ==
    /\ Now(k, "execute")
    /\ IF state[Task] = "framework_executing" /\ phase[Smoke(0)] # "absent"
       THEN Skip(k) /\ UNCHANGED <<phase, state>>
       ELSE IF /\ state[Task] = "artifact_preparing"
               /\ "framework_smoke_running" \in Moves(Cand) \cup {state[Cand]}
            THEN /\ state' = [state EXCEPT ![Task] = "framework_executing",
                                           ![Cand] = "framework_smoke_running"]
                 /\ phase' = [phase EXCEPT ![Smoke(0)] = IF @ = "absent" THEN "queued" ELSE @]
                 /\ Skip(k)
            ELSE Raise(k) /\ UNCHANGED <<phase, state>>
    /\ UNCHANGED <<passed, unadvanced, crashes, smokeVars>>

\* record_evaluation .. record_evidence_bundle: keyed by the job's run, so
\* that a replay writes nothing.
RecordEvidence(k) ==
    /\ Now(k, "record")
    /\ LET r == Next1(k).who[2] IN
       evidence' = IF \E i \in DOMAIN evidence : evidence[i] = r
                   THEN evidence ELSE Append(evidence, r)
    /\ Skip(k)
    /\ UNCHANGED <<phase, passed, unadvanced, state, crashes, retests, approval>>

\* The end of _after_framework_smoke: reads the task once, then ensures.
JudgeSmoke(k) ==
    /\ Now(k, "judge")
    /\ Replace(k,
          IF state[Task] \in {"awaiting_signoff", "rejected", "cancelled"} THEN <<>>
          ELSE IF ~ passed[Next1(k).who]
          THEN <<Ensure(Cand, "rejected"), Ensure(Task, "rejected")>>
          ELSE IF state[Task] = "framework_executing"
          THEN <<Ensure(Cand, "framework_smoke_passed"), Ensure(Task, "output_validating"),
                 Ensure(Task, "awaiting_signoff")>>
          ELSE <<Ensure(Cand, "framework_smoke_passed"), Ensure(Task, "awaiting_signoff")>>)
    /\ UNCHANGED <<phase, passed, unadvanced, state, crashes, smokeVars>>

-----------------------------------------------------------------------------
(* Transactions of their own.                                              *)

\* enqueue_framework_execution(retest=True)
RetestFramework ==
    /\ retests < MaxRetests
    /\ state[Task] = "awaiting_signoff"
    /\ "framework_smoke_running" \in Moves(Cand) \cup {state[Cand]}
    /\ state' = [state EXCEPT ![Task] = "framework_retesting",
                              ![Cand] = "framework_smoke_running"]
    /\ retests' = retests + 1
    /\ phase' = [phase EXCEPT ![Smoke(retests + 1)] = IF @ = "absent" THEN "queued" ELSE @]
    /\ UNCHANGED <<passed, unadvanced, calls, crashes, evidence, approval>>

\* signoff_framework_task: once per task, on the latest evidence, of a
\* passed run.  A rejection takes the candidate with it.
SignoffFramework(approved) ==
    /\ state[Task] = "awaiting_signoff"
    /\ approval.decision = "none"
    /\ evidence # <<>> /\ passed[Smoke(evidence[Len(evidence)])]
    /\ approved \/ "rejected" \in Moves(Cand) \cup {state[Cand]}
    /\ approval' = [decision |-> IF approved THEN "approved" ELSE "rejected",
                    on |-> evidence[Len(evidence)]]
    /\ state' = IF approved THEN [state EXCEPT ![Task] = "completed"]
                ELSE [state EXCEPT ![Task] = "rejected", ![Cand] = "rejected"]
    /\ UNCHANGED <<phase, passed, unadvanced, calls, crashes, retests, evidence>>

\* cancel_framework_task: the task, its unfinished jobs and its candidate.
CancelFramework ==
    /\ "cancelled" \in TaskMoves(state[Task])
    /\ state' = [state EXCEPT ![Task] = "cancelled",
                              ![Cand] = IF @ = "absent" THEN @ ELSE "rejected"]
    /\ phase' = [j \in DOMAIN phase |->
                   IF phase[j] \in {"queued", "running"} THEN "over" ELSE phase[j]]
    /\ UNCHANGED <<passed, unadvanced, calls, crashes, smokeVars>>

\* fail_job or the reaper, at the last attempt, with
\* _reject_framework_task_after_job_failure in the same transaction.
FailSmokeJob(j) ==
    LET target == IF j = Noop THEN "build_failed" ELSE "rejected"
        settled == state[Task] \in {"rejected", "cancelled", "completed"}
        keep == j = Prepare \/ state[Cand] \in {"build_failed", "rejected"} IN
    /\ phase[j] = "running"
    /\ settled \/ "rejected" \in Moves(Task)
    /\ keep \/ target \in Moves(Cand)
    /\ phase' = [phase EXCEPT ![j] = "over"]
    /\ state' = [state EXCEPT ![Task] = IF settled THEN @ ELSE "rejected",
                              ![Cand] = IF keep THEN @ ELSE target]
    /\ UNCHANGED <<passed, unadvanced, calls, crashes, smokeVars>>
=============================================================================
