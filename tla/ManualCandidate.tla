-------------------------- MODULE ManualCandidate --------------------------
(***************************************************************************)
(* The manual candidate workflow (M1): ManualCandidateCoordinator and the  *)
(* transactions of the repository that belong to it.  One candidate is     *)
(* built, checked, measured and adjudicated; then an operator signs off.   *)
(* There is no cancellation of an M1 task.                                 *)
(***************************************************************************)
EXTENDS Coordinator

VARIABLES
    verdict,      \* candidates.verdict
    decision      \* manual_candidate_signoffs

manualVars == <<verdict, decision>>

MBuild       == <<"manual_build", 0>>
MCorrectness == <<"manual_correctness", 0>>
MPerformance == <<"manual_performance", 0>>
MAdjudicate  == <<"manual_adjudicate", 0>>
MCand        == Candidate(0)

ManualJobs == {MBuild, MCorrectness, MPerformance, MAdjudicate}

ManualStart == verdict = "none" /\ decision = "none"

-----------------------------------------------------------------------------
(* The coordinator.  The checks that a result is bound to this candidate   *)
(* hold for the results of its own jobs and are left out.                  *)

\* Mutant: the task is handed to the operator before its candidate.
AfterAdjudication_TaskFirst(j) ==
    IF passed[j]
    THEN <<Do("verdict", j), Ensure(Task, "awaiting_signoff"), Ensure(MCand, "awaiting_signoff")>>
    ELSE <<Do("verdict", j), Ensure(MCand, "rejected"), Ensure(Task, "rejected")>>

\* _after_adjudication
AfterAdjudication(j) ==
    IF passed[j]
    THEN <<Do("verdict", j), Ensure(MCand, "awaiting_signoff"), Ensure(Task, "awaiting_signoff")>>
    ELSE <<Do("verdict", j), Ensure(MCand, "rejected"), Ensure(Task, "rejected")>>

ManualHandler(j) ==
    (IF state[Task] = "cancelled" THEN <<>>
     ELSE CASE j = MBuild ->
                 <<Ensure(MCand, "built"), Ensure(MCand, "correctness_running"),
                   Ensure(Task, "manual_correctness"), Enqueue(MCorrectness)>>
            [] j = MCorrectness /\ ~ passed[j] ->
                 <<Ensure(MCand, "rejected"), Ensure(Task, "rejected")>>
            [] j = MCorrectness /\ passed[j] ->
                 <<Ensure(MCand, "performance_running"), Ensure(Task, "manual_performance"),
                   Enqueue(MPerformance)>>
            [] j = MPerformance ->
                 <<Ensure(MCand, "adjudicating"), Ensure(Task, "manual_adjudicating"),
                   Enqueue(MAdjudicate)>>
            [] j = MAdjudicate -> AfterAdjudication(j))
    \o <<Mark(j)>>

\* Mutant: a replay does not know what lies behind it.
ManualMoves_Once(e, to) == IF state[e] = to THEN <<>> ELSE <<MoveTo(e, to)>>

\* The moves that an ensure still has to make, as its first read finds it.
ManualMoves(e, to) ==
    LET over == IF e = Task THEN {"rejected", "cancelled", "completed"}
                            ELSE {"rejected", "build_failed", "accepted"}
        path == IF e = Task
                THEN <<"manual_candidate_pending", "manual_building", "manual_correctness",
                       "manual_performance", "manual_adjudicating", "awaiting_signoff">>
                ELSE <<"proposed", "building", "built", "correctness_running",
                       "performance_running", "adjudicating", "awaiting_signoff">>
    IN IF state[e] \in over \cup {to} \/ After(path, state[e], to)
       THEN <<>> ELSE <<MoveTo(e, to)>>

\* record_evaluation, record_evidence_bundle, set_manual_candidate_verdict:
\* the verdict is written once; another one is a conflict.
SetVerdict(k) ==
    LET v == IF passed[Next1(k).who] THEN "valid" ELSE "invalid" IN
    /\ Now(k, "verdict")
    /\ IF verdict \in {"none", v}
       THEN verdict' = v /\ Skip(k)
       ELSE Raise(k) /\ UNCHANGED verdict
    /\ UNCHANGED <<phase, passed, unadvanced, state, crashes, decision>>

-----------------------------------------------------------------------------
(* Transactions of their own.                                              *)

\* create_manual_candidate: candidate, build job and both states, atomically.
CreateManualCandidate ==
    /\ state[Task] = "manual_candidate_pending"
    /\ state[MCand] = "absent"
    /\ state' = [state EXCEPT ![Task] = "manual_building", ![MCand] = "building"]
    /\ phase' = [phase EXCEPT ![MBuild] = "queued"]
    /\ UNCHANGED <<passed, unadvanced, calls, crashes, manualVars>>

\* signoff_manual_candidate_task: once, when both are waiting for it.
SignoffManual(approved) ==
    /\ decision = "none"
    /\ state[Task] = "awaiting_signoff"
    /\ state[MCand] = "awaiting_signoff"
    /\ decision' = IF approved THEN "approved" ELSE "rejected"
    /\ state' = [state EXCEPT ![Task] = IF approved THEN "completed" ELSE "rejected",
                              ![MCand] = IF approved THEN "accepted" ELSE "rejected"]
    /\ UNCHANGED <<phase, passed, unadvanced, calls, crashes, verdict>>

\* fail_job or the reaper, at the last attempt, with
\* _reject_manual_candidate_task_after_job_failure in the same transaction.
FailManualJob(j) ==
    LET target == IF j = MBuild THEN "build_failed" ELSE "rejected"
        settled == state[Task] \in {"rejected", "cancelled", "completed"}
        keep == state[MCand] \in {"build_failed", "rejected", "accepted"} IN
    /\ phase[j] = "running"
    /\ settled \/ "rejected" \in Moves(Task)
    /\ keep \/ target \in Moves(MCand)
    /\ phase' = [phase EXCEPT ![j] = "over"]
    /\ state' = [state EXCEPT ![Task] = IF settled THEN @ ELSE "rejected",
                              ![MCand] = IF keep THEN @ ELSE target]
    /\ UNCHANGED <<passed, unadvanced, calls, crashes, manualVars>>
=============================================================================
