---------------------------- MODULE StateGraphs ----------------------------
(***************************************************************************)
(* domain/transitions.py: which moves of a task and of a candidate the     *)
(* control plane accepts at all, whoever asks for them.                    *)
(***************************************************************************)

\* TASK_TRANSITIONS[s]
TaskMoves(s) ==
    CASE s = "created"                  -> {"stage0_pending", "framework_smoke_pending"}
      [] s = "stage0_pending"           -> {"stopped_measurement", "degraded",
                                            "baseline_pending", "cancelled"}
      [] s = "degraded"                 -> {"baseline_pending"}
      [] s = "baseline_pending"         -> {"profiling", "manual_candidate_pending"}
      [] s = "profiling"                -> {"searching"}
      [] s = "searching"                -> {"evaluating"}
      [] s = "evaluating"               -> {"model_validating"}
      [] s = "model_validating"         -> {"e2e_validating", "rejected"}
      [] s = "e2e_validating"           -> {"awaiting_signoff", "rejected"}
      [] s = "awaiting_signoff"         -> {"completed", "rejected", "framework_retesting",
                                            "cancelled"}
      [] s = "framework_smoke_pending"  -> {"source_preparing", "rejected", "cancelled"}
      [] s = "source_preparing"         -> {"artifact_preparing", "rejected", "cancelled"}
      [] s = "artifact_preparing"       -> {"framework_executing", "rejected", "cancelled"}
      [] s = "framework_executing"      -> {"output_validating", "rejected", "cancelled"}
      [] s = "output_validating"        -> {"awaiting_signoff", "rejected", "cancelled"}
      [] s = "framework_retesting"      -> {"awaiting_signoff", "rejected", "cancelled"}
      [] s = "manual_candidate_pending" -> {"manual_building", "cancelled"}
      [] s = "manual_building"          -> {"manual_correctness", "rejected", "cancelled"}
      [] s = "manual_correctness"       -> {"manual_performance", "rejected", "cancelled"}
      [] s = "manual_performance"       -> {"manual_adjudicating", "rejected", "cancelled"}
      [] s = "manual_adjudicating"      -> {"awaiting_signoff", "rejected", "cancelled"}
      [] s = "endpoint_probing"         -> {"endpoint_provisional_passed", "rejected",
                                            "cancelled"}
      [] OTHER                          -> {}

\* CANDIDATE_TRANSITIONS[s]
CandidateMoves(s) ==
    CASE s = "proposed"                -> {"building"}
      [] s = "building"                -> {"built", "build_failed"}
      [] s = "built"                   -> {"correctness_running", "framework_smoke_running"}
      [] s = "correctness_running"     -> {"performance_running", "rejected"}
      [] s = "performance_running"     -> {"round_waiting", "adjudicating", "rejected"}
      [] s = "round_waiting"           -> {"model_validating", "rejected"}
      [] s = "model_validating"        -> {"staged", "rejected"}
      [] s = "staged"                  -> {"e2e_running"}
      [] s = "e2e_running"             -> {"release_candidate", "rejected"}
      [] s = "framework_smoke_running" -> {"framework_smoke_passed", "rejected"}
      [] s = "framework_smoke_passed"  -> {"framework_smoke_running", "rejected"}
      [] s = "adjudicating"            -> {"awaiting_signoff", "rejected"}
      [] s = "awaiting_signoff"        -> {"accepted", "rejected"}
      [] OTHER                         -> {}
=============================================================================
