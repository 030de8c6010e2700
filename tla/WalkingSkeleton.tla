-------------------------- MODULE WalkingSkeleton --------------------------
(***************************************************************************)
(* The optimization workflow: WalkingSkeletonCoordinator.  A round of      *)
(* candidates is generated; each is built, checked and measured by jobs of *)
(* its own; when the last of them is through, the best one goes on to the  *)
(* end-to-end validation.  Whoever advances a job also looks whether it    *)
(* was the last one: the barrier has no owner.                             *)
(***************************************************************************)
EXTENDS Coordinator

CONSTANT Candidates    \* how many candidates a round has, by ordinal

ASSUME CandidatesAssumption == Candidates \in Nat \ {0}

Ordinal        == 1 .. Candidates
Profile        == <<"profile", 0>>
Generate       == <<"candidate_generate", 0>>
WBuild(c)      == <<"build", c>>
Correctness(c) == <<"correctness", c>>
Performance(c) == <<"performance", c>>
E2E(c)         == <<"e2e", c>>

RoundJobs == {Profile, Generate} \cup
             UNION {{WBuild(c), Correctness(c), Performance(c), E2E(c)} : c \in Ordinal}

-----------------------------------------------------------------------------
(* The coordinator.  Hotspots, artifacts and evaluations are recorded      *)
(* under keys of their own and are left out.                               *)

Barrier == Do("barrier", <<>>)

\* The tail of _after_candidate_generate: every candidate in turn.
BuildAll == [i \in 1 .. 2 * Candidates |->
               LET c == (i + 1) \div 2 IN
               IF i % 2 = 1 THEN Ensure(Candidate(c), "building") ELSE Enqueue(WBuild(c))]

\* Mutant: the barrier is looked at before the candidate has moved.
AfterPerformance_BarrierFirst(c, ok) ==
    <<Barrier, Ensure(Candidate(c), IF ok THEN "round_waiting" ELSE "rejected")>>

\* _after_performance
AfterPerformance(c, ok) ==
    <<Ensure(Candidate(c), IF ok THEN "round_waiting" ELSE "rejected"), Barrier>>

RoundHandler(j) ==
    LET c == j[2] IN
    (CASE j = Profile  -> <<Ensure(Task, "searching"), Enqueue(Generate)>>
       [] j = Generate -> <<Do("propose", j), Ensure(Task, "evaluating")>> \o BuildAll
       [] j[1] = "build" -> <<Ensure(Candidate(c), "correctness_running"), Enqueue(Correctness(c))>>
       [] j[1] = "correctness" /\ passed[j] ->
             <<Ensure(Candidate(c), "performance_running"), Enqueue(Performance(c)), Barrier>>
       [] j[1] = "correctness" /\ ~ passed[j] -> <<Ensure(Candidate(c), "rejected"), Barrier>>
       [] j[1] = "performance" -> AfterPerformance(c, passed[j])
       [] j[1] = "e2e" /\ passed[j] ->
             <<Ensure(Candidate(c), "release_candidate"), Ensure(Task, "awaiting_signoff")>>
       [] j[1] = "e2e" /\ ~ passed[j] ->
             <<Ensure(Candidate(c), "rejected"), Ensure(Task, "rejected")>>)
    \o <<Mark(j)>>

\* The moves that an ensure still has to make, as its first read finds it.
\* A task's state is read again before each of them.
RoundMoves(e, to) ==
    LET order == <<"baseline_pending", "profiling", "searching", "evaluating",
                   "model_validating", "e2e_validating", "awaiting_signoff", "completed",
                   "rejected">>
        path == <<"proposed", "building", "built", "correctness_running",
                  "performance_running", "round_waiting", "model_validating", "staged",
                  "e2e_running", "release_candidate">>
        At(s) == CHOOSE i \in DOMAIN path : path[i] = s
    IN IF e = Task
       THEN IF state[e] = to \/ After(order, state[e], to) THEN <<>>
            ELSE IF to = "e2e_validating"
            THEN <<Op("again", Task, "model_validating"), Op("again", Task, to)>>
            ELSE <<Op("again", Task, to)>>
       ELSE IF state[e] = to THEN <<>>
            ELSE IF to = "rejected" THEN <<MoveTo(e, to)>>
            ELSE IF state[e] \in {"rejected", "build_failed"} \/ After(path, state[e], to)
            THEN <<>>
            ELSE [i \in 1 .. At(to) - At(state[e]) |-> MoveTo(e, path[At(state[e]) + i])]

\* The loop of _ensure_task_state.
ReadAgain(k) ==
    /\ Now(k, "again")
    /\ Replace(k, IF state[Task] = Next1(k).to THEN <<>> ELSE <<MoveTo(Task, Next1(k).to)>>)
    /\ UNCHANGED <<phase, passed, unadvanced, state, crashes>>

\* create_candidates: all of the round in one transaction.
CreateCandidates(k) ==
    /\ Now(k, "propose")
    /\ state' = [e \in DOMAIN state |->
                   IF e \in {Candidate(c) : c \in Ordinal} /\ state[e] = "absent"
                   THEN "proposed" ELSE state[e]]
    /\ Skip(k)
    /\ UNCHANGED <<phase, passed, unadvanced, crashes>>

\* Mutant: a candidate that is still being measured does not count.
MaybeFinishRound_Early(k) ==
    LET Waiting == {c \in Ordinal : state[Candidate(c)] = "round_waiting"} IN
    /\ Now(k, "barrier")
    /\ IF Waiting # {}
       THEN LET w == CHOOSE c \in Waiting : \A d \in Waiting : c <= d IN
            Replace(k, <<Ensure(Candidate(w), "e2e_running"), Ensure(Task, "e2e_validating"),
                         Enqueue(E2E(w))>>)
       ELSE Skip(k)
    /\ UNCHANGED <<phase, passed, unadvanced, state, crashes>>

\* _maybe_finish_round: one read of all candidates; the lowest ordinal wins.
MaybeFinishRound(k) ==
    LET Waiting == {c \in Ordinal : state[Candidate(c)] = "round_waiting"} IN
    /\ Now(k, "barrier")
    /\ IF /\ Waiting # {}
          /\ \A c \in Ordinal : state[Candidate(c)] \in {"round_waiting", "rejected"}
       THEN LET w == CHOOSE c \in Waiting : \A d \in Waiting : c <= d IN
            Replace(k, <<Ensure(Candidate(w), "e2e_running"), Ensure(Task, "e2e_validating"),
                         Enqueue(E2E(w))>>)
       ELSE Skip(k)
    /\ UNCHANGED <<phase, passed, unadvanced, state, crashes>>

-----------------------------------------------------------------------------
(* Transactions of their own.                                              *)

\* POST baseline: freezes the epoch, and in a second transaction enqueues
\* the first job.  The client repeats the request until the job is there.
FreezeBaseline(k) ==
    /\ calls[k] = Idle
    /\ phase[Profile] = "absent"
    /\ state' = [state EXCEPT ![Task] = IF @ = "baseline_pending" THEN "profiling" ELSE @]
    /\ calls' = [calls EXCEPT ![k] = [kind |-> "baseline", todo |-> <<Enqueue(Profile)>>,
                                      queue |-> <<>>]]
    /\ UNCHANGED <<phase, passed, unadvanced, crashes>>

\* The last attempt fails: no other table is touched.
FailRoundJob(j) ==
    /\ phase[j] = "running"
    /\ phase' = [phase EXCEPT ![j] = "over"]
    /\ UNCHANGED <<passed, unadvanced, state, calls, crashes>>
=============================================================================
