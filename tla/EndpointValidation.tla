------------------------- MODULE EndpointValidation -------------------------
(***************************************************************************)
(* The endpoint validation workflow: EndpointValidationCoordinator and     *)
(* storage/endpoint_validation.py.  For a signed M1 task an operator       *)
(* orders runs against the endpoint, each with a task and a job of its     *)
(* own; when all of them have passed he opens a campaign, which is         *)
(* adjudicated by one more job and then signed off.  The jobs are never    *)
(* retried (max_attempts is 1).                                            *)
(***************************************************************************)
EXTENDS Coordinator

CONSTANT EndpointRuns    \* the runs of a campaign: 1 .. EndpointRuns (eight in the contract)

ASSUME EndpointRunsAssumption == EndpointRuns \in Nat \ {0}

VARIABLES
    endpoint,    \* endpoint[i]: states of the i-th run and of its task
    campaign     \* state of the campaign

endpointVars == <<endpoint, campaign>>

Measure(i)  == <<"endpoint_validation", i>>
Adjudicate  == <<"endpoint_adjudicate", 0>>

MeasureJobs  == {Measure(i) : i \in 1 .. EndpointRuns}
EndpointJobs == MeasureJobs \cup {Adjudicate}

EndpointTypeOK ==
    /\ endpoint \in [1 .. EndpointRuns ->
          [run : {"absent", "queued", "running", "provisional_passed", "failed"},
           task : {"absent", "endpoint_probing", "endpoint_provisional_passed", "rejected"}]]
    /\ campaign \in {"absent", "awaiting_adjudication", "adjudicating", "awaiting_signoff",
                     "invalid", "adjudication_failed", "completed", "rejected"}

EndpointStart ==
    /\ endpoint = [i \in 1 .. EndpointRuns |-> [run |-> "absent", task |-> "absent"]]
    /\ campaign = "absent"

EndpointHandler(j) == <<Do(IF j = Adjudicate THEN "adjudication" ELSE "endpoint", j), Mark(j)>>

Passed(i) == endpoint[i] = [run |-> "provisional_passed", task |-> "endpoint_provisional_passed"]

-----------------------------------------------------------------------------
(* The coordinator.                                                        *)

\* record_endpoint_validation_result
RecordEndpoint(k) ==
    LET i == Next1(k).who[2] IN
    /\ Now(k, "endpoint")
    /\ \/ /\ endpoint[i].run = "provisional_passed"
          /\ Skip(k) /\ UNCHANGED endpoint
       \/ /\ endpoint[i].run \in {"queued", "running"}
          /\ "endpoint_provisional_passed" \in TaskMoves(endpoint[i].task)
          /\ endpoint' = [endpoint EXCEPT ![i] = [run |-> "provisional_passed",
                                                  task |-> "endpoint_provisional_passed"]]
          /\ Skip(k)
       \/ /\ \/ endpoint[i].run = "failed"
             \/ /\ endpoint[i].run \in {"queued", "running"}
                /\ "endpoint_provisional_passed" \notin TaskMoves(endpoint[i].task)
          /\ Raise(k) /\ UNCHANGED endpoint
    /\ UNCHANGED <<phase, passed, unadvanced, state, crashes, campaign>>

\* record_endpoint_adjudication_result: a replay is answered before the
\* sign-off, and refused after it.
RecordAdjudication(k) ==
    /\ Now(k, "adjudication")
    /\ \/ /\ campaign \in {"awaiting_signoff", "invalid"}
          /\ Skip(k) /\ UNCHANGED campaign
       \/ /\ campaign = "adjudicating"
          /\ campaign' = IF passed[Adjudicate] THEN "awaiting_signoff" ELSE "invalid"
          /\ Skip(k)
       \/ /\ campaign \notin {"awaiting_signoff", "invalid", "adjudicating"}
          /\ Raise(k) /\ UNCHANGED campaign
    /\ UNCHANGED <<phase, passed, unadvanced, state, crashes, endpoint>>

-----------------------------------------------------------------------------
(* What the job queue does to the runs and the campaign.                   *)

\* claim_job
EndpointClaimed(j) ==
    IF j = Adjudicate
    THEN /\ campaign = "awaiting_adjudication" /\ campaign' = "adjudicating"
         /\ UNCHANGED endpoint
    ELSE /\ endpoint' = [endpoint EXCEPT ![j[2]].run = IF @ = "queued" THEN "running" ELSE @]
         /\ UNCHANGED campaign

\* Mutant: the campaign is not told of a job that was cancelled.
AdjudicationOver_Forgotten(j) == UNCHANGED campaign

\* _fail_endpoint_adjudication_after_job_failure
AdjudicationOver(j) ==
    campaign' = IF j = Adjudicate /\ campaign \in {"awaiting_adjudication", "adjudicating"}
                THEN "adjudication_failed" ELSE campaign

\* fail_job or the reaper, with what belongs to the job's workflow.
FailEndpointJob(j) ==
    /\ phase[j] = "running"
    /\ phase' = [phase EXCEPT ![j] = "over"]
    /\ endpoint' = IF j = Adjudicate THEN endpoint
                   ELSE [endpoint EXCEPT
                           ![j[2]].run  = IF @ \in {"queued", "running"} THEN "failed" ELSE @,
                           ![j[2]].task = IF @ = "endpoint_probing" THEN "rejected" ELSE @]
    /\ AdjudicationOver(j)
    /\ UNCHANGED <<passed, unadvanced, state, calls, crashes>>

\* POST cancel: a campaign is told, an endpoint run is not.
CancelEndpointJob(j) ==
    /\ CancelJob(j)
    /\ AdjudicationOver(j)
    /\ UNCHANGED endpoint

-----------------------------------------------------------------------------
(* Transactions of their own.                                              *)

\* create_endpoint_validation_run: the M1 task it is bound to was signed.
CreateEndpointRun(i) ==
    /\ state[Task] = "completed"
    /\ endpoint[i].run = "absent"
    /\ endpoint' = [endpoint EXCEPT ![i] = [run |-> "queued", task |-> "endpoint_probing"]]
    /\ phase' = [phase EXCEPT ![Measure(i)] = "queued"]
    /\ UNCHANGED <<passed, unadvanced, state, calls, crashes, campaign>>

\* create_endpoint_validation_campaign: all runs have passed and are advanced.
CreateCampaign ==
    /\ campaign = "absent"
    /\ \A i \in 1 .. EndpointRuns :
          /\ Passed(i)
          /\ phase[Measure(i)] = "succeeded"
          /\ \A n \in DOMAIN unadvanced : unadvanced[n] # Measure(i)
    /\ campaign' = "awaiting_adjudication"
    /\ phase' = [phase EXCEPT ![Adjudicate] = "queued"]
    /\ UNCHANGED <<passed, unadvanced, state, calls, crashes, endpoint>>

\* signoff_endpoint_validation_campaign
SignoffCampaign(accepted) ==
    /\ campaign = "awaiting_signoff"
    /\ campaign' = IF accepted THEN "completed" ELSE "rejected"
    /\ UNCHANGED <<base, endpoint>>
=============================================================================
