------------------------------ MODULE JobQueue ------------------------------
(***************************************************************************)
(* The durable job queue of the control plane: the jobs, workers and       *)
(* resources tables of PostgresRepository and the transactions on them.    *)
(* Every action is one transaction; its row locks make it atomic.          *)
(*                                                                         *)
(* Workers are not modelled here.  All that a worker knows is the row its  *)
(* claim returned, so a request is any credential ever issued, presented   *)
(* at any time and any number of times: a late, duplicated or reordered    *)
(* request, a lost response and a revived worker are all such a request.   *)
(* WorkerLoop adds the worker process.                                     *)
(*                                                                         *)
(* The effect that the terminal failure of a job has on its workflow is    *)
(* part of the same transaction; it belongs to other tables and is         *)
(* modelled by the workflow modules, on top of JobLifecycle.               *)
(***************************************************************************)
EXTENDS Naturals, FiniteSets

CONSTANTS
    Job,              \* idempotency keys: enqueueing a key again returns its row
    Worker,           \* worker ids
    Resource,         \* resource ids
    Profile,          \* adapter profiles
    None,             \* SQL NULL
    JobSpec,          \* JobSpec[j]: what the creator of j asked for
    Registrations,    \* what workers may declare about themselves
    DefaultResource,  \* the resource of a GPU worker that names none
    ReapFresh         \* may the reaper be called with a threshold below the lease time?

WorkerType == {"agent", "build", "gpu", "evaluation"}
LeaseScope == {"none", "shared", "exclusive"}

JobSpecType == [type : WorkerType, profile : Profile \cup {None},
                scope : LeaseScope, max : Nat \ {0}]

RegistrationType == [type : WorkerType, profile : Profile \cup {None},
                     resource : Resource \cup {None}]

ASSUME NoneAssumption ==
    None \notin Job /\ None \notin Worker /\ None \notin Resource /\ None \notin Profile
ASSUME JobSpecAssumption == JobSpec \in [Job -> JobSpecType]
ASSUME RegistrationsAssumption == Registrations \subseteq RegistrationType
ASSUME DefaultResourceAssumption == DefaultResource \in Resource
ASSUME ReapFreshAssumption == ReapFresh \in BOOLEAN

VARIABLES
    jobs,        \* the jobs table
    resources,   \* the resources table
    workers,     \* the workers table: a registration, or None
    uuid,        \* how many claim tokens uuid4() has returned: it never repeats one
    issued,      \* every credential a claim has ever returned
    cleaned      \* <<r, t>>: healthy evidence was accepted for r under token t

vars == <<jobs, resources, workers, uuid, issued, cleaned>>

-----------------------------------------------------------------------------
(* The rows.  Token 0 and resource None stand for NULL.  "fresh": the last  *)
(* heartbeat is younger than the lease time, expires_at has not passed.     *)

JobState == {"absent", "queued", "running", "succeeded", "failed", "cancelled"}
Terminal == {"succeeded", "failed", "cancelled"}

JobRow == [state : JobState, attempts : Nat, claim : Nat, worker : Worker \cup {None},
           resource : Resource \cup {None}, fence : Nat, fresh : BOOLEAN]

ResourceRow == [state : {"absent", "available", "active", "quarantined"},
                owner : Job \cup {None}, fence : Nat]

Credential == [job : Job, worker : Worker, claim : Nat,
               resource : Resource \cup {None}, fence : Nat]

\* One type invariant: the tables hold rows, and only rows.
TypeOK ==
    /\ jobs \in [Job -> JobRow]
    /\ resources \in [Resource -> ResourceRow]
    /\ workers \in [Worker -> Registrations \cup {None}]
    /\ uuid \in Nat
    /\ issued \subseteq Credential
    /\ cleaned \subseteq Resource \X Nat

Init ==
    /\ jobs = [j \in Job |-> [state |-> "absent", attempts |-> 0, claim |-> 0,
                              worker |-> None, resource |-> None, fence |-> 0,
                              fresh |-> FALSE]]
    /\ resources = [r \in Resource |-> [state |-> "absent", owner |-> None, fence |-> 0]]
    /\ workers = [w \in Worker |-> None]
    /\ uuid = 0
    /\ issued = {}
    /\ cleaned = {}

-----------------------------------------------------------------------------
(* Helpers of the transactions.                                            *)

\* Mutant: the claim token is not compared.
AssertJobOwner_AnyClaim(c) ==
    /\ jobs[c.job].state = "running"
    /\ LET r == jobs[c.job].resource IN
       r # None => resources[r].owner = c.job /\ resources[r].fence = c.fence

\* _assert_job_owner: the job runs under this claim, and the resource it
\* holds, if any, still belongs to it under this fencing token.
AssertJobOwner(c) ==
    /\ jobs[c.job].state = "running"
    /\ jobs[c.job].claim = c.claim
    /\ LET r == jobs[c.job].resource IN
       r # None => resources[r].owner = c.job /\ resources[r].fence = c.fence

\* The resources that the jobs in S hold under the token of their claim:
\* the WHERE clause of _release_resource.
HeldBy(S) == {r \in Resource : /\ resources[r].owner \in S
                               /\ jobs[resources[r].owner].resource = r
                               /\ jobs[resources[r].owner].fence = resources[r].fence}

\* _release_resource for every job in S.  Its passage through 'fencing' and
\* 'health_check' is inside the transaction; without healthy evidence the
\* resource ends quarantined.
ReleaseResource(S, healthy) ==
    /\ resources' = [r \in Resource |->
          IF r \in HeldBy(S)
          THEN [resources[r] EXCEPT !.state = IF healthy THEN "available" ELSE "quarantined",
                                    !.owner = None]
          ELSE resources[r]]
    /\ cleaned' = IF healthy
                  THEN cleaned \cup {<<r, resources[r].fence>> : r \in HeldBy(S)}
                  ELSE cleaned

\* A row whose claim columns have been set to NULL.
Unclaimed(row, state) ==
    [row EXCEPT !.state = state, !.claim = 0, !.worker = None, !.resource = None,
                !.fence = 0, !.fresh = FALSE]

\* Mutant: off by one.
MayRetry_OneMore(j) == jobs[j].attempts <= JobSpec[j].max

MayRetry(j) == jobs[j].attempts < JobSpec[j].max

-----------------------------------------------------------------------------
(* The transactions.                                                       *)

\* Mutant: ON CONFLICT resets the resource as well.
RegisterWorker_Reset(w, d) ==
    /\ workers' = [workers EXCEPT ![w] = d]
    /\ resources' =
          LET r == IF d.resource = None THEN DefaultResource ELSE d.resource IN
          IF d.type = "gpu" /\ resources[r].state # "active"
          THEN [resources EXCEPT ![r] = [state |-> "available", owner |-> None, fence |-> 0]]
          ELSE resources
    /\ UNCHANGED <<jobs, uuid, issued, cleaned>>

\* register_worker: an upsert; a GPU worker brings its resource into being.
RegisterWorker(w, d) ==
    /\ workers' = [workers EXCEPT ![w] = d]
    /\ resources' =
          LET r == IF d.resource = None THEN DefaultResource ELSE d.resource IN
          IF d.type = "gpu" /\ resources[r].state = "absent"
          THEN [resources EXCEPT ![r].state = "available"]
          ELSE resources
    /\ UNCHANGED <<jobs, uuid, issued, cleaned>>

\* Mutant: a state the workers do not know.
EnqueueJob_Created(j) ==
    /\ jobs[j].state = "absent"
    /\ jobs' = [jobs EXCEPT ![j].state = "created"]
    /\ UNCHANGED <<resources, workers, uuid, issued, cleaned>>

\* enqueue_job for a new idempotency key (an old key changes nothing).
EnqueueJob(j) ==
    /\ jobs[j].state = "absent"
    /\ jobs' = [jobs EXCEPT ![j].state = "queued"]
    /\ UNCHANGED <<resources, workers, uuid, issued, cleaned>>

\* The rows claim_job's SELECT may return.  ORDER BY picks one, but SKIP
\* LOCKED passes over any row that a concurrent transaction has locked.
Claimable(w, j) ==
    /\ workers[w] # None
    /\ jobs[j].state = "queued"
    /\ JobSpec[j].type = workers[w].type
    /\ JobSpec[j].profile \in {None, workers[w].profile}

NeedsLease(j) == JobSpec[j].type = "gpu" /\ JobSpec[j].scope # "none"

\* The tail of claim_job, common to jobs with and without a lease.
Claimed(w, j, r, f) ==
    LET c == [job |-> j, worker |-> w, claim |-> uuid + 1, resource |-> r, fence |-> f] IN
    /\ jobs' = [jobs EXCEPT ![j] = [state |-> "running", attempts |-> @.attempts + 1,
                                    claim |-> c.claim, worker |-> w, resource |-> r,
                                    fence |-> f, fresh |-> TRUE]]
    /\ uuid' = uuid + 1
    /\ issued' = issued \cup {c}
    /\ UNCHANGED <<workers, cleaned>>

ClaimPlainJob(w, j) ==
    /\ Claimable(w, j)
    /\ ~ NeedsLease(j)
    /\ Claimed(w, j, None, 0)
    /\ UNCHANGED resources

\* Mutant: a quarantined resource will do.
ClaimLeasedJob_Quarantined(w, j, r) ==
    /\ Claimable(w, j)
    /\ NeedsLease(j)
    /\ workers[w].resource \in {None, r}
    /\ resources[r].state \in {"available", "quarantined"}
    /\ resources' = [resources EXCEPT ![r] = [state |-> "active", owner |-> j,
                                              fence |-> @.fence + 1]]
    /\ Claimed(w, j, r, resources[r].fence + 1)

\* A GPU job is claimed together with an available resource (the one the
\* worker names, or any) under the next fencing token; or not at all.
ClaimLeasedJob(w, j, r) ==
    /\ Claimable(w, j)
    /\ NeedsLease(j)
    /\ workers[w].resource \in {None, r}
    /\ resources[r].state = "available"
    /\ resources' = [resources EXCEPT ![r] = [state |-> "active", owner |-> j,
                                              fence |-> @.fence + 1]]
    /\ Claimed(w, j, r, resources[r].fence + 1)

\* heartbeat_job: renews heartbeat_at and expires_at together.
HeartbeatJob(c) ==
    /\ AssertJobOwner(c)
    /\ jobs[c.job].worker = c.worker
    /\ jobs' = [jobs EXCEPT ![c.job].fresh = TRUE]
    /\ UNCHANGED <<resources, workers, uuid, issued, cleaned>>

\* assert_live_job_lease: the owner check, plus an unexpired active lease.
\* It renews nothing.
LiveLease(c) ==
    /\ AssertJobOwner(c)
    /\ jobs[c.job].worker = c.worker
    /\ jobs[c.job].resource # None
    /\ jobs[c.job].fresh
    /\ resources[jobs[c.job].resource].state = "active"

\* complete_job.  A completed job keeps its claim columns, so that a replay
\* with the same claim, token and result returns the row unchanged.
CompleteJob(c, healthy) ==
    /\ AssertJobOwner(c)
    /\ jobs' = [jobs EXCEPT ![c.job].state = "succeeded"]
    /\ ReleaseResource({c.job}, healthy)
    /\ UNCHANGED <<workers, uuid, issued>>

\* fail_job: another attempt, or the end.
FailJob(c, retryable, healthy) ==
    /\ AssertJobOwner(c)
    /\ jobs' = [jobs EXCEPT ![c.job] =
                  Unclaimed(@, IF retryable /\ MayRetry(c.job) THEN "queued" ELSE "failed")]
    /\ ReleaseResource({c.job}, healthy)
    /\ UNCHANGED <<workers, uuid, issued>>

\* Time passes: the lease of a running job expires, its heartbeat is old.
Expire(j) ==
    /\ jobs[j].state = "running"
    /\ jobs[j].fresh
    /\ jobs' = [jobs EXCEPT ![j].fresh = FALSE]
    /\ UNCHANGED <<resources, workers, uuid, issued, cleaned>>

\* The running jobs whose heartbeat the reaper finds too old.
Stale == {j \in Job : jobs[j].state = "running" /\ (ReapFresh \/ ~ jobs[j].fresh)}

\* recover_stale_jobs: one transaction for all the rows it could lock.
RecoverStaleJobs(S) ==
    /\ S # {}
    /\ S \subseteq Stale
    /\ ReleaseResource(S, FALSE)
    /\ jobs' = [j \in Job |->
                  IF j \in S
                  THEN Unclaimed(jobs[j], IF MayRetry(j) THEN "queued" ELSE "failed")
                  ELSE jobs[j]]
    /\ UNCHANGED <<workers, uuid, issued>>

\* Mutant: the lease of a cancelled job is forgotten.
CancelJob_KeepsLease(j) ==
    /\ jobs[j].state \in {"queued", "running"}
    /\ jobs' = [jobs EXCEPT ![j] = Unclaimed(@, "cancelled")]
    /\ UNCHANGED <<resources, cleaned, workers, uuid, issued>>

\* cancel_job: a finished job is returned as it is.
CancelJob(j) ==
    /\ jobs[j].state \in {"queued", "running"}
    /\ IF jobs[j].state = "running" THEN ReleaseResource({j}, FALSE)
                                    ELSE UNCHANGED <<resources, cleaned>>
    /\ jobs' = [jobs EXCEPT ![j] = Unclaimed(@, "cancelled")]
    /\ UNCHANGED <<workers, uuid, issued>>

\* Mutant: evidence about any earlier lease is accepted.
ReportResourceCleanup_AnyToken(r, token, healthy) ==
    /\ resources[r].state = "quarantined"
    /\ resources' = [resources EXCEPT ![r] =
          [@ EXCEPT !.state = IF healthy THEN "available" ELSE "quarantined", !.owner = None]]
    /\ cleaned' = IF healthy THEN cleaned \cup {<<r, token>>} ELSE cleaned
    /\ UNCHANGED <<jobs, workers, uuid, issued>>

\* report_resource_cleanup, by a worker or an operator, for the resource's
\* present token only.
ReportResourceCleanup(r, token, healthy) ==
    /\ resources[r].fence = token
    /\ resources[r].state = "quarantined"
    /\ resources' = [resources EXCEPT ![r] =
          [@ EXCEPT !.state = IF healthy THEN "available" ELSE "quarantined", !.owner = None]]
    /\ cleaned' = IF healthy THEN cleaned \cup {<<r, token>>} ELSE cleaned
    /\ UNCHANGED <<jobs, workers, uuid, issued>>

Next ==
    \/ \E w \in Worker, d \in Registrations : RegisterWorker(w, d)
    \/ \E j \in Job : EnqueueJob(j) \/ Expire(j) \/ CancelJob(j)
    \/ \E w \in Worker, j \in Job : ClaimPlainJob(w, j)
    \/ \E w \in Worker, j \in Job, r \in Resource : ClaimLeasedJob(w, j, r)
    \/ \E c \in issued : HeartbeatJob(c)
    \/ \E c \in issued, healthy \in BOOLEAN : CompleteJob(c, healthy)
    \/ \E c \in issued, retryable, healthy \in BOOLEAN : FailJob(c, retryable, healthy)
    \/ \E S \in SUBSET Job : RecoverStaleJobs(S)
    \/ \E r \in Resource, healthy \in BOOLEAN :
          \E token \in 0 .. resources[r].fence : ReportResourceCleanup(r, token, healthy)

Spec == Init /\ [][Next]_vars

-----------------------------------------------------------------------------
(* What must hold.                                                         *)

\* The two tables agree about every lease: a resource is active exactly when
\* a job owns it, that job is running under the resource's present token,
\* and every running job that took a resource is still its owner.  No order
\* of claims, late answers, reaps, cancellations and cleanup reports may
\* separate them (claim_job, _release_resource, report_resource_cleanup).
LeaseOwnership ==
    /\ \A r \in Resource :
          /\ resources[r].state = "active" <=> resources[r].owner # None
          /\ resources[r].owner # None =>
                LET j == resources[r].owner IN
                /\ jobs[j].state = "running"
                /\ jobs[j].resource = r
                /\ jobs[j].fence = resources[r].fence
    /\ \A j \in Job : jobs[j].state = "running" =>
          /\ NeedsLease(j) => jobs[j].resource # None
          /\ jobs[j].resource # None => resources[jobs[j].resource].owner = j

\* At most one credential has authority over a job, and at most one over a
\* resource: of all the answers still in flight from earlier claims, only
\* those of the latest one pass _assert_job_owner.
SoleAuthority ==
    \A c, d \in issued :
        /\ AssertJobOwner(c) /\ AssertJobOwner(d)
        /\ c.job = d.job \/ (c.resource = d.resource /\ c.resource # None)
        => c = d

\* No fencing token of a resource is ever handed out twice, whatever workers
\* register again in between: what a container labelled with a token belongs
\* to is never ambiguous.
TokensUnique ==
    \A c, d \in issued :
        c.resource = d.resource /\ c.fence = d.fence /\ c.resource # None => c = d

\* A resource is leased again only after healthy evidence was accepted for
\* the immediately preceding lease; evidence about an older one, arriving
\* late, never counts (the token check of report_resource_cleanup).
CleanHandover ==
    \A c \in issued :
        c.resource # None /\ c.fence > 1 => <<c.resource, c.fence - 1>> \in cleaned

\* The resources table as the abstract lease sees it.
leaseView == [r \in Resource |-> [holder |-> resources[r].owner,
                                  epoch  |-> resources[r].fence,
                                  clean  |-> resources[r].state \in {"absent", "available"}]]

Lease == INSTANCE FencedLease WITH Holder <- Job, lease <- leaseView

\* The queue implements the abstract lease: one holder, growing epochs, no
\* acquisition of a resource that is not clean.
ImplementsFencedLease == Lease!Spec

\* The jobs table as the workflows see it.
phaseView    == [j \in Job |-> jobs[j].state]
attemptsView == [j \in Job |-> jobs[j].attempts]
maxView      == [j \in Job |-> JobSpec[j].max]

Life == INSTANCE JobLifecycle WITH Max <- maxView, phase <- phaseView,
                                   attempts <- attemptsView

\* The queue implements the abstract job: although claim_job never compares
\* attempts with max_attempts, no job is attempted more often than its
\* creator allowed, and a finished job never moves.
ImplementsJobLifecycle == Life!Spec
=============================================================================
