-------------------------- MODULE WorkerLoopProofs --------------------------
(***************************************************************************)
(* The queue, for every set of jobs, workers, resources and registrations: *)
(* its types, its invariants and the two specifications it implements.     *)
(*                                                                         *)
(* Then the processes that use it, for any number of jobs, workers,        *)
(* devices, attempts and launches: two of them are never inside handlers   *)
(* for one device, and containers of two leases never share it             *)
(* (HandlerExclusive, DeviceExclusive). They see the queue through what    *)
(* the first half shows of every step of its tables, whoever takes it.     *)
(***************************************************************************)
EXTENDS WorkerLoop, TLAPS

-----------------------------------------------------------------------------
(* Lemmas about the helpers.                                               *)

\* Clearing the claim columns of a row leaves a row.
LEMMA UnclaimedType ==
    ASSUME NEW row \in JobRow, NEW s \in JobState
    PROVE  /\ Unclaimed(row, s) \in JobRow
           /\ Unclaimed(row, s).state = s
           /\ Unclaimed(row, s).attempts = row.attempts
           /\ Unclaimed(row, s).claim = 0
           /\ Unclaimed(row, s).resource = None
BY DEF Unclaimed, JobRow

\* Writing the state or the heartbeat of a row leaves a row.
LEMMA RowType ==
    ASSUME NEW row \in JobRow, NEW s \in JobState, NEW b \in BOOLEAN
    PROVE  [row EXCEPT !.state = s] \in JobRow /\ [row EXCEPT !.fresh = b] \in JobRow
BY DEF JobRow

\* _release_resource leaves tables, whatever the set of jobs.
LEMMA ReleaseType ==
    ASSUME TypeOK, NEW S, NEW healthy \in BOOLEAN, ReleaseResource(S, healthy)
    PROVE  /\ resources' \in [Resource -> ResourceRow]
           /\ cleaned' \subseteq Resource \X Nat
<1>1. resources' \in [Resource -> ResourceRow]
  BY DEF TypeOK, ReleaseResource, ResourceRow
<1>2. \A r \in Resource : resources[r].fence \in Nat
  BY DEF TypeOK, ResourceRow
<1>3. {<<r, resources[r].fence>> : r \in HeldBy(S)} \subseteq Resource \X Nat
  BY <1>2 DEF HeldBy
<1>4. cleaned' \subseteq Resource \X Nat
  BY <1>3 DEF TypeOK, ReleaseResource
<1> QED BY <1>1, <1>4

\* What _release_resource does to one resource.
LEMMA ReleaseEffect ==
    ASSUME TypeOK, NEW S, NEW healthy \in BOOLEAN, ReleaseResource(S, healthy),
           NEW r \in Resource
    PROVE  /\ r \in HeldBy(S) => /\ resources'[r].owner = None
                                 /\ resources'[r].fence = resources[r].fence
                                 /\ resources'[r].state =
                                       IF healthy THEN "available" ELSE "quarantined"
           /\ r \notin HeldBy(S) => resources'[r] = resources[r]
BY DEF TypeOK, ReleaseResource, ResourceRow

-----------------------------------------------------------------------------
(* Type correctness.                                                       *)

\* The empty tables are tables.
LEMMA InitType == Init => TypeOK
BY DEF Init, TypeOK, JobRow, JobState, ResourceRow

\* The tail of claim_job writes a row and issues a credential of their types.
LEMMA ClaimedType ==
    ASSUME TypeOK, NEW w \in Worker, NEW j \in Job, NEW r \in Resource \cup {None},
           NEW f \in Nat, Claimed(w, j, r, f)
    PROVE  /\ jobs' \in [Job -> JobRow]
           /\ workers' = workers
           /\ cleaned' = cleaned
           /\ uuid' \in Nat
           /\ issued' \subseteq Credential
<1>1. [state |-> "running", attempts |-> jobs[j].attempts + 1, claim |-> uuid + 1,
       worker |-> w, resource |-> r, fence |-> f, fresh |-> TRUE] \in JobRow
  BY DEF TypeOK, JobRow, JobState
<1>2. [job |-> j, worker |-> w, claim |-> uuid + 1, resource |-> r, fence |-> f] \in Credential
  BY DEF TypeOK, Credential
<1> QED BY <1>1, <1>2 DEF Claimed, TypeOK

\* Every transaction of the queue leaves tables of their types.
LEMMA StepType == TypeOK /\ [Next]_vars => TypeOK'
<1> SUFFICES ASSUME TypeOK, [Next]_vars PROVE TypeOK'
  OBVIOUS
<1> USE NoneAssumption, JobSpecAssumption, RegistrationsAssumption, DefaultResourceAssumption
<1>1. ASSUME NEW w \in Worker, NEW d \in Registrations, RegisterWorker(w, d) PROVE TypeOK'
  <2>1. workers' \in [Worker -> Registrations \cup {None}]
    BY <1>1 DEF TypeOK, RegisterWorker
  <2>2. (IF d.resource = None THEN DefaultResource ELSE d.resource) \in Resource
    BY DEF RegistrationType
  <2>3. resources' \in [Resource -> ResourceRow]
    BY <1>1, <2>2 DEF TypeOK, RegisterWorker, ResourceRow
  <2> QED BY <1>1, <2>1, <2>3 DEF TypeOK, RegisterWorker
<1>2. ASSUME NEW j \in Job, EnqueueJob(j) PROVE TypeOK'
  <2>a. [jobs[j] EXCEPT !.state = "queued"] \in JobRow
    BY RowType DEF TypeOK, JobState
  <2>b. jobs' = [jobs EXCEPT ![j] = [jobs[j] EXCEPT !.state = "queued"]]
    BY <1>2 DEF EnqueueJob
  <2>1. jobs' \in [Job -> JobRow]
    BY <2>a, <2>b DEF TypeOK
  <2> QED BY <1>2, <2>1 DEF TypeOK, EnqueueJob
<1>3. ASSUME NEW j \in Job, Expire(j) PROVE TypeOK'
  <2>a. [jobs[j] EXCEPT !.fresh = FALSE] \in JobRow
    BY RowType DEF TypeOK, JobState
  <2>b. jobs' = [jobs EXCEPT ![j] = [jobs[j] EXCEPT !.fresh = FALSE]]
    BY <1>3 DEF Expire
  <2>1. jobs' \in [Job -> JobRow]
    BY <2>a, <2>b DEF TypeOK
  <2> QED BY <1>3, <2>1 DEF TypeOK, Expire
<1>4. ASSUME NEW j \in Job, CancelJob(j) PROVE TypeOK'
  <2>1. jobs' \in [Job -> JobRow]
    BY <1>4, UnclaimedType DEF TypeOK, CancelJob, JobState
  <2>2. resources' \in [Resource -> ResourceRow] /\ cleaned' \subseteq Resource \X Nat
    BY <1>4, ReleaseType DEF TypeOK, CancelJob
  <2> QED BY <1>4, <2>1, <2>2 DEF TypeOK, CancelJob
<1>5. ASSUME NEW w \in Worker, NEW j \in Job, ClaimPlainJob(w, j) PROVE TypeOK'
  BY <1>5, ClaimedType DEF TypeOK, ClaimPlainJob
<1>6. ASSUME NEW w \in Worker, NEW j \in Job, NEW r \in Resource, ClaimLeasedJob(w, j, r)
      PROVE  TypeOK'
  <2>1. resources[r].fence \in Nat
    BY DEF TypeOK, ResourceRow
  <2>2. resources' \in [Resource -> ResourceRow]
    BY <1>6, <2>1 DEF TypeOK, ClaimLeasedJob, ResourceRow
  <2> QED BY <1>6, <2>1, <2>2, ClaimedType DEF TypeOK, ClaimLeasedJob
<1>7. ASSUME NEW c \in issued, HeartbeatJob(c) PROVE TypeOK'
  <2>0. c.job \in Job
    BY DEF TypeOK, Credential
  <2>a. [jobs[c.job] EXCEPT !.fresh = TRUE] \in JobRow
    BY <2>0, RowType DEF TypeOK, JobState
  <2>b. jobs' = [jobs EXCEPT ![c.job] = [jobs[c.job] EXCEPT !.fresh = TRUE]]
    BY <1>7 DEF HeartbeatJob
  <2>1. jobs' \in [Job -> JobRow]
    BY <2>a, <2>b DEF TypeOK
  <2> QED BY <1>7, <2>1 DEF TypeOK, HeartbeatJob
<1>8. ASSUME NEW c \in issued, NEW healthy \in BOOLEAN, CompleteJob(c, healthy) PROVE TypeOK'
  <2>0. c.job \in Job
    BY DEF TypeOK, Credential
  <2>a. [jobs[c.job] EXCEPT !.state = "succeeded"] \in JobRow
    BY <2>0, RowType DEF TypeOK, JobState
  <2>b. jobs' = [jobs EXCEPT ![c.job] = [jobs[c.job] EXCEPT !.state = "succeeded"]]
    BY <1>8 DEF CompleteJob
  <2>1. jobs' \in [Job -> JobRow]
    BY <2>a, <2>b DEF TypeOK
  <2> QED BY <1>8, <2>1, ReleaseType DEF TypeOK, CompleteJob
<1>9. ASSUME NEW c \in issued, NEW retryable \in BOOLEAN, NEW healthy \in BOOLEAN,
             FailJob(c, retryable, healthy)
      PROVE  TypeOK'
  <2>1. c.job \in Job
    BY DEF TypeOK, Credential
  <2>2. jobs' \in [Job -> JobRow]
    BY <1>9, <2>1, UnclaimedType DEF TypeOK, FailJob, JobState
  <2> QED BY <1>9, <2>2, ReleaseType DEF TypeOK, FailJob
<1>10. ASSUME NEW S \in SUBSET Job, RecoverStaleJobs(S) PROVE TypeOK'
  <2>1. jobs' \in [Job -> JobRow]
    BY <1>10, UnclaimedType DEF TypeOK, RecoverStaleJobs, JobState
  <2> QED BY <1>10, <2>1, ReleaseType DEF TypeOK, RecoverStaleJobs
<1>11. ASSUME NEW r \in Resource, NEW healthy \in BOOLEAN,
              NEW token \in 0 .. resources[r].fence, ReportResourceCleanup(r, token, healthy)
       PROVE  TypeOK'
  <2>1. resources[r].fence \in Nat
    BY DEF TypeOK, ResourceRow
  <2> DEFINE row == [resources[r] EXCEPT
                        !.state = IF healthy THEN "available" ELSE "quarantined",
                        !.owner = None]
  <2>a. row \in ResourceRow
    BY DEF TypeOK, ResourceRow
  <2>b. resources' = [resources EXCEPT ![r] = row]
    BY <1>11 DEF ReportResourceCleanup
  <2> HIDE DEF row
  <2>2. resources' \in [Resource -> ResourceRow]
    BY <2>a, <2>b DEF TypeOK
  <2>3. cleaned' \subseteq Resource \X Nat
    BY <1>11, <2>1 DEF TypeOK, ReportResourceCleanup
  <2> QED BY <1>11, <2>2, <2>3 DEF TypeOK, ReportResourceCleanup
<1>12. CASE UNCHANGED vars
  BY <1>12 DEF vars, TypeOK
<1> QED BY <1>1, <1>2, <1>3, <1>4, <1>5, <1>6, <1>7, <1>8, <1>9, <1>10, <1>11, <1>12 DEF Next

\* The tables hold rows of their types in every reachable state.
THEOREM TypeCorrect == Spec => []TypeOK
BY InitType, StepType, PTL DEF Spec

-----------------------------------------------------------------------------
(* The two tables agree about every lease.  LeaseOwnership is inductive    *)
(* relative to TypeOK.                                                     *)

\* Releasing the leases of jobs that stop running keeps the tables agreed:
\* the shape of complete_job, fail_job, recover_stale_jobs and cancel_job.
LEMMA ReleaseLeases ==
    ASSUME TypeOK, LeaseOwnership, NEW S \in SUBSET Job, NEW healthy \in BOOLEAN,
           ReleaseResource(S, healthy), jobs' \in [Job -> JobRow],
           \A j \in S : jobs'[j].state # "running",
           \A j \in Job \ S : jobs'[j] = jobs[j]
    PROVE  LeaseOwnership'
<1> USE NoneAssumption
<1>1. ASSUME NEW r \in Resource, resources[r].owner \in S
      PROVE  resources'[r].owner = None /\ resources'[r].state # "active"
  <2>1. r \in HeldBy(S)
    BY <1>1 DEF LeaseOwnership, HeldBy
  <2> QED BY <2>1, ReleaseEffect
<1>2. ASSUME NEW r \in Resource, resources[r].owner \notin S
      PROVE  resources'[r] = resources[r]
  <2>1. r \notin HeldBy(S)
    BY <1>2 DEF HeldBy
  <2> QED BY <2>1, ReleaseEffect
<1>3. ASSUME NEW r \in Resource
      PROVE  /\ resources'[r].state = "active" <=> resources'[r].owner # None
             /\ resources'[r].owner # None =>
                   LET j == resources'[r].owner IN
                   /\ jobs'[j].state = "running"
                   /\ jobs'[j].resource = r
                   /\ jobs'[j].fence = resources'[r].fence
  <2>1. CASE resources[r].owner \in S
    BY <2>1, <1>1
  <2>2. CASE resources[r].owner \notin S
    <3>1. resources[r].owner # None => resources[r].owner \in Job
      BY DEF TypeOK, ResourceRow
    <3> QED BY <2>2, <3>1, <1>2 DEF LeaseOwnership
  <2> QED BY <2>1, <2>2
<1>4. ASSUME NEW j \in Job, jobs'[j].state = "running"
      PROVE  /\ NeedsLease(j) => jobs'[j].resource # None
             /\ jobs'[j].resource # None => resources'[jobs'[j].resource].owner = j
  <2>1. j \notin S /\ jobs'[j] = jobs[j]
    BY <1>4
  <2>2. jobs[j].resource # None => jobs[j].resource \in Resource
    BY DEF TypeOK, JobRow
  <2> QED BY <1>4, <2>1, <2>2, <1>2 DEF LeaseOwnership
<1> QED BY <1>3, <1>4 DEF LeaseOwnership, NeedsLease

\* Empty tables agree.
LEMMA InitLeases == Init => LeaseOwnership
BY DEF Init, LeaseOwnership

\* Every transaction that changes a lease changes both tables together.
LEMMA StepLeases == TypeOK /\ LeaseOwnership /\ [Next]_vars => LeaseOwnership'
<1> SUFFICES ASSUME TypeOK, LeaseOwnership, [Next]_vars PROVE LeaseOwnership'
  OBVIOUS
<1> USE NoneAssumption
<1>0. TypeOK'
  BY StepType
<1>t. \A c \in issued : c.job \in Job
  BY DEF TypeOK, Credential
<1>1. ASSUME NEW w \in Worker, NEW d \in Registrations, RegisterWorker(w, d)
      PROVE  LeaseOwnership'
  <2>1. \A r \in Resource : /\ resources'[r].owner = resources[r].owner
                            /\ resources'[r].fence = resources[r].fence
                            /\ \/ resources'[r].state = resources[r].state
                               \/ resources[r].state = "absent" /\ resources'[r].state = "available"
    BY <1>1 DEF RegisterWorker, TypeOK, ResourceRow
  <2>2. \A j \in Job : jobs[j].resource # None => jobs[j].resource \in Resource
    BY DEF TypeOK, JobRow
  <2>3. jobs' = jobs
    BY <1>1 DEF RegisterWorker
  <2>4. ASSUME NEW r \in Resource
        PROVE  /\ resources'[r].state = "active" <=> resources'[r].owner # None
               /\ resources'[r].owner # None =>
                     LET j == resources'[r].owner IN
                     /\ jobs'[j].state = "running"
                     /\ jobs'[j].resource = r
                     /\ jobs'[j].fence = resources'[r].fence
    BY <2>1, <2>3 DEF LeaseOwnership
  <2>5. ASSUME NEW j \in Job, jobs'[j].state = "running"
        PROVE  /\ NeedsLease(j) => jobs'[j].resource # None
               /\ jobs'[j].resource # None => resources'[jobs'[j].resource].owner = j
    BY <2>1, <2>2, <2>3, <2>5 DEF LeaseOwnership
  <2> QED BY <2>4, <2>5 DEF LeaseOwnership, NeedsLease
<1>2. ASSUME NEW j \in Job, \/ EnqueueJob(j)
                            \/ CancelJob(j) /\ jobs[j].state = "queued"
      PROVE  LeaseOwnership'
  <2>1. /\ resources' = resources
        /\ jobs[j].state # "running" /\ jobs'[j].state # "running"
        /\ \A k \in Job \ {j} : jobs'[k] = jobs[k]
    <3>1. CASE EnqueueJob(j)
      BY <3>1 DEF EnqueueJob, TypeOK, JobState, JobRow
    <3>2. CASE CancelJob(j) /\ jobs[j].state = "queued"
      <4>1. Unclaimed(jobs[j], "cancelled").state = "cancelled"
        BY UnclaimedType DEF TypeOK, JobState
      <4>2. jobs' = [jobs EXCEPT ![j] = Unclaimed(jobs[j], "cancelled")] /\ resources' = resources
        BY <3>2 DEF CancelJob
      <4> QED BY <3>2, <4>1, <4>2 DEF TypeOK
    <3> QED BY <1>2, <3>1, <3>2
  <2> QED BY <2>1, <1>0 DEF LeaseOwnership, NeedsLease, TypeOK, ResourceRow
<1>3. ASSUME NEW j \in Job, Expire(j) \/ (\E c \in issued : c.job = j /\ HeartbeatJob(c))
      PROVE  LeaseOwnership'
  <2>1. /\ resources' = resources
        /\ \E b \in BOOLEAN : jobs' = [jobs EXCEPT ![j] = [@ EXCEPT !.fresh = b]]
    <3>1. CASE Expire(j)
      BY <3>1 DEF Expire
    <3>2. ASSUME NEW c \in issued, c.job = j, HeartbeatJob(c)
          PROVE  resources' = resources /\ jobs' = [jobs EXCEPT ![j] = [@ EXCEPT !.fresh = TRUE]]
      BY <3>2 DEF HeartbeatJob
    <3> QED BY <1>3, <3>1, <3>2
  <2>2. /\ \A k \in Job : /\ jobs'[k].state = jobs[k].state
                          /\ jobs'[k].resource = jobs[k].resource
                          /\ jobs'[k].fence = jobs[k].fence
    BY <2>1 DEF TypeOK, JobRow
  <2> QED BY <2>1, <2>2 DEF LeaseOwnership, NeedsLease, TypeOK, ResourceRow
<1>4. ASSUME NEW j \in Job, CancelJob(j), jobs[j].state = "running" PROVE LeaseOwnership'
  <2>0. ReleaseResource({j}, FALSE)
    BY <1>4 DEF CancelJob
  <2>1. /\ jobs'[j].state = "cancelled"
        /\ \A k \in Job \ {j} : jobs'[k] = jobs[k]
    BY <1>4, UnclaimedType DEF CancelJob, TypeOK, JobState
  <2>2. /\ jobs' \in [Job -> JobRow]
        /\ \A k \in {j} : jobs'[k].state # "running"
        /\ {j} \in SUBSET Job
    BY <2>1, <1>0 DEF TypeOK
  <2> QED BY <2>0, <2>1, <2>2, ReleaseLeases
<1>5. ASSUME NEW w \in Worker, NEW j \in Job, ClaimPlainJob(w, j) PROVE LeaseOwnership'
  <2>1. /\ resources' = resources
        /\ jobs[j].state = "queued" /\ ~ NeedsLease(j)
        /\ jobs'[j].state = "running" /\ jobs'[j].resource = None
        /\ \A k \in Job \ {j} : jobs'[k] = jobs[k]
    BY <1>5 DEF ClaimPlainJob, Claimable, Claimed, TypeOK, JobRow
  <2> QED BY <2>1 DEF LeaseOwnership, NeedsLease, TypeOK, ResourceRow
<1>6. ASSUME NEW w \in Worker, NEW j \in Job, NEW r \in Resource, ClaimLeasedJob(w, j, r)
      PROVE  LeaseOwnership'
  <2>1. /\ jobs[j].state = "queued"
        /\ resources[r].state = "available"
        /\ jobs'[j].state = "running" /\ jobs'[j].resource = r
        /\ jobs'[j].fence = resources[r].fence + 1
        /\ resources'[r].state = "active" /\ resources'[r].owner = j
        /\ resources'[r].fence = resources[r].fence + 1
        /\ \A k \in Job \ {j} : jobs'[k] = jobs[k]
        /\ \A q \in Resource \ {r} : resources'[q] = resources[q]
    BY <1>6 DEF ClaimLeasedJob, Claimable, Claimed, TypeOK, JobRow, ResourceRow
  <2>2. resources[r].owner = None
    BY <2>1 DEF LeaseOwnership
  <2>3. /\ \A q \in Resource : resources[q].owner # None => resources[q].owner \in Job
        /\ \A k \in Job : jobs[k].resource # None => jobs[k].resource \in Resource
    BY DEF TypeOK, ResourceRow, JobRow
  <2> QED BY <2>1, <2>2, <2>3 DEF LeaseOwnership, NeedsLease
<1>7. ASSUME NEW c \in issued, NEW healthy \in BOOLEAN, CompleteJob(c, healthy)
      PROVE  LeaseOwnership'
  <2>1. /\ ReleaseResource({c.job}, healthy)
        /\ jobs'[c.job].state = "succeeded"
        /\ \A k \in Job \ {c.job} : jobs'[k] = jobs[k]
    BY <1>7, <1>t DEF CompleteJob, TypeOK, JobRow
  <2>2. /\ jobs' \in [Job -> JobRow]
        /\ \A k \in {c.job} : jobs'[k].state # "running"
        /\ {c.job} \in SUBSET Job
    BY <2>1, <1>0, <1>t DEF TypeOK
  <2> QED BY <2>1, <2>2, ReleaseLeases
<1>8. ASSUME NEW c \in issued, NEW retryable \in BOOLEAN, NEW healthy \in BOOLEAN,
             FailJob(c, retryable, healthy)
      PROVE  LeaseOwnership'
  <2>1. /\ ReleaseResource({c.job}, healthy)
        /\ jobs'[c.job].state \in {"queued", "failed"}
        /\ \A k \in Job \ {c.job} : jobs'[k] = jobs[k]
    BY <1>8, <1>t, UnclaimedType DEF FailJob, TypeOK, JobState
  <2>2. /\ jobs' \in [Job -> JobRow]
        /\ \A k \in {c.job} : jobs'[k].state # "running"
        /\ {c.job} \in SUBSET Job
    BY <2>1, <1>0, <1>t DEF TypeOK
  <2> QED BY <2>1, <2>2, ReleaseLeases
<1>9. ASSUME NEW S \in SUBSET Job, RecoverStaleJobs(S) PROVE LeaseOwnership'
  <2>1. /\ ReleaseResource(S, FALSE)
        /\ \A k \in S : jobs'[k].state \in {"queued", "failed"}
        /\ \A k \in Job \ S : jobs'[k] = jobs[k]
    BY <1>9, UnclaimedType DEF RecoverStaleJobs, TypeOK, JobState
  <2>2. /\ jobs' \in [Job -> JobRow]
        /\ \A k \in S : jobs'[k].state # "running"
    BY <2>1, <1>0 DEF TypeOK
  <2> QED BY <2>1, <2>2, ReleaseLeases
<1>10. ASSUME NEW r \in Resource, NEW healthy \in BOOLEAN,
              NEW token \in 0 .. resources[r].fence, ReportResourceCleanup(r, token, healthy)
       PROVE  LeaseOwnership'
  <2>1. /\ jobs' = jobs
        /\ resources[r].state = "quarantined"
        /\ resources'[r].state # "active" /\ resources'[r].owner = None
        /\ \A q \in Resource \ {r} : resources'[q] = resources[q]
    BY <1>10 DEF ReportResourceCleanup, TypeOK, ResourceRow
  <2>2. \A k \in Job : jobs[k].resource # None => jobs[k].resource \in Resource
    BY DEF TypeOK, JobRow
  <2> QED BY <2>1, <2>2 DEF LeaseOwnership, NeedsLease
<1>11. CASE UNCHANGED vars
  BY <1>11 DEF vars, LeaseOwnership, NeedsLease
<1> QED
  <2>1. ASSUME NEW j \in Job, CancelJob(j) PROVE LeaseOwnership'
    BY <2>1, <1>2, <1>4 DEF CancelJob
  <2>2. ASSUME NEW c \in issued, HeartbeatJob(c) PROVE LeaseOwnership'
    BY <2>2, <1>3, <1>t
  <2> QED BY <2>1, <2>2, <1>1, <1>2, <1>3, <1>5, <1>6, <1>7, <1>8, <1>9, <1>10, <1>11
          DEF Next

\* In every reachable state, for any number of jobs and devices, the jobs
\* table and the resources table agree about every lease.
THEOREM LeasesAgree == Spec => []LeaseOwnership
<1>1. Init => TypeOK /\ LeaseOwnership
  BY InitType, InitLeases
<1>2. TypeOK /\ LeaseOwnership /\ [Next]_vars => (TypeOK /\ LeaseOwnership)'
  BY StepType, StepLeases
<1> QED BY <1>1, <1>2, PTL DEF Spec

-----------------------------------------------------------------------------
(* Tokens.  What the properties about credentials rest on: claim tokens    *)
(* are fresh, a row's claim columns are those of the credential that       *)
(* carries its claim token, and fencing tokens only grow.                  *)

\* Every token in a table or in a credential is one uuid4() has returned.
TokensDrawn == /\ \A j \in Job : jobs[j].claim <= uuid
               /\ \A c \in issued : 0 < c.claim /\ c.claim <= uuid

\* A claim token names one claim.
ClaimsUnique == \A c, d \in issued : c.claim = d.claim => c = d

\* The claim columns of a row are the ones its claim returned.
RowsMatch == \A c \in issued : jobs[c.job].claim = c.claim =>
                 jobs[c.job].resource = c.resource /\ jobs[c.job].fence = c.fence

\* No credential carries a fencing token its resource has not reached.
FencesDrawn == \A c \in issued : c.resource # None => c.fence <= resources[c.resource].fence

TokenBook == TokensDrawn /\ ClaimsUnique /\ RowsMatch /\ FencesDrawn /\ TokensUnique

(* Clean hand-over: an available resource is one that was never leased or  *)
(* one whose last lease has been vouched for.                              *)
CleanBook == /\ \A r \in Resource :
                   /\ resources[r].state = "absent" => resources[r].fence = 0
                   /\ resources[r].state = "available" /\ resources[r].fence > 0
                        => <<r, resources[r].fence>> \in cleaned
             /\ CleanHandover

(* The retry budget, which claim_job does not check: a job that waits to   *)
(* be claimed always has an attempt left.                                  *)
Budget == \A j \in Job : /\ jobs[j].attempts <= JobSpec[j].max
                         /\ jobs[j].state \in {"absent", "queued"}
                              => jobs[j].attempts < JobSpec[j].max

\* A step that issues nothing: no token moves, claim columns are kept or cleared.
Quiet ==
    /\ issued' = issued /\ uuid' = uuid
    /\ \A j \in Job : \/ jobs'[j].claim = 0
                      \/ /\ jobs'[j].claim = jobs[j].claim
                         /\ jobs'[j].resource = jobs[j].resource
                         /\ jobs'[j].fence = jobs[j].fence
    /\ \A r \in Resource : resources'[r].fence = resources[r].fence

\* _release_resource never touches a fencing token.
LEMMA ReleaseKeepsFences ==
    ASSUME TypeOK, NEW S, NEW healthy \in BOOLEAN, ReleaseResource(S, healthy)
    PROVE  \A r \in Resource : resources'[r].fence = resources[r].fence
BY ReleaseEffect

\* Every transaction except a claim is quiet.
LEMMA StepShape ==
    TypeOK /\ [Next]_vars =>
       \/ Quiet
       \/ \E w \in Worker, j \in Job : ClaimPlainJob(w, j)
       \/ \E w \in Worker, j \in Job, r \in Resource : ClaimLeasedJob(w, j, r)
<1> SUFFICES ASSUME TypeOK, [Next]_vars,
                    ~ \E w \in Worker, j \in Job : ClaimPlainJob(w, j),
                    ~ \E w \in Worker, j \in Job, r \in Resource : ClaimLeasedJob(w, j, r)
             PROVE  Quiet
  OBVIOUS
<1>t. \A c \in issued : c.job \in Job
  BY DEF TypeOK, Credential
<1>1. ASSUME NEW w \in Worker, NEW d \in Registrations, RegisterWorker(w, d) PROVE Quiet
  BY <1>1 DEF RegisterWorker, Quiet, TypeOK, ResourceRow
<1>2. ASSUME NEW j \in Job, EnqueueJob(j) PROVE Quiet
  BY <1>2 DEF EnqueueJob, Quiet, TypeOK, JobRow
<1>3. ASSUME NEW j \in Job, Expire(j) PROVE Quiet
  BY <1>3 DEF Expire, Quiet, TypeOK, JobRow
<1>4. ASSUME NEW j \in Job, CancelJob(j) PROVE Quiet
  <2>1. jobs' = [jobs EXCEPT ![j] = Unclaimed(jobs[j], "cancelled")] /\ issued' = issued /\ uuid' = uuid
    BY <1>4 DEF CancelJob
  <2>2. Unclaimed(jobs[j], "cancelled").claim = 0
    BY UnclaimedType DEF TypeOK, JobState
  <2>3. \A r \in Resource : resources'[r].fence = resources[r].fence
    BY <1>4, ReleaseKeepsFences DEF CancelJob
  <2> QED BY <2>1, <2>2, <2>3 DEF Quiet, TypeOK
<1>5. ASSUME NEW c \in issued, HeartbeatJob(c) PROVE Quiet
  BY <1>5, <1>t DEF HeartbeatJob, Quiet, TypeOK, JobRow
<1>6. ASSUME NEW c \in issued, NEW healthy \in BOOLEAN, CompleteJob(c, healthy) PROVE Quiet
  <2>1. jobs' = [jobs EXCEPT ![c.job] = [@ EXCEPT !.state = "succeeded"]]
        /\ issued' = issued /\ uuid' = uuid
    BY <1>6 DEF CompleteJob
  <2>2. \A r \in Resource : resources'[r].fence = resources[r].fence
    BY <1>6, ReleaseKeepsFences DEF CompleteJob
  <2> QED BY <2>1, <2>2, <1>t DEF Quiet, TypeOK, JobRow
<1>7. ASSUME NEW c \in issued, NEW retryable \in BOOLEAN, NEW healthy \in BOOLEAN,
             FailJob(c, retryable, healthy)
      PROVE  Quiet
  <2>1. \E s \in JobState : jobs' = [jobs EXCEPT ![c.job] = Unclaimed(jobs[c.job], s)]
    BY <1>7 DEF FailJob, JobState
  <2>2. \A s \in JobState : Unclaimed(jobs[c.job], s).claim = 0
    BY <1>t, UnclaimedType DEF TypeOK
  <2>3. \A r \in Resource : resources'[r].fence = resources[r].fence
    BY <1>7, ReleaseKeepsFences DEF FailJob
  <2>4. issued' = issued /\ uuid' = uuid
    BY <1>7 DEF FailJob
  <2> QED BY <2>1, <2>2, <2>3, <2>4, <1>t DEF Quiet, TypeOK
<1>8. ASSUME NEW S \in SUBSET Job, RecoverStaleJobs(S) PROVE Quiet
  <2>1. \A j \in S : jobs'[j].claim = 0
    BY <1>8, UnclaimedType DEF RecoverStaleJobs, TypeOK, JobState
  <2>2. \A j \in Job \ S : jobs'[j] = jobs[j]
    BY <1>8 DEF RecoverStaleJobs
  <2>3. \A r \in Resource : resources'[r].fence = resources[r].fence
    BY <1>8, ReleaseKeepsFences DEF RecoverStaleJobs
  <2> QED BY <1>8, <2>1, <2>2, <2>3 DEF Quiet, RecoverStaleJobs
<1>9. ASSUME NEW r \in Resource, NEW healthy \in BOOLEAN,
             NEW token \in 0 .. resources[r].fence, ReportResourceCleanup(r, token, healthy)
      PROVE  Quiet
  BY <1>9 DEF ReportResourceCleanup, Quiet, TypeOK, ResourceRow
<1>10. CASE UNCHANGED vars
  BY <1>10 DEF vars, Quiet
<1> QED BY <1>1, <1>2, <1>3, <1>4, <1>5, <1>6, <1>7, <1>8, <1>9, <1>10 DEF Next

\* Nothing has been issued at first.
LEMMA InitTokens == Init => TokenBook
BY DEF Init, TokenBook, TokensDrawn, ClaimsUnique, RowsMatch, FencesDrawn, TokensUnique

\* A transaction that issues nothing and draws no token keeps the books.
LEMMA QuietTokens == TypeOK /\ TokenBook /\ Quiet => TokenBook'
<1> SUFFICES ASSUME TypeOK, TokenBook, Quiet PROVE TokenBook'
  OBVIOUS
<1>1. issued' = issued /\ uuid' = uuid /\ issued \subseteq Credential /\ uuid \in Nat
  BY DEF Quiet, TypeOK
<1>2. TokensDrawn'
  BY <1>1 DEF Quiet, TokenBook, TokensDrawn
<1>3. RowsMatch'
  <2> SUFFICES ASSUME NEW c \in issued, jobs'[c.job].claim = c.claim
               PROVE  jobs'[c.job].resource = c.resource /\ jobs'[c.job].fence = c.fence
    BY <1>1 DEF RowsMatch
  <2>1. c.job \in Job /\ c.claim # 0
    BY <1>1 DEF Credential, TokenBook, TokensDrawn
  <2> QED BY <2>1 DEF Quiet, TokenBook, RowsMatch
<1>4. FencesDrawn'
  BY <1>1 DEF Quiet, TokenBook, FencesDrawn, Credential
<1> QED BY <1>1, <1>2, <1>3, <1>4 DEF TokenBook, ClaimsUnique, TokensUnique

\* A claim issues one credential, under a claim token nobody has and, with a
\* lease, under a fencing token beyond every one issued for that resource.
LEMMA ClaimTokens ==
    ASSUME TypeOK, TokenBook, NEW w \in Worker, NEW j \in Job,
           NEW r \in Resource \cup {None}, NEW f \in Nat, Claimed(w, j, r, f),
           r # None => f = resources[r].fence + 1 /\ resources'[r].fence = f,
           \A q \in Resource : q # r => resources'[q].fence = resources[q].fence
    PROVE  TokenBook'
<1> USE NoneAssumption
<1>0. uuid \in Nat /\ uuid' = uuid + 1 /\ issued \subseteq Credential
  BY DEF Claimed, TypeOK
<1>1. PICK n \in Credential :
         /\ issued' = issued \cup {n}
         /\ n.claim = uuid + 1 /\ n.job = j /\ n.resource = r /\ n.fence = f
  <2> DEFINE c == [job |-> j, worker |-> w, claim |-> uuid + 1, resource |-> r, fence |-> f]
  <2>1. c \in Credential
    BY <1>0 DEF Credential
  <2>2. issued' = issued \cup {c}
    BY DEF Claimed
  <2> QED BY <2>1, <2>2
<1>2. /\ jobs'[j].claim = uuid + 1 /\ jobs'[j].resource = r /\ jobs'[j].fence = f
      /\ \A k \in Job \ {j} : jobs'[k] = jobs[k]
  BY DEF Claimed, TypeOK
<1>3. \A c \in issued :
         /\ c.claim \in Nat /\ c.claim <= uuid /\ 0 < c.claim
         /\ c.job \in Job /\ c.fence \in Nat
         /\ c.resource # None => /\ c.resource \in Resource
                                 /\ c.fence <= resources[c.resource].fence
                                 /\ resources[c.resource].fence \in Nat
  BY <1>0 DEF TokenBook, TokensDrawn, FencesDrawn, Credential, TypeOK, ResourceRow
<1>4. \A k \in Job : jobs[k].claim \in Nat /\ jobs[k].claim <= uuid
  BY DEF TokenBook, TokensDrawn, TypeOK, JobRow
<1>5. TokensDrawn'
  <2>1. \A k \in Job : jobs'[k].claim <= uuid'
    BY <1>0, <1>2, <1>4
  <2>2. \A c \in issued' : 0 < c.claim /\ c.claim <= uuid'
    BY <1>0, <1>1, <1>3
  <2> QED BY <2>1, <2>2 DEF TokensDrawn
<1>6. ClaimsUnique'
  BY <1>0, <1>1, <1>3 DEF ClaimsUnique, TokenBook
<1>7. RowsMatch'
  BY <1>0, <1>1, <1>2, <1>3 DEF RowsMatch, TokenBook
<1>8. FencesDrawn'
  BY <1>0, <1>1, <1>3 DEF FencesDrawn
<1>9. TokensUnique'
  BY <1>0, <1>1, <1>3 DEF TokensUnique, TokenBook
<1> QED BY <1>5, <1>6, <1>7, <1>8, <1>9 DEF TokenBook

\* The token books are kept by every transaction.
LEMMA StepTokens == TypeOK /\ TokenBook /\ [Next]_vars => TokenBook'
<1> SUFFICES ASSUME TypeOK, TokenBook, [Next]_vars PROVE TokenBook'
  OBVIOUS
<1> USE NoneAssumption
<1>1. ASSUME NEW w \in Worker, NEW j \in Job, ClaimPlainJob(w, j) PROVE TokenBook'
  <2>1. Claimed(w, j, None, 0) /\ resources' = resources
    BY <1>1 DEF ClaimPlainJob
  <2> QED BY <2>1, ClaimTokens
<1>2. ASSUME NEW w \in Worker, NEW j \in Job, NEW r \in Resource, ClaimLeasedJob(w, j, r)
      PROVE  TokenBook'
  <2>1. /\ Claimed(w, j, r, resources[r].fence + 1)
        /\ resources[r].fence + 1 \in Nat
        /\ resources'[r].fence = resources[r].fence + 1
        /\ \A q \in Resource : q # r => resources'[q].fence = resources[q].fence
    BY <1>2 DEF ClaimLeasedJob, TypeOK, ResourceRow
  <2> QED BY <2>1, ClaimTokens
<1> QED BY <1>1, <1>2, StepShape, QuietTokens

\* Of all the credentials ever issued, at most one at a time has authority
\* over a job or over a resource.
LEMMA AuthorityFromBooks == TypeOK /\ LeaseOwnership /\ TokenBook => SoleAuthority
<1> SUFFICES ASSUME TypeOK, LeaseOwnership, TokenBook, NEW c \in issued, NEW d \in issued,
                    AssertJobOwner(c), AssertJobOwner(d),
                    c.job = d.job \/ (c.resource = d.resource /\ c.resource # None)
             PROVE  c = d
  BY DEF SoleAuthority
<1>1. CASE c.job = d.job
  BY <1>1 DEF AssertJobOwner, TokenBook, ClaimsUnique
<1>2. CASE c.resource = d.resource /\ c.resource # None
  <2>1. jobs[c.job].resource = c.resource /\ jobs[d.job].resource = c.resource
    BY <1>2 DEF AssertJobOwner, TokenBook, RowsMatch
  <2>2. resources[c.resource].owner = c.job /\ resources[c.resource].owner = d.job
    BY <1>2, <2>1 DEF AssertJobOwner
  <2> QED BY <2>2, <1>1
<1> QED BY <1>1, <1>2

\* In every reachable state at most one credential passes _assert_job_owner for a
\* job and for a resource, and no claim or fencing token was ever issued twice.
THEOREM OneAuthority == Spec => [](SoleAuthority /\ TokensUnique)
<1>1. Init => TypeOK /\ LeaseOwnership /\ TokenBook
  BY InitType, InitLeases, InitTokens
<1>2. TypeOK /\ LeaseOwnership /\ TokenBook /\ [Next]_vars
         => (TypeOK /\ LeaseOwnership /\ TokenBook)'
  BY StepType, StepLeases, StepTokens
<1>3. TypeOK /\ LeaseOwnership /\ TokenBook => SoleAuthority /\ TokensUnique
  BY AuthorityFromBooks DEF TokenBook
<1> QED BY <1>1, <1>2, <1>3, PTL DEF Spec

-----------------------------------------------------------------------------
(* Clean hand-over.                                                        *)

\* Nothing has been handed over at first.
LEMMA InitClean == Init => CleanBook
BY DEF Init, CleanBook, CleanHandover

\* Evidence is never withdrawn.
LEMMA CleanGrows ==
    ASSUME issued' = issued, cleaned \subseteq cleaned', CleanHandover
    PROVE  CleanHandover'
BY DEF CleanHandover

\* A release that makes a resource available has evidence for its token.
LEMMA ReleaseClean ==
    ASSUME TypeOK, CleanBook, NEW S, NEW healthy \in BOOLEAN,
           ReleaseResource(S, healthy), issued' = issued
    PROVE  CleanBook'
<1>1. cleaned \subseteq cleaned'
  BY DEF ReleaseResource
<1>2. CleanHandover'
  BY <1>1, CleanGrows DEF CleanBook
<1>3. ASSUME NEW r \in Resource
      PROVE  /\ resources'[r].state = "absent" => resources'[r].fence = 0
             /\ resources'[r].state = "available" /\ resources'[r].fence > 0
                   => <<r, resources'[r].fence>> \in cleaned'
  <2>1. CASE r \in HeldBy(S)
    <3>1. healthy => <<r, resources[r].fence>> \in cleaned'
      BY <2>1 DEF ReleaseResource
    <3> QED BY <2>1, <3>1, ReleaseEffect
  <2>2. CASE r \notin HeldBy(S)
    BY <2>2, <1>1, ReleaseEffect DEF CleanBook
  <2> QED BY <2>1, <2>2
<1> QED BY <1>2, <1>3 DEF CleanBook

\* Every transaction keeps the record of evidence.
LEMMA StepClean == TypeOK /\ CleanBook /\ [Next]_vars => CleanBook'
<1> SUFFICES ASSUME TypeOK, CleanBook, [Next]_vars PROVE CleanBook'
  OBVIOUS
<1>1. ASSUME NEW w \in Worker, NEW d \in Registrations, RegisterWorker(w, d) PROVE CleanBook'
  <2>1. \A r \in Resource : \/ resources'[r] = resources[r]
                            \/ /\ resources[r].state = "absent"
                               /\ resources'[r].state = "available"
                               /\ resources'[r].fence = resources[r].fence
    BY <1>1 DEF RegisterWorker, TypeOK, ResourceRow
  <2>2. issued' = issued /\ cleaned' = cleaned
    BY <1>1 DEF RegisterWorker
  <2> QED BY <2>1, <2>2 DEF CleanBook, CleanHandover
<1>2. ASSUME resources' = resources, issued' = issued, cleaned' = cleaned PROVE CleanBook'
  BY <1>2 DEF CleanBook, CleanHandover
<1>3. ASSUME NEW j \in Job, CancelJob(j) PROVE CleanBook'
  BY <1>3, <1>2, ReleaseClean DEF CancelJob
<1>4. ASSUME NEW w \in Worker, NEW j \in Job, NEW r \in Resource \cup {None}, NEW f \in Nat,
             Claimed(w, j, r, f),
             r # None /\ f > 1 => <<r, f - 1>> \in cleaned
      PROVE  CleanHandover' /\ cleaned' = cleaned
  BY <1>4 DEF Claimed, CleanBook, CleanHandover
<1>5. ASSUME NEW w \in Worker, NEW j \in Job, ClaimPlainJob(w, j) PROVE CleanBook'
  <2>1. Claimed(w, j, None, 0) /\ resources' = resources
    BY <1>5 DEF ClaimPlainJob
  <2> QED BY <2>1, <1>4 DEF CleanBook
<1>6. ASSUME NEW w \in Worker, NEW j \in Job, NEW r \in Resource, ClaimLeasedJob(w, j, r)
      PROVE  CleanBook'
  <2>1. /\ Claimed(w, j, r, resources[r].fence + 1)
        /\ resources[r].state = "available"
        /\ resources[r].fence \in Nat
        /\ resources'[r].state = "active"
        /\ \A q \in Resource \ {r} : resources'[q] = resources[q]
    BY <1>6 DEF ClaimLeasedJob, TypeOK, ResourceRow
  <2> DEFINE f == resources[r].fence + 1
  <2>2. f \in Nat /\ f - 1 = resources[r].fence
    BY <2>1
  <2>3. f > 1 => <<r, f - 1>> \in cleaned
    BY <2>1, <2>2 DEF CleanBook
  <2>4. Claimed(w, j, r, f)
    BY <2>1
  <2> HIDE DEF f
  <2>5. CleanHandover' /\ cleaned' = cleaned
    BY <2>2, <2>3, <2>4, <1>4
  <2> QED BY <2>1, <2>5 DEF CleanBook
<1>7. ASSUME NEW r \in Resource, NEW healthy \in BOOLEAN,
             NEW token \in 0 .. resources[r].fence, ReportResourceCleanup(r, token, healthy)
      PROVE  CleanBook'
  <2>1. /\ issued' = issued /\ cleaned \subseteq cleaned'
        /\ resources'[r].fence = resources[r].fence
        /\ resources'[r].state = IF healthy THEN "available" ELSE "quarantined"
        /\ healthy => <<r, resources[r].fence>> \in cleaned'
        /\ \A q \in Resource \ {r} : resources'[q] = resources[q]
    BY <1>7 DEF ReportResourceCleanup, TypeOK, ResourceRow
  <2>2. CleanHandover'
    BY <2>1, CleanGrows DEF CleanBook
  <2> QED BY <2>1, <2>2 DEF CleanBook
<1>8. ASSUME NEW j \in Job, EnqueueJob(j) \/ Expire(j) PROVE CleanBook'
  BY <1>8, <1>2 DEF EnqueueJob, Expire
<1>9. ASSUME NEW c \in issued, HeartbeatJob(c) PROVE CleanBook'
  BY <1>9, <1>2 DEF HeartbeatJob
<1>10. ASSUME NEW c \in issued, NEW healthy \in BOOLEAN, CompleteJob(c, healthy) PROVE CleanBook'
  BY <1>10, ReleaseClean DEF CompleteJob
<1>11. ASSUME NEW c \in issued, NEW retryable \in BOOLEAN, NEW healthy \in BOOLEAN,
              FailJob(c, retryable, healthy)
       PROVE  CleanBook'
  BY <1>11, ReleaseClean DEF FailJob
<1>12. ASSUME NEW S \in SUBSET Job, RecoverStaleJobs(S) PROVE CleanBook'
  BY <1>12, ReleaseClean DEF RecoverStaleJobs
<1>13. CASE UNCHANGED vars
  BY <1>13, <1>2 DEF vars
<1> QED BY <1>1, <1>3, <1>5, <1>6, <1>7, <1>8, <1>9, <1>10, <1>11, <1>12, <1>13 DEF Next

\* No device changes hands uncleaned, however claims, reaps, cancellations
\* and cleanup reports interleave.
THEOREM HandoversClean == Spec => []CleanHandover
<1>1. Init => TypeOK /\ CleanBook
  BY InitType, InitClean
<1>2. TypeOK /\ CleanBook /\ [Next]_vars => (TypeOK /\ CleanBook)'
  BY StepType, StepClean
<1>3. CleanBook => CleanHandover
  BY DEF CleanBook
<1> QED BY <1>1, <1>2, <1>3, PTL DEF Spec

-----------------------------------------------------------------------------
(* The retry budget.                                                       *)

\* No attempt has been made at first.
LEMMA InitBudget == Init => Budget
BY JobSpecAssumption DEF Init, Budget, JobSpecType

\* What a step may do to one job, in terms of its state and attempts alone.
Move(j) ==
    \/ jobs'[j].state = jobs[j].state /\ jobs'[j].attempts = jobs[j].attempts
    \/ /\ jobs[j].state = "absent" /\ jobs'[j].state = "queued"
       /\ jobs'[j].attempts = jobs[j].attempts
    \/ /\ jobs[j].state = "queued" /\ jobs'[j].state = "running"
       /\ jobs'[j].attempts = jobs[j].attempts + 1
    \/ /\ jobs[j].state = "running" /\ jobs'[j].state \in {"succeeded", "failed"}
       /\ jobs'[j].attempts = jobs[j].attempts
    \/ /\ jobs[j].state = "running" /\ jobs'[j].state = "queued" /\ MayRetry(j)
       /\ jobs'[j].attempts = jobs[j].attempts
    \/ /\ jobs[j].state \in {"queued", "running"} /\ jobs'[j].state = "cancelled"
       /\ jobs'[j].attempts = jobs[j].attempts

\* fail_job and the reaper requeue a job only while attempts are left.
LEMMA LoseMoves ==
    ASSUME TypeOK, NEW j \in Job, jobs[j].state = "running", NEW b \in BOOLEAN,
           jobs'[j] = Unclaimed(jobs[j], IF b /\ MayRetry(j) THEN "queued" ELSE "failed")
    PROVE  Move(j)
<1>1. jobs[j] \in JobRow /\ "queued" \in JobState /\ "failed" \in JobState
  BY DEF TypeOK, JobState
<1>2. CASE b /\ MayRetry(j)
  BY <1>1, <1>2, UnclaimedType DEF Move
<1>3. CASE ~ (b /\ MayRetry(j))
  BY <1>1, <1>3, UnclaimedType DEF Move
<1> QED BY <1>2, <1>3

\* A claim takes one queued job, and counts the attempt.
LEMMA ClaimMoves ==
    ASSUME TypeOK, NEW w \in Worker, NEW j \in Job, NEW r, NEW f,
           jobs[j].state = "queued", Claimed(w, j, r, f)
    PROVE  \A k \in Job : Move(k)
BY DEF Claimed, Move, TypeOK

\* What a transaction may do to a job: wait, start, succeed, lose an attempt, be
\* cancelled.
LEMMA StepMoves == TypeOK /\ [Next]_vars => \A j \in Job : Move(j)
<1> SUFFICES ASSUME TypeOK, [Next]_vars PROVE \A j \in Job : Move(j)
  OBVIOUS
<1>t. \A c \in issued : c.job \in Job
  BY DEF TypeOK, Credential
<1>0. ASSUME jobs' = jobs PROVE \A j \in Job : Move(j)
  BY <1>0 DEF Move
<1>1. ASSUME NEW j \in Job, EnqueueJob(j) PROVE \A k \in Job : Move(k)
  BY <1>1 DEF EnqueueJob, Move, TypeOK, JobRow
<1>2. ASSUME NEW j \in Job, Expire(j) PROVE \A k \in Job : Move(k)
  BY <1>2 DEF Expire, Move, TypeOK, JobRow
<1>3. ASSUME NEW j \in Job, CancelJob(j) PROVE \A k \in Job : Move(k)
  <2>1. /\ Unclaimed(jobs[j], "cancelled").state = "cancelled"
        /\ Unclaimed(jobs[j], "cancelled").attempts = jobs[j].attempts
    BY UnclaimedType DEF TypeOK, JobState
  <2>2. jobs' = [jobs EXCEPT ![j] = Unclaimed(jobs[j], "cancelled")]
        /\ jobs[j].state \in {"queued", "running"}
    BY <1>3 DEF CancelJob
  <2> QED BY <2>1, <2>2 DEF Move, TypeOK
<1>4. ASSUME NEW w \in Worker, NEW j \in Job, ClaimPlainJob(w, j) PROVE \A k \in Job : Move(k)
  BY <1>4, ClaimMoves DEF ClaimPlainJob, Claimable
<1>5. ASSUME NEW w \in Worker, NEW j \in Job, NEW r \in Resource, ClaimLeasedJob(w, j, r)
      PROVE  \A k \in Job : Move(k)
  BY <1>5, ClaimMoves DEF ClaimLeasedJob, Claimable
<1>6. ASSUME NEW c \in issued, HeartbeatJob(c) PROVE \A k \in Job : Move(k)
  BY <1>6, <1>t DEF HeartbeatJob, Move, TypeOK, JobRow
<1>7. ASSUME NEW c \in issued, NEW healthy \in BOOLEAN, CompleteJob(c, healthy)
      PROVE  \A k \in Job : Move(k)
  <2>1. jobs' = [jobs EXCEPT ![c.job] = [@ EXCEPT !.state = "succeeded"]]
        /\ jobs[c.job].state = "running"
    BY <1>7 DEF CompleteJob, AssertJobOwner
  <2> QED BY <2>1, <1>t DEF Move, TypeOK, JobRow
<1>8. ASSUME NEW c \in issued, NEW retryable \in BOOLEAN, NEW healthy \in BOOLEAN,
             FailJob(c, retryable, healthy)
      PROVE  \A k \in Job : Move(k)
  <2>1. jobs[c.job].state = "running" /\ c.job \in Job
    BY <1>8, <1>t DEF FailJob, AssertJobOwner
  <2>2. /\ jobs'[c.job] = Unclaimed(jobs[c.job],
                             IF retryable /\ MayRetry(c.job) THEN "queued" ELSE "failed")
        /\ \A k \in Job \ {c.job} : jobs'[k] = jobs[k]
    BY <1>8, <2>1 DEF FailJob, TypeOK
  <2>3. Move(c.job)
    BY <2>1, <2>2, LoseMoves
  <2> QED BY <2>2, <2>3 DEF Move
<1>9. ASSUME NEW S \in SUBSET Job, RecoverStaleJobs(S) PROVE \A k \in Job : Move(k)
  <2>1. ASSUME NEW k \in S PROVE Move(k)
    <3>1. k \in Job /\ jobs[k].state = "running"
      BY <1>9 DEF RecoverStaleJobs, Stale
    <3>2. jobs'[k] = Unclaimed(jobs[k], IF TRUE /\ MayRetry(k) THEN "queued" ELSE "failed")
      BY <1>9, <3>1 DEF RecoverStaleJobs
    <3> QED BY <3>1, <3>2, LoseMoves
  <2>2. ASSUME NEW k \in Job \ S PROVE Move(k)
    BY <1>9 DEF RecoverStaleJobs, Move
  <2> QED BY <2>1, <2>2
<1> QED
  BY <1>0, <1>1, <1>2, <1>3, <1>4, <1>5, <1>6, <1>7, <1>8, <1>9
  DEF Next, vars, RegisterWorker, ReportResourceCleanup

\* A queued job has an attempt left, and no job has had too many.
LEMMA StepBudget == TypeOK /\ Budget /\ [Next]_vars => Budget'
<1> SUFFICES ASSUME TypeOK, Budget, [Next]_vars, NEW j \in Job
             PROVE  /\ jobs'[j].attempts <= JobSpec[j].max
                    /\ jobs'[j].state \in {"absent", "queued"}
                          => jobs'[j].attempts < JobSpec[j].max
  BY DEF Budget
<1>1. Move(j)
  BY StepMoves
<1>2. jobs[j].attempts \in Nat /\ JobSpec[j].max \in Nat
  BY JobSpecAssumption DEF TypeOK, JobRow, JobSpecType
<1> QED BY <1>1, <1>2 DEF Move, Budget, MayRetry

-----------------------------------------------------------------------------
(* The queue implements the abstract job.                                  *)

\* The empty jobs table is an initial state of JobLifecycle.
LEMMA InitLife == Init => Life!Init
BY DEF Init, Life!Init, phaseView, attemptsView

\* Every transaction is a step of JobLifecycle, or none.
LEMMA StepLife == TypeOK /\ Budget /\ [Next]_vars => [Life!Next]_(Life!vars)
<1> SUFFICES ASSUME TypeOK, Budget, [Next]_vars PROVE Life!Next
  BY DEF Life!vars
<1>1. TypeOK'
  BY StepType
<1>2. phaseView' \in [Job -> Life!Phase] /\ attemptsView' \in [Job -> Nat]
  BY <1>1 DEF TypeOK, JobRow, JobState, phaseView, attemptsView, Life!Phase
<1>3. ASSUME NEW j \in Job
      PROVE  \/ Life!Enqueue(j) \/ Life!Claim(j) \/ Life!Succeed(j)
             \/ Life!Lose(j) \/ Life!Cancel(j) \/ Life!Same(j)
  <2>1. /\ phaseView[j] = jobs[j].state /\ phaseView'[j] = jobs'[j].state
        /\ attemptsView[j] = jobs[j].attempts /\ attemptsView'[j] = jobs'[j].attempts
        /\ maxView[j] = JobSpec[j].max
    BY DEF phaseView, attemptsView, maxView
  <2>2. Move(j)
    BY StepMoves
  <2>3. jobs[j].state = "queued" => jobs[j].attempts < JobSpec[j].max
    BY DEF Budget
  <2> QED
    BY <2>1, <2>2, <2>3
    DEF Move, MayRetry, Life!Enqueue, Life!Claim, Life!Succeed, Life!Lose, Life!Cancel, Life!Same
<1> QED BY <1>2, <1>3 DEF Life!Next

\* For every set of jobs and every retry limit, the queue is an
\* implementation of JobLifecycle: attempts stay within max_attempts and
\* finished jobs never move.
THEOREM QueueImplementsLifecycle == Spec => ImplementsJobLifecycle
<1>1. Init => TypeOK /\ Budget
  BY InitType, InitBudget
<1>2. TypeOK /\ Budget /\ [Next]_vars => (TypeOK /\ Budget)'
  BY StepType, StepBudget
<1>3. Init => Life!Init
  BY InitLife
<1>4. TypeOK /\ Budget /\ [Next]_vars => [Life!Next]_(Life!vars)
  BY StepLife
<1> QED BY <1>1, <1>2, <1>3, <1>4, PTL DEF Spec, ImplementsJobLifecycle, Life!Spec

-----------------------------------------------------------------------------
(* The queue implements the abstract lease.                                *)

\* What a step may do to one resource.
LeaseMove(r) ==
    \/ resources'[r] = resources[r]
    \/ /\ resources[r].state = "absent" /\ resources'[r].state = "available"
       /\ resources'[r].owner = resources[r].owner
       /\ resources'[r].fence = resources[r].fence
    \/ /\ resources[r].state = "available" /\ resources'[r].state = "active"
       /\ resources'[r].owner \in Job
       /\ resources'[r].fence = resources[r].fence + 1
    \/ /\ resources[r].owner # None /\ resources'[r].owner = None
       /\ resources'[r].state \in {"available", "quarantined"}
       /\ resources'[r].fence = resources[r].fence
    \/ /\ resources[r].state = "quarantined" /\ resources'[r].owner = None
       /\ resources'[r].state \in {"available", "quarantined"}
       /\ resources'[r].fence = resources[r].fence

\* A release ends a lease in quarantine, or available with evidence.
LEMMA ReleaseMoves ==
    ASSUME TypeOK, NEW S \in SUBSET Job, NEW healthy \in BOOLEAN,
           ReleaseResource(S, healthy), NEW r \in Resource
    PROVE  LeaseMove(r)
<1>1. CASE r \in HeldBy(S)
  <2>1. resources[r].owner # None
    BY <1>1, NoneAssumption DEF HeldBy
  <2> QED BY <1>1, <2>1, ReleaseEffect DEF LeaseMove
<1>2. CASE r \notin HeldBy(S)
  BY <1>2, ReleaseEffect DEF LeaseMove
<1> QED BY <1>1, <1>2

\* What a transaction may do to a resource.
LEMMA StepLeaseMoves == TypeOK /\ [Next]_vars => \A r \in Resource : LeaseMove(r)
<1> SUFFICES ASSUME TypeOK, [Next]_vars, NEW r \in Resource PROVE LeaseMove(r)
  OBVIOUS
<1>t. \A c \in issued : c.job \in Job
  BY DEF TypeOK, Credential
<1>0. ASSUME resources' = resources PROVE LeaseMove(r)
  BY <1>0 DEF LeaseMove
<1>1. ASSUME NEW w \in Worker, NEW d \in Registrations, RegisterWorker(w, d) PROVE LeaseMove(r)
  BY <1>1 DEF RegisterWorker, LeaseMove, TypeOK, ResourceRow
<1>2. ASSUME NEW w \in Worker, NEW j \in Job, NEW q \in Resource, ClaimLeasedJob(w, j, q)
      PROVE  LeaseMove(r)
  BY <1>2 DEF ClaimLeasedJob, LeaseMove, TypeOK, ResourceRow
<1>3. ASSUME NEW q \in Resource, NEW healthy \in BOOLEAN,
             NEW token \in 0 .. resources[q].fence, ReportResourceCleanup(q, token, healthy)
      PROVE  LeaseMove(r)
  BY <1>3 DEF ReportResourceCleanup, LeaseMove, TypeOK, ResourceRow
<1>4. ASSUME NEW j \in Job, CancelJob(j) PROVE LeaseMove(r)
  BY <1>4, <1>0, ReleaseMoves DEF CancelJob
<1>5. ASSUME NEW c \in issued, NEW healthy \in BOOLEAN, CompleteJob(c, healthy) PROVE LeaseMove(r)
  BY <1>5, <1>t, ReleaseMoves DEF CompleteJob
<1>6. ASSUME NEW c \in issued, NEW retryable \in BOOLEAN, NEW healthy \in BOOLEAN,
             FailJob(c, retryable, healthy)
      PROVE  LeaseMove(r)
  BY <1>6, <1>t, ReleaseMoves DEF FailJob
<1>7. ASSUME NEW S \in SUBSET Job, RecoverStaleJobs(S) PROVE LeaseMove(r)
  BY <1>7, ReleaseMoves DEF RecoverStaleJobs
<1> QED
  BY <1>0, <1>1, <1>2, <1>3, <1>4, <1>5, <1>6, <1>7
  DEF Next, vars, EnqueueJob, Expire, ClaimPlainJob, HeartbeatJob

\* No resource row is a free resource of FencedLease that nobody vouched for.
LEMMA InitLease == Init => Lease!Init
<1> SUFFICES ASSUME Init PROVE Lease!Init
  OBVIOUS
<1>1. ASSUME NEW r \in Resource
      PROVE  leaseView[r] = [holder |-> None, epoch |-> 0, clean |-> TRUE]
  <2> DEFINE clean == resources[r].state \in {"absent", "available"}
  <2>1. leaseView[r] = [holder |-> None, epoch |-> 0, clean |-> clean]
    BY DEF Init, leaseView
  <2>2. clean = TRUE
    BY DEF Init
  <2> QED BY <2>1, <2>2
<1>2. leaseView = [r \in Resource |-> leaseView[r]]
  BY DEF leaseView
<1> QED BY <1>1, <1>2 DEF Lease!Init

\* Every transaction is a step of FencedLease, or none.
LEMMA StepLease == TypeOK /\ LeaseOwnership /\ [Next]_vars => [Lease!Next]_leaseView
<1> SUFFICES ASSUME TypeOK, LeaseOwnership, [Next]_vars PROVE Lease!Next
  OBVIOUS
<1> USE NoneAssumption
<1>1. TypeOK' /\ LeaseOwnership'
  BY StepType, StepLeases
<1>2. leaseView' \in [Resource -> Lease!LeaseType]
  BY <1>1 DEF TypeOK, ResourceRow, leaseView, Lease!LeaseType
<1>3. ASSUME NEW r \in Resource
      PROVE  Lease!Acquire(r) \/ Lease!Vacate(r) \/ Lease!Clean(r) \/ leaseView'[r] = leaseView[r]
  <2>1. /\ leaseView[r] = [holder |-> resources[r].owner, epoch |-> resources[r].fence,
                           clean |-> resources[r].state \in {"absent", "available"}]
        /\ leaseView'[r] = [holder |-> resources'[r].owner, epoch |-> resources'[r].fence,
                            clean |-> resources'[r].state \in {"absent", "available"}]
    BY DEF leaseView
  <2>2. LeaseMove(r)
    BY StepLeaseMoves
  <2>3. /\ resources[r].state = "active" <=> resources[r].owner # None
        /\ resources'[r].state = "active" <=> resources'[r].owner # None
    BY <1>1 DEF LeaseOwnership
  <2> DEFINE clean  == resources[r].state \in {"absent", "available"}
             cleanp == resources'[r].state \in {"absent", "available"}
  <2>4. /\ leaseView[r].holder = resources[r].owner
        /\ leaseView[r].epoch = resources[r].fence
        /\ leaseView[r].clean = clean
        /\ leaseView'[r] = [holder |-> resources'[r].owner, epoch |-> resources'[r].fence,
                            clean |-> cleanp]
    BY <2>1
  <2>5. CASE resources[r].state = "available" /\ resources'[r].state = "active"
    <3>1. clean = TRUE /\ cleanp = FALSE
      BY <2>5
    <3>2. /\ resources[r].owner = None
          /\ resources'[r].owner \in Job
          /\ resources'[r].fence = resources[r].fence + 1
      BY <2>2, <2>3, <2>5 DEF LeaseMove
    <3> HIDE DEF clean, cleanp
    <3> QED BY <2>4, <3>1, <3>2 DEF Lease!Acquire
  <2>6. CASE resources[r].owner # None /\ resources'[r].owner = None
    <3>1. cleanp \in BOOLEAN
      OBVIOUS
    <3>2. resources'[r].fence = resources[r].fence
      BY <2>2, <2>3, <2>6 DEF LeaseMove
    <3> HIDE DEF clean, cleanp
    <3> QED BY <2>4, <2>6, <3>1, <3>2 DEF Lease!Vacate
  <2>7. CASE resources[r].state = "quarantined" /\ resources'[r].state = "available"
    <3>1. cleanp = TRUE
      BY <2>7
    <3>2. /\ resources[r].owner = None /\ resources'[r].owner = None
          /\ resources'[r].fence = resources[r].fence
      BY <2>2, <2>3, <2>7 DEF LeaseMove
    <3> HIDE DEF clean, cleanp
    <3> QED BY <2>4, <3>1, <3>2 DEF Lease!Clean
  <2>8. CASE /\ clean = cleanp
             /\ resources'[r].owner = resources[r].owner
             /\ resources'[r].fence = resources[r].fence
    BY <2>1, <2>8
  <2>9. \/ resources[r].state = "available" /\ resources'[r].state = "active"
        \/ resources[r].owner # None /\ resources'[r].owner = None
        \/ resources[r].state = "quarantined" /\ resources'[r].state = "available"
        \/ /\ clean = cleanp
           /\ resources'[r].owner = resources[r].owner
           /\ resources'[r].fence = resources[r].fence
    BY <2>2, <2>3 DEF LeaseMove
  <2> QED BY <2>5, <2>6, <2>7, <2>8, <2>9
<1> QED BY <1>2, <1>3 DEF Lease!Next

\* The queue is an implementation of FencedLease: one holder, epochs that
\* only grow, no acquisition of a device nobody vouched for.
THEOREM QueueImplementsLease == Spec => ImplementsFencedLease
<1>1. Init => TypeOK /\ LeaseOwnership
  BY InitType, InitLeases
<1>2. TypeOK /\ LeaseOwnership /\ [Next]_vars => (TypeOK /\ LeaseOwnership)'
  BY StepType, StepLeases
<1>3. Init => Lease!Init
  BY InitLease
<1>4. TypeOK /\ LeaseOwnership /\ [Next]_vars => [Lease!Next]_leaseView
  BY StepLease
<1> QED BY <1>1, <1>2, <1>3, <1>4, PTL DEF Spec, ImplementsFencedLease, Lease!Spec

-----------------------------------------------------------------------------
(* The queue's part of the invariant, and that all its jobs are leased ones. *)
QueueInv == /\ TypeOK /\ LeaseOwnership /\ TokenBook
            /\ \A c \in issued : c.resource \in Resource

(* A thread speaks of a credential that it was given. *)
ThreadsOK ==
    /\ \A w \in Worker :
          IF main[w].pc = "idle" THEN main[w].cred = None
          ELSE main[w].cred \in issued /\ main[w].cred.worker = w
    /\ \A w \in Worker : main[w].pc \in {"first", "check", "run", "exec", "sweep"}
                            => main[w].left # 0
    /\ \A b \in beats : b.cred \in issued
    /\ net \subseteq [kind : {"complete", "fail", "report"}, cred : issued, healthy : BOOLEAN]

\* Is c the lease that its device is, or was last, under?
Current(c) == c.fence = resources[c.resource].fence

Empty(r) == \A k \in containers : k.resource # r

\* A worker that has not yet spoken of its containers: the device is still its
\* own, leased or quarantined, since nobody else can have vouched for it.
Silent == {"first", "check", "run", "exec", "sweep", "after", "join", "final"}

StillHeld ==
    \A w \in Worker : main[w].pc \in Silent =>
        LET c == main[w].cred
        IN  /\ Current(c)
            /\ resources[c.resource].state \in {"active", "quarantined"}
            /\ \A m \in net : m.cred # c

\* A worker that is about to vouch for its device, and a request that does,
\* tell the truth, unless the device is under another lease by now.
TruthKnown ==
    \A w \in Worker :
        main[w].pc \in {"after", "join", "final", "failing"} /\ main[w].healthy
            /\ Current(main[w].cred)
        => Empty(main[w].cred.resource)

TruthTold == \A m \in net : m.healthy /\ Current(m.cred) => Empty(m.cred.resource)

(* The inductive invariant. *)
WorkerInv == /\ QueueInv /\ WTypeOK /\ ThreadsOK
             /\ StillHeld /\ TruthKnown /\ TruthTold /\ DeviceExclusive

-----------------------------------------------------------------------------
(* The queue below the workers.                                            *)

LEMMA WorkersStart == WInit => QueueInv
<1> SUFFICES ASSUME WInit PROVE QueueInv
  OBVIOUS
<1>1. TypeOK
  BY DEF WInit, TypeOK, JobRow, JobState, ResourceRow
<1>2. LeaseOwnership
  BY DEF WInit, LeaseOwnership
<1>3. TokenBook
  BY DEF WInit, TokenBook, TokensDrawn, ClaimsUnique, RowsMatch, FencesDrawn, TokensUnique
<1> QED
  BY <1>1, <1>2, <1>3 DEF QueueInv, WInit

\* Whatever the workers do, the tables change by the queue's transactions.
LEMMA QueueSteps == QueueInv /\ ThreadsOK /\ [WNext]_wvars => [Next]_vars
<1> SUFFICES ASSUME QueueInv, ThreadsOK, WNext PROVE [Next]_vars
  BY DEF wvars
<1>1. ASSUME NEW w \in Worker, NEW j \in Job, NEW r \in Resource, WClaim(w, j, r)
      PROVE  Next
  BY <1>1 DEF WClaim, Next
<1>2. ASSUME NEW w \in Worker, MainStep(w) \/ Crash(w)
      PROVE  UNCHANGED vars
  BY <1>2 DEF MainStep, Crash, FirstHeartbeat, RequireLiveLease, Launch, ExecutionEnds, Sweep,
              AfterHandler, JoinHeartbeat, SendComplete, CleanupJob, Answered, TimeOut
<1>3. ASSUME NEW b \in beats,
             BeatWakes(b) \/ BeatSends(b) \/ BeatCancels(b) \/ BeatKills(b) \/ BeatFences(b)
      PROVE  UNCHANGED vars
  BY <1>3 DEF BeatWakes, BeatSends, BeatCancels, BeatKills, BeatFences
<1>4. ASSUME NEW m \in net, Deliver(m) \/ Drop(m)
      PROVE  [Next]_vars
  <2>1. m.cred \in issued /\ m.healthy \in BOOLEAN /\ m.cred.resource \in Resource
    BY DEF ThreadsOK, QueueInv
  <2>2. ASSUME CompleteJob(m.cred, m.healthy) \/ FailJob(m.cred, TRUE, m.healthy)
        PROVE  Next
    BY <2>1, <2>2 DEF Next
  <2>3. ASSUME ReportResourceCleanup(m.cred.resource, m.cred.fence, m.healthy)
        PROVE  Next
    <3>1. m.cred.fence \in 0 .. resources[m.cred.resource].fence
      BY <2>1, <2>3 DEF ReportResourceCleanup, QueueInv, TypeOK, ResourceRow
    <3> QED
      BY <2>1, <2>3, <3>1 DEF Next
  <2> QED
    BY <1>4, <2>2, <2>3 DEF Deliver, Drop
<1>5. ASSUME NEW r \in Resource, OperatorCleans(r)
      PROVE  Next
  <2>1. resources[r].fence \in 0 .. resources[r].fence
    BY DEF QueueInv, TypeOK, ResourceRow
  <2>2. ReportResourceCleanup(r, resources[r].fence, TRUE)
    BY <1>5 DEF OperatorCleans
  <2> QED
    BY <2>1, <2>2 DEF Next
<1>6. CASE Server
  BY <1>6 DEF Server, Next
<1>7. CASE \E k \in containers : ContainerExits(k)
  BY <1>7 DEF ContainerExits
<1> QED
  BY <1>1, <1>2, <1>3, <1>4, <1>5, <1>6, <1>7 DEF WNext

\* What a step may do to a device that it does not lease out: nothing, take it
\* from its holder, or free it.
Kept(r)  == /\ resources'[r].fence = resources[r].fence
            /\ \/ resources'[r].state = resources[r].state
               \/ resources[r].state = "active" /\ resources'[r].state = "quarantined"
Freed(r) == /\ resources'[r].fence = resources[r].fence
            /\ resources'[r].state = "available"

\* A released lease is freed only with healthy evidence.
LEMMA ReleaseKeeps ==
  ASSUME QueueInv, NEW S, NEW healthy \in BOOLEAN, ReleaseResource(S, healthy), None \notin S,
         NEW r \in Resource
  PROVE  Kept(r) \/ (Freed(r) /\ healthy /\ r \in HeldBy(S))
<1>1. TypeOK /\ LeaseOwnership
  BY DEF QueueInv
<1>2. CASE r \in HeldBy(S)
  <2>1. resources[r].owner # None
    BY <1>2 DEF HeldBy
  <2>2. resources[r].state = "active"
    BY <1>1, <2>1 DEF LeaseOwnership
  <2> QED
    BY <1>1, <1>2, <2>2, ReleaseEffect DEF Kept, Freed
<1>3. CASE r \notin HeldBy(S)
  BY <1>1, <1>3, ReleaseEffect DEF Kept
<1> QED
  BY <1>2, <1>3

\* A request that is accepted ends the lease that its credential was given for.
LEMMA OwnerIsCurrent ==
  ASSUME QueueInv, NEW c \in issued, AssertJobOwner(c)
  PROVE  Current(c) /\ \A r \in Resource : r \in HeldBy({c.job}) => r = c.resource
<1>1. c.job \in Job /\ c.resource \in Resource
  BY DEF QueueInv, TypeOK, Credential
<1>2. jobs[c.job].resource = c.resource
  BY DEF QueueInv, TokenBook, RowsMatch, AssertJobOwner
<1>3. Current(c)
  BY <1>1, <1>2, NoneAssumption DEF AssertJobOwner, Current
<1> QED
  BY <1>2, <1>3 DEF HeldBy

LEMMA DeliverEffect ==
  ASSUME QueueInv, ThreadsOK, NEW m \in net, Deliver(m), NEW r \in Resource
  PROVE  /\ issued' = issued
         /\ Kept(r) \/ (Freed(r) /\ m.healthy /\ m.cred.resource = r /\ Current(m.cred))
<1>0. m.cred \in issued /\ m.healthy \in BOOLEAN /\ m.cred.resource \in Resource
      /\ m.cred.job # None
  BY NoneAssumption DEF ThreadsOK, QueueInv, TypeOK, Credential
<1>1. CASE CompleteJob(m.cred, m.healthy) \/ FailJob(m.cred, TRUE, m.healthy)
  <2>1. AssertJobOwner(m.cred) /\ ReleaseResource({m.cred.job}, m.healthy) /\ issued' = issued
    BY <1>1 DEF CompleteJob, FailJob
  <2>2. Kept(r) \/ (Freed(r) /\ m.healthy /\ r \in HeldBy({m.cred.job}))
    BY <1>0, <2>1, ReleaseKeeps
  <2> QED
    BY <1>0, <2>1, <2>2, OwnerIsCurrent
<1>2. CASE ReportResourceCleanup(m.cred.resource, m.cred.fence, m.healthy)
  <2>1. resources \in [Resource -> ResourceRow]
    BY DEF QueueInv, TypeOK
  <2>2. Current(m.cred) /\ issued' = issued
    BY <1>2 DEF ReportResourceCleanup, Current
  <2>3. resources[m.cred.resource].state = "quarantined"
    BY <1>2 DEF ReportResourceCleanup
  <2>4. resources' = [resources EXCEPT ![m.cred.resource] =
          [@ EXCEPT !.state = IF m.healthy THEN "available" ELSE "quarantined", !.owner = None]]
    BY <1>2 DEF ReportResourceCleanup
  <2>5. CASE r # m.cred.resource
    BY <2>1, <2>2, <2>4, <2>5, <1>0 DEF Kept
  <2>6. CASE r = m.cred.resource
    BY <2>1, <2>2, <2>3, <2>4, <2>6, <1>0 DEF Kept, Freed, ResourceRow
  <2> QED
    BY <2>2, <2>5, <2>6
<1>3. CASE UNCHANGED vars
  BY <1>3 DEF vars, Kept
<1> QED
  BY <1>1, <1>2, <1>3 DEF Deliver

LEMMA OperatorEffect ==
  ASSUME QueueInv, NEW r \in Resource, OperatorCleans(r), NEW s \in Resource
  PROVE  /\ issued' = issued
         /\ Kept(s) \/ (Freed(s) /\ s = r)
<1>1. resources \in [Resource -> ResourceRow]
  BY DEF QueueInv, TypeOK
<1>2. /\ issued' = issued
      /\ resources' = [resources EXCEPT ![r] =
           [@ EXCEPT !.state = IF TRUE THEN "available" ELSE "quarantined", !.owner = None]]
  BY DEF OperatorCleans, ReportResourceCleanup
<1>3. CASE s # r
  BY <1>1, <1>2, <1>3 DEF Kept
<1>4. CASE s = r
  BY <1>1, <1>2, <1>4 DEF Freed, ResourceRow
<1> QED
  BY <1>2, <1>3, <1>4

LEMMA ServerEffect ==
  ASSUME QueueInv, Server, NEW r \in Resource
  PROVE  issued' = issued /\ Kept(r)
<1>1. ASSUME NEW S \in SUBSET Job, RecoverStaleJobs(S)
      PROVE  issued' = issued /\ Kept(r)
  <2>1. issued' = issued /\ ReleaseResource(S, FALSE) /\ None \notin S
    BY <1>1, NoneAssumption DEF RecoverStaleJobs
  <2> QED
    BY <2>1, ReleaseKeeps
<1>2. ASSUME NEW j \in Job, CancelJob(j)
      PROVE  issued' = issued /\ Kept(r)
  <2>1. issued' = issued /\ (ReleaseResource({j}, FALSE) \/ resources' = resources)
    BY <1>2 DEF CancelJob
  <2>2. None \notin {j}
    BY NoneAssumption
  <2> QED
    BY <2>1, <2>2, ReleaseKeeps DEF Kept
<1> QED
  BY <1>1, <1>2 DEF Server

\* A claim takes a device that was free under a token nobody has.
Leases(w, r, c) ==
  /\ c.worker = w /\ c.resource = r /\ c \notin issued /\ issued' = issued \cup {c}
  /\ resources[r].state = "available" /\ resources'[r].state = "active"
  /\ c.fence = resources'[r].fence
  /\ \A d \in issued : d.resource = r => d.fence < resources'[r].fence
  /\ \A s \in Resource : s # r => resources'[s] = resources[s]

LEMMA ClaimEffect ==
  ASSUME QueueInv, NEW w \in Worker, NEW j \in Job, NEW r \in Resource, ClaimLeasedJob(w, j, r)
  PROVE  \E c \in Credential : Leases(w, r, c)
<1> DEFINE c == [job |-> j, worker |-> w, claim |-> uuid + 1, resource |-> r,
                 fence |-> resources[r].fence + 1]
<1>1. resources \in [Resource -> ResourceRow] /\ uuid \in Nat /\ resources[r].fence \in Nat
  BY DEF QueueInv, TypeOK, ResourceRow
<1>2. c \in Credential
  BY <1>1 DEF Credential
<1>3. /\ issued' = issued \cup {c} /\ resources[r].state = "available"
      /\ resources' = [resources EXCEPT ![r] = [state |-> "active", owner |-> j,
                                                fence |-> @.fence + 1]]
  BY DEF ClaimLeasedJob, Claimed
<1>4. \A d \in issued : d.resource = r => d.fence \in Nat /\ d.fence <= resources[r].fence
  BY NoneAssumption DEF QueueInv, TokenBook, FencesDrawn, TypeOK, Credential
<1>5. c \notin issued
  BY <1>1, <1>4
<1> QED
  BY <1>1, <1>2, <1>3, <1>4, <1>5 DEF Leases

LEMMA QueueStays == QueueInv /\ ThreadsOK /\ [WNext]_wvars => QueueInv'
<1> SUFFICES ASSUME QueueInv, ThreadsOK, [WNext]_wvars PROVE QueueInv'
  OBVIOUS
<1>1. (TypeOK /\ LeaseOwnership /\ TokenBook)'
  BY QueueSteps, StepType, StepLeases, StepTokens DEF QueueInv
<1>2. \A c \in issued' : c.resource \in Resource
  <2>1. ASSUME NEW w \in Worker, NEW j \in Job, NEW r \in Resource, WClaim(w, j, r)
        PROVE  \A c \in issued' : c.resource \in Resource
    <3>1. ClaimLeasedJob(w, j, r)
      BY <2>1 DEF WClaim
    <3>2. PICK c \in Credential : Leases(w, r, c)
      BY <3>1, ClaimEffect
    <3> QED
      BY <3>2 DEF QueueInv, Leases
  <2>2. ASSUME NEW m \in net, Deliver(m) PROVE issued' = issued
    BY <2>2 DEF Deliver, CompleteJob, FailJob, ReportResourceCleanup, vars
  <2>3. ASSUME NEW r \in Resource, OperatorCleans(r) PROVE issued' = issued
    BY <2>3 DEF OperatorCleans, ReportResourceCleanup
  <2>4. ASSUME Server PROVE issued' = issued
    BY <2>4 DEF Server, RecoverStaleJobs, CancelJob
  <2>5. CASE UNCHANGED vars
    BY <2>5 DEF vars, QueueInv
  <2>6. ASSUME NEW w \in Worker, MainStep(w) \/ Crash(w) PROVE UNCHANGED vars
    BY <2>6 DEF MainStep, Crash, FirstHeartbeat, RequireLiveLease, Launch, ExecutionEnds, Sweep,
                AfterHandler, JoinHeartbeat, SendComplete, CleanupJob, Answered, TimeOut
  <2>7. ASSUME NEW b \in beats,
               BeatWakes(b) \/ BeatSends(b) \/ BeatCancels(b) \/ BeatKills(b) \/ BeatFences(b)
        PROVE  UNCHANGED vars
    BY <2>7 DEF BeatWakes, BeatSends, BeatCancels, BeatKills, BeatFences
  <2>8. ASSUME (\E k \in containers : ContainerExits(k)) \/ (\E m \in net : Drop(m))
        PROVE  UNCHANGED vars
    BY <2>8 DEF ContainerExits, Drop
  <2>9. UNCHANGED wvars => UNCHANGED vars
    BY DEF wvars
  <2> QED
    BY <2>1, <2>2, <2>3, <2>4, <2>5, <2>6, <2>7, <2>8, <2>9 DEF QueueInv, WNext
<1> QED
  BY <1>1, <1>2 DEF QueueInv

-----------------------------------------------------------------------------
(* The threads, the containers and the net: types and credentials.         *)

\* What ThreadsOK and WTypeOK say of one worker.
WorkerOK(w) ==
  /\ main[w] \in MainType
  /\ IF main[w].pc = "idle" THEN main[w].cred = None
     ELSE main[w].cred \in issued /\ main[w].cred.worker = w
  /\ main[w].pc \in {"first", "check", "run", "exec", "sweep"} => main[w].left # 0

RestOK ==
  /\ main \in [Worker -> MainType]
  /\ beats \subseteq BeatType /\ \A b \in beats : b.cred \in issued
  /\ \A k \in containers : k.resource \in Resource /\ k.fence \in Nat
  /\ net \subseteq [kind : {"complete", "fail", "report"}, cred : issued, healthy : BOOLEAN]

LEMMA TypesSplit == TypeOK => (WTypeOK /\ ThreadsOK <=> (\A w \in Worker : WorkerOK(w)) /\ RestOK)
BY DEF WTypeOK, ThreadsOK, WorkerOK, RestOK

\* The idle record and the credentials of its threads are of their types.
LEMMA IdleOK == Idle \in MainType /\ Idle.pc = "idle" /\ Idle.cred = None
BY LaunchesAssumption DEF Idle, MainType, MainPC

\* One worker's thread moves, and may send a request or start a container.
LEMMA MainTypes ==
  ASSUME QueueInv, WTypeOK, ThreadsOK, NEW w \in Worker, MainStep(w) \/ Crash(w)
  PROVE  (\A v \in Worker : WorkerOK(v))' /\ RestOK'
<1>1. issued' = issued
  BY DEF MainStep, Crash, FirstHeartbeat, RequireLiveLease, Launch, ExecutionEnds, Sweep,
         AfterHandler, JoinHeartbeat, SendComplete, CleanupJob, Answered, TimeOut, vars
<1>2. main[w] \in MainType /\ (\A v \in Worker : WorkerOK(v)) /\ RestOK
  BY TypesSplit DEF WTypeOK
<1>3. main[w].pc # "idle" => main[w].cred \in issued /\ main[w].cred \in Credential
                             /\ main[w].cred.resource \in Resource /\ main[w].cred.fence \in Nat
  BY <1>2 DEF WorkerOK, QueueInv, TypeOK, Credential
<1>4. \A v \in Worker : v # w => main'[v] = main[v]
  BY <1>2 DEF RestOK, MainStep, Crash, FirstHeartbeat, RequireLiveLease, Launch, ExecutionEnds,
         Sweep, AfterHandler, JoinHeartbeat, SendComplete, CleanupJob, Answered, TimeOut, Goto, End
<1> USE DEF Awaiting
<1>5. main' \in [Worker -> MainType] /\ WorkerOK(w)'
  <2>1. ASSUME NEW pc \in MainPC \ {"idle"}, main[w].pc # "idle", Goto(w, pc),
               pc \in {"first", "check", "run", "exec", "sweep"} =>
                 main[w].pc \in {"first", "check", "run", "exec", "sweep"}
        PROVE  main' \in [Worker -> MainType] /\ WorkerOK(w)'
    BY <1>1, <1>2, <2>1 DEF Goto, WorkerOK, RestOK, MainType
  <2>2. CASE \/ FirstHeartbeat(w) \/ RequireLiveLease(w) \/ Launch(w) \/ ExecutionEnds(w)
             \/ AfterHandler(w) \/ JoinHeartbeat(w) \/ SendComplete(w)
    <3>1. \E pc \in MainPC \ {"idle"} :
            /\ main[w].pc # "idle" /\ Goto(w, pc)
            /\ pc \in {"first", "check", "run", "exec", "sweep"} =>
                 main[w].pc \in {"first", "check", "run", "exec", "sweep"}
      BY <2>2 DEF FirstHeartbeat, RequireLiveLease, Launch, ExecutionEnds, AfterHandler,
                  JoinHeartbeat, SendComplete, MainPC
    <3> QED
      BY <2>1, <3>1
  <2>3. CASE Sweep(w)
    <3>1. main[w].left \in 0 .. Launches /\ main[w].left # 0 /\ main[w].pc = "sweep"
      BY <1>2, <2>3 DEF Sweep, WorkerOK, MainType
    <3>2. PICK healthy \in BOOLEAN, pc \in {"cleanup", IF main[w].left = 1 THEN "after" ELSE "check"} :
            main' = [main EXCEPT ![w].healthy = healthy, ![w].left = @ - 1, ![w].pc = pc]
      BY <2>3 DEF Sweep
    <3>3. main[w].left - 1 \in 0 .. Launches /\ (pc = "check" => main[w].left - 1 # 0)
      BY <3>1, <3>2, LaunchesAssumption
    <3> DEFINE row == [main[w] EXCEPT !.healthy = healthy, !.left = @ - 1, !.pc = pc]
    <3>4. row \in MainType
      BY <1>2, <3>2, <3>3 DEF MainType, MainPC
    <3>5. row.cred = main[w].cred /\ row.pc = pc /\ row.left = main[w].left - 1
      BY <1>2 DEF MainType
    <3>6. main' = [main EXCEPT ![w] = row]
      BY <1>2, <3>2 DEF RestOK
    <3> HIDE DEF row
    <3>7. main' \in [Worker -> MainType] /\ main'[w] = row
      BY <1>2, <3>4, <3>6 DEF RestOK
    <3>8. pc # "idle" /\ pc \notin {"first", "run", "exec", "sweep"}
      BY <3>2
    <3> QED
      BY <1>1, <1>2, <3>1, <3>3, <3>4, <3>5, <3>7, <3>8 DEF WorkerOK
  <2>4. CASE CleanupJob(w)
    <3>1. PICK healthy \in BOOLEAN :
            main' = [main EXCEPT ![w].pc = "failing", ![w].healthy = healthy, ![w].answer = "none"]
      BY <2>4 DEF CleanupJob
    <3>2. main[w].pc # "idle"
      BY <2>4 DEF CleanupJob
    <3> QED
      BY <1>1, <1>2, <3>1, <3>2 DEF WorkerOK, RestOK, MainType, MainPC
  <2>5. CASE Answered(w) \/ TimeOut(w)
    <3>1. main[w].pc # "idle"
      BY <2>5 DEF Answered, TimeOut
    <3>2. \/ main' = [main EXCEPT ![w] = Idle]
          \/ main' = [main EXCEPT ![w].pc = "cleanup"]
          \/ main' = [main EXCEPT ![w].pc = "reporting", ![w].answer = "none"]
      BY <2>5 DEF Answered, TimeOut, End, Goto
    <3> QED
      BY <1>1, <1>2, <3>1, <3>2, IdleOK DEF WorkerOK, RestOK, MainType, MainPC
  <2>6. CASE Crash(w)
    BY <1>1, <1>2, <2>6, IdleOK DEF Crash, WorkerOK, RestOK
  <2> QED
    BY <2>2, <2>3, <2>4, <2>5, <2>6 DEF MainStep
<1>6. beats' \subseteq BeatType /\ \A b \in beats' : b.cred \in issued
  <2>1. CASE beats' \subseteq beats
    BY <1>2, <2>1 DEF RestOK
  <2>2. CASE beats' = beats \cup {[cred |-> main[w].cred, pc |-> "wait", stop |-> FALSE]}
             /\ main[w].pc # "idle"
    <3> DEFINE started == [cred |-> main[w].cred, pc |-> "wait", stop |-> FALSE]
    <3>1. started \in BeatType /\ started.cred \in issued
      BY <1>3, <2>2 DEF BeatType
    <3>2. beats' = beats \cup {started}
      BY <2>2
    <3> HIDE DEF started
    <3> QED
      BY <1>2, <3>1, <3>2 DEF RestOK
  <2>3. CASE beats' = {IF b.cred = main[w].cred THEN [b EXCEPT !.stop = TRUE] ELSE b : b \in beats}
    BY <1>2, <2>3 DEF RestOK, BeatType
  <2> QED
    BY <2>1, <2>2, <2>3 DEF MainStep, Crash, FirstHeartbeat, RequireLiveLease, Launch,
       ExecutionEnds, Sweep, AfterHandler, JoinHeartbeat, SendComplete, CleanupJob, Answered,
       TimeOut, End
<1>7. \A k \in containers' : k.resource \in Resource /\ k.fence \in Nat
  <2>1. CASE containers' \subseteq containers
    BY <1>2, <2>1 DEF RestOK
  <2>2. CASE containers' = containers \cup {Container(main[w])} /\ main[w].pc # "idle"
    BY <1>2, <1>3, <2>2 DEF RestOK, Container
  <2> QED
    BY <2>1, <2>2 DEF MainStep, Crash, FirstHeartbeat, RequireLiveLease, Launch,
       ExecutionEnds, Sweep, AfterHandler, JoinHeartbeat, SendComplete, CleanupJob, Answered,
       TimeOut, CleanUp, RemoveName, Fence
<1>8. net' \subseteq [kind : {"complete", "fail", "report"}, cred : issued, healthy : BOOLEAN]
  <2>1. CASE net' = net
    BY <1>2, <2>1 DEF RestOK
  <2>2. ASSUME NEW kind \in {"complete", "fail", "report"}, NEW healthy \in BOOLEAN,
               Send(w, kind, healthy), main[w].pc # "idle"
        PROVE  net' \subseteq [kind : {"complete", "fail", "report"}, cred : issued, healthy : BOOLEAN]
    BY <1>2, <1>3, <2>2 DEF RestOK, Send
  <2>3. main[w].healthy \in BOOLEAN
    BY <1>2 DEF MainType
  <2> QED
    BY <2>1, <2>2, <2>3 DEF MainStep, Crash, FirstHeartbeat, RequireLiveLease, Launch,
       ExecutionEnds, Sweep, AfterHandler, JoinHeartbeat, SendComplete, CleanupJob, Answered,
       TimeOut
<1> QED
  BY <1>1, <1>2, <1>4, <1>5, <1>6, <1>7, <1>8 DEF WorkerOK, RestOK

\* A heartbeat thread moves.
LEMMA BeatTypes ==
  ASSUME QueueInv, WTypeOK, ThreadsOK, NEW b \in beats,
         BeatWakes(b) \/ BeatSends(b) \/ BeatCancels(b) \/ BeatKills(b) \/ BeatFences(b)
  PROVE  (\A v \in Worker : WorkerOK(v))' /\ RestOK'
<1>1. issued' = issued /\ net' = net /\ containers' \subseteq containers
  BY DEF BeatWakes, BeatSends, BeatCancels, BeatKills, BeatFences, Fence, RemoveName, vars
<1>2. (\A v \in Worker : WorkerOK(v)) /\ RestOK /\ b \in BeatType /\ b.cred \in issued
  BY TypesSplit DEF WTypeOK, RestOK
<1>3. \A pc \in {"wait", "send", "cancel", "kill", "fence"} :
        [b EXCEPT !.pc = pc] \in BeatType /\ [b EXCEPT !.pc = pc].cred = b.cred
  BY <1>2 DEF BeatType
<1>4. \/ beats' \subseteq beats
      \/ \E pc \in {"wait", "send", "cancel", "kill", "fence"} :
            beats' = (beats \ {b}) \cup {[b EXCEPT !.pc = pc]}
  BY DEF BeatWakes, BeatSends, BeatCancels, BeatKills, BeatFences, Beat
<1>5. beats' \subseteq BeatType /\ \A t \in beats' : t.cred \in issued
  BY <1>2, <1>3, <1>4 DEF RestOK
<1>6. \/ main' = main
      \/ main' = [w \in Worker |-> IF main[w].cred = b.cred
                                   THEN [main[w] EXCEPT !.lost = TRUE] ELSE main[w]]
  BY DEF BeatWakes, BeatSends, BeatCancels, BeatKills, BeatFences
<1>7. \A w \in Worker : [main[w] EXCEPT !.lost = TRUE] \in MainType
                       /\ [main[w] EXCEPT !.lost = TRUE].pc = main[w].pc
                       /\ [main[w] EXCEPT !.lost = TRUE].cred = main[w].cred
                       /\ [main[w] EXCEPT !.lost = TRUE].left = main[w].left
  BY <1>2 DEF WorkerOK, MainType
<1>8. main' \in [Worker -> MainType]
      /\ \A w \in Worker : main'[w].pc = main[w].pc /\ main'[w].cred = main[w].cred
                           /\ main'[w].left = main[w].left
  BY <1>2, <1>6, <1>7 DEF RestOK
<1> QED
  BY <1>1, <1>2, <1>5, <1>8 DEF WorkerOK, RestOK

\* The control plane serves or loses a request.
LEMMA NetTypes ==
  ASSUME QueueInv, WTypeOK, ThreadsOK, NEW m \in net, Deliver(m) \/ Drop(m)
  PROVE  /\ (\A v \in Worker : WorkerOK(v))' /\ RestOK'
         /\ \A w \in Worker : main'[w].pc = main[w].pc /\ main'[w].cred = main[w].cred
                              /\ main'[w].healthy = main[w].healthy
<1>1. issued' = issued /\ net' \subseteq net /\ containers' = containers /\ beats' = beats
  BY DEF Deliver, Drop, CompleteJob, FailJob, ReportResourceCleanup, vars
<1>2. (\A v \in Worker : WorkerOK(v)) /\ RestOK
  BY TypesSplit DEF WTypeOK
<1>3. \A w \in Worker, answer \in {"ok", "refused"} :
         /\ [main[w] EXCEPT !.answer = answer] \in MainType
         /\ [main[w] EXCEPT !.answer = answer].pc = main[w].pc
         /\ [main[w] EXCEPT !.answer = answer].cred = main[w].cred
         /\ [main[w] EXCEPT !.answer = answer].left = main[w].left
         /\ [main[w] EXCEPT !.answer = answer].healthy = main[w].healthy
  BY <1>2 DEF WorkerOK, MainType
<1>4. main' = main \/ \E answer \in {"ok", "refused"} :
                         main' = [main EXCEPT ![m.cred.worker].answer = answer]
  BY DEF Deliver, Drop, Reply
<1>5. m.cred.worker \in Worker
  BY DEF ThreadsOK, QueueInv, TypeOK, Credential
<1>6. main' \in [Worker -> MainType]
      /\ \A w \in Worker : main'[w].pc = main[w].pc /\ main'[w].cred = main[w].cred
                           /\ main'[w].left = main[w].left /\ main'[w].healthy = main[w].healthy
  <2>1. CASE main' = main
    BY <1>2, <2>1 DEF RestOK
  <2>2. ASSUME NEW answer \in {"ok", "refused"},
               main' = [main EXCEPT ![m.cred.worker].answer = answer]
        PROVE  /\ main' \in [Worker -> MainType]
               /\ \A w \in Worker :
                     main'[w] = main[w] \/ main'[w] = [main[w] EXCEPT !.answer = answer]
    <3>1. main' = [main EXCEPT ![m.cred.worker] = [main[m.cred.worker] EXCEPT !.answer = answer]]
      BY <2>2
    <3> QED
      BY <1>2, <1>3, <1>5, <3>1 DEF RestOK
  <2> QED
    BY <1>3, <1>4, <2>1, <2>2
<1> QED
  BY <1>1, <1>2, <1>6 DEF WorkerOK, RestOK

LEMMA StartRow ==
  ASSUME NEW c \in Credential
  PROVE  LET row == [Idle EXCEPT !.pc = "first", !.cred = c, !.left = Launches]
         IN  row \in MainType /\ row.pc = "first" /\ row.cred = c /\ row.left # 0
<1>1. Launches \in 0 .. Launches /\ Launches # 0 /\ "first" \in MainPC
  BY LaunchesAssumption DEF MainPC
<1> QED
  BY <1>1 DEF Idle, MainType

\* A worker starts its run with the credential of its claim.
LEMMA ClaimTypes ==
  ASSUME QueueInv, WTypeOK, ThreadsOK, NEW w \in Worker, NEW j \in Job, NEW r \in Resource,
         WClaim(w, j, r)
  PROVE  (\A v \in Worker : WorkerOK(v))' /\ RestOK'
<1>1. ClaimLeasedJob(w, j, r) /\ UNCHANGED <<beats, containers, net>> /\ main[w].pc = "idle"
  BY DEF WClaim
<1>2. PICK c \in Credential : Leases(w, r, c)
  BY <1>1, ClaimEffect
<1>3. (\A v \in Worker : WorkerOK(v)) /\ RestOK
  BY TypesSplit DEF WTypeOK
<1> DEFINE row == [Idle EXCEPT !.pc = "first", !.cred = c, !.left = Launches]
<1>4. row \in MainType /\ row.pc = "first" /\ row.cred = c /\ row.left # 0
  BY <1>2, StartRow
<1>5. main' = [main EXCEPT ![w] = row] \/ main' = main
  BY <1>2 DEF WClaim, Leases
<1> HIDE DEF row
<1>6. issued' = issued \cup {c} /\ c.worker = w
  BY <1>2 DEF Leases
<1>7. main' \in [Worker -> MainType] /\ \A v \in Worker : WorkerOK(v)'
  <2>1. CASE main' = main
    BY <1>3, <1>6, <2>1 DEF WorkerOK, RestOK
  <2>2. CASE main' = [main EXCEPT ![w] = row]
    <3>1. main' \in [Worker -> MainType] /\ main'[w] = row
          /\ \A v \in Worker : v # w => main'[v] = main[v]
      BY <1>3, <1>4, <2>2 DEF RestOK
    <3>2. WorkerOK(w)'
      BY <1>4, <1>6, <3>1 DEF WorkerOK
    <3>3. ASSUME NEW v \in Worker, v # w PROVE WorkerOK(v)'
      BY <1>3, <1>6, <3>1, <3>3 DEF WorkerOK
    <3> QED
      BY <3>1, <3>2, <3>3
  <2> QED
    BY <1>5, <2>1, <2>2
<1>8. /\ beats' \subseteq BeatType /\ (\A b \in beats' : b.cred \in issued')
      /\ \A k \in containers' : k.resource \in Resource /\ k.fence \in Nat
  BY <1>1, <1>3, <1>6 DEF RestOK
<1>9. net' \subseteq [kind : {"complete", "fail", "report"}, cred : issued', healthy : BOOLEAN]
  BY <1>1, <1>3, <1>6 DEF RestOK
<1> QED
  BY <1>7, <1>8, <1>9 DEF RestOK

LEMMA ThreadTypes ==
  QueueInv /\ WTypeOK /\ ThreadsOK /\ [WNext]_wvars => WTypeOK' /\ ThreadsOK'
<1> SUFFICES ASSUME QueueInv, WTypeOK, ThreadsOK, [WNext]_wvars
             PROVE  WTypeOK' /\ ThreadsOK'
  OBVIOUS
<1>0. TypeOK'
  BY QueueStays DEF QueueInv
<1> SUFFICES (\A v \in Worker : WorkerOK(v))' /\ RestOK'
  <2> SUFFICES ASSUME (\A v \in Worker : WorkerOK(v))', RestOK' PROVE WTypeOK' /\ ThreadsOK'
    OBVIOUS
  <2>1. WTypeOK'
    BY <1>0 DEF WTypeOK, RestOK
  <2>2. ThreadsOK'
    BY DEF ThreadsOK, WorkerOK, RestOK
  <2> QED
    BY <2>1, <2>2
<1>1. (\A v \in Worker : WorkerOK(v)) /\ RestOK
  BY TypesSplit DEF WTypeOK
<1>2. CASE main' = main /\ beats' = beats /\ net' \subseteq net /\ issued' = issued
           /\ containers' \subseteq containers
  <2>1. \A v \in Worker : WorkerOK(v)'
    BY <1>1, <1>2 DEF WorkerOK
  <2>2. RestOK'
    BY <1>1, <1>2 DEF RestOK
  <2> QED
    BY <2>1, <2>2
<1>3. ASSUME NEW r \in Resource, OperatorCleans(r)
      PROVE  main' = main /\ beats' = beats /\ net' = net /\ issued' = issued
             /\ containers' \subseteq containers
  BY <1>3 DEF OperatorCleans, CleanUp, Fence, ReportResourceCleanup
<1>4. CASE Server
  <2>1. issued' = issued
    BY <1>4 DEF Server, RecoverStaleJobs, CancelJob
  <2> QED
    BY <1>2, <1>4, <2>1 DEF Server
<1>5. CASE \E k \in containers : ContainerExits(k)
  BY <1>2, <1>5 DEF ContainerExits, vars
<1>6. CASE UNCHANGED wvars
  BY <1>2, <1>6 DEF wvars, vars
<1> QED
  BY <1>2, <1>3, <1>4, <1>5, <1>6, MainTypes, BeatTypes, NetTypes, ClaimTypes DEF WNext

-----------------------------------------------------------------------------
(* What the threads know of their devices.                                 *)

LEMMA SameLease ==
  ASSUME QueueInv, NEW c \in issued, NEW d \in issued, c.resource = d.resource,
         Current(c), Current(d)
  PROVE  c = d
<1>1. c.resource # None
  BY NoneAssumption DEF QueueInv
<1> QED
  BY <1>1 DEF QueueInv, TokenBook, TokensUnique, Current

\* What StillHeld, TruthKnown, TruthTold and DeviceExclusive read of a thread.
SameThreads == \A w \in Worker : /\ main'[w].pc = main[w].pc /\ main'[w].cred = main[w].cred
                                 /\ main'[w].healthy = main[w].healthy

\* A device may be freed if it is empty and no handler still holds it.
MayFree(r) == /\ \A k \in containers' : k.resource # r
              /\ \A w \in Worker : main[w].pc \in Silent => main[w].cred.resource # r

\* Leases end, containers and requests go away, and nobody moves.
LEMMA ThreadsStand ==
  ASSUME WorkerInv, SameThreads, net' \subseteq net, containers' \subseteq containers,
         \A r \in Resource : Kept(r) \/ (Freed(r) /\ MayFree(r))
  PROVE  StillHeld' /\ TruthKnown' /\ TruthTold' /\ DeviceExclusive'
<1>1. \A r \in Resource : resources'[r].fence = resources[r].fence
  BY DEF Kept, Freed
<1>2. /\ \A c \in issued : c.resource \in Resource
      /\ \A w \in Worker : main[w].pc # "idle" => main[w].cred \in issued
      /\ \A m \in net : m.cred \in issued
      /\ \A k \in containers : k.resource \in Resource
  BY DEF WorkerInv, QueueInv, ThreadsOK, WTypeOK
<1>3. StillHeld'
  <2> SUFFICES ASSUME NEW w \in Worker, main'[w].pc \in Silent
               PROVE  /\ main'[w].cred.fence = resources'[main'[w].cred.resource].fence
                      /\ resources'[main'[w].cred.resource].state \in {"active", "quarantined"}
                      /\ \A m \in net' : m.cred # main'[w].cred
    BY DEF StillHeld, Silent, Current
  <2>1. main[w].pc \in Silent /\ main'[w].cred = main[w].cred /\ main[w].pc # "idle"
    BY DEF SameThreads, Silent
  <2> DEFINE c == main[w].cred
  <2>2. /\ c.fence = resources[c.resource].fence
        /\ resources[c.resource].state \in {"active", "quarantined"}
        /\ \A m \in net : m.cred # c
    BY <2>1 DEF WorkerInv, StillHeld, Current
  <2>3. c.resource \in Resource
    BY <1>2, <2>1
  <2>4. Kept(c.resource)
    BY <2>1, <2>3 DEF MayFree
  <2> QED
    BY <1>1, <2>1, <2>2, <2>3, <2>4 DEF Kept
<1>4. TruthKnown'
  <2> SUFFICES ASSUME NEW w \in Worker,
                      main[w].pc \in {"after", "join", "final", "failing"}, main[w].healthy,
                      main[w].cred.fence = resources'[main[w].cred.resource].fence
               PROVE  \A k \in containers' : k.resource # main[w].cred.resource
    BY DEF TruthKnown, SameThreads, Current, Empty
  <2>1. main[w].cred.resource \in Resource
    BY <1>2
  <2>2. Current(main[w].cred)
    BY <1>1, <2>1 DEF Current
  <2>3. Empty(main[w].cred.resource)
    BY <2>2 DEF WorkerInv, TruthKnown
  <2> QED
    BY <2>3 DEF Empty
<1>5. TruthTold'
  <2> SUFFICES ASSUME NEW m \in net, m.healthy,
                      m.cred.fence = resources'[m.cred.resource].fence
               PROVE  \A k \in containers' : k.resource # m.cred.resource
    BY DEF TruthTold, Current, Empty
  <2>1. Current(m.cred)
    BY <1>1, <1>2 DEF Current
  <2> QED
    BY <2>1 DEF Empty, WorkerInv, TruthTold
<1>6. DeviceExclusive'
  <2> SUFFICES ASSUME NEW k \in containers',
                      resources'[k.resource].state \in {"available", "active"}
               PROVE  /\ resources'[k.resource].state = "active"
                      /\ k.fence = resources'[k.resource].fence
    BY DEF DeviceExclusive
  <2>1. k \in containers /\ k.resource \in Resource
    BY <1>2
  <2>2. Kept(k.resource)
    BY <2>1 DEF MayFree
  <2>3. resources'[k.resource].state = resources[k.resource].state
    BY <2>2 DEF Kept
  <2> QED
    BY <1>1, <2>1, <2>3 DEF WorkerInv, DeviceExclusive
<1> QED
  BY <1>3, <1>4, <1>5, <1>6

\* The steps of the control plane, the operator and the heartbeat threads.
LEMMA OthersKeepTruth ==
  ASSUME OperatorWaits, WorkerInv,
         \/ \E b \in beats : BeatWakes(b) \/ BeatSends(b) \/ BeatCancels(b) \/ BeatKills(b) \/ BeatFences(b)
         \/ \E k \in containers : ContainerExits(k)
         \/ \E m \in net : Deliver(m) \/ Drop(m)
         \/ \E r \in Resource : OperatorCleans(r)
         \/ Server
         \/ UNCHANGED wvars
  PROVE  StillHeld' /\ TruthKnown' /\ TruthTold' /\ DeviceExclusive'
<1>0. QueueInv /\ WTypeOK /\ ThreadsOK
  BY DEF WorkerInv
<1>1. ASSUME NEW b \in beats,
             BeatWakes(b) \/ BeatSends(b) \/ BeatCancels(b) \/ BeatKills(b) \/ BeatFences(b)
      PROVE  StillHeld' /\ TruthKnown' /\ TruthTold' /\ DeviceExclusive'
  <2>1. resources' = resources /\ net' = net /\ containers' \subseteq containers
    BY <1>1 DEF BeatWakes, BeatSends, BeatCancels, BeatKills, BeatFences, Fence, RemoveName, vars
  <2>2. \A w \in Worker : main[w] \in MainType
    BY <1>0 DEF WTypeOK
  <2>3. \/ main' = main
        \/ main' = [w \in Worker |-> IF main[w].cred = b.cred
                                     THEN [main[w] EXCEPT !.lost = TRUE] ELSE main[w]]
    BY <1>1 DEF BeatWakes, BeatSends, BeatCancels, BeatKills, BeatFences
  <2>4. SameThreads
    BY <2>2, <2>3 DEF SameThreads, MainType
  <2>5. \A r \in Resource : Kept(r)
    BY <2>1 DEF Kept
  <2> QED
    BY <2>1, <2>4, <2>5, ThreadsStand
<1>2. ASSUME (\E k \in containers : ContainerExits(k)) \/ (\E m \in net : Drop(m))
             \/ UNCHANGED wvars
      PROVE  StillHeld' /\ TruthKnown' /\ TruthTold' /\ DeviceExclusive'
  <2>1. /\ resources' = resources /\ net' \subseteq net /\ containers' \subseteq containers
        /\ main' = main
    BY <1>2 DEF ContainerExits, Drop, wvars, vars
  <2>2. SameThreads /\ \A r \in Resource : Kept(r)
    BY <2>1 DEF SameThreads, Kept
  <2> QED
    BY <2>1, <2>2, ThreadsStand
<1>3. ASSUME NEW m \in net, Deliver(m)
      PROVE  StillHeld' /\ TruthKnown' /\ TruthTold' /\ DeviceExclusive'
  <2>1. net' \subseteq net /\ containers' = containers
    BY <1>3 DEF Deliver
  <2>2. SameThreads
    BY <1>0, <1>3, NetTypes DEF SameThreads
  <2>3. ASSUME NEW r \in Resource, m.healthy, m.cred.resource = r, Current(m.cred)
        PROVE  MayFree(r)
    <3>1. Empty(r)
      BY <2>3 DEF WorkerInv, TruthTold
    <3>2. ASSUME NEW w \in Worker, main[w].pc \in Silent, main[w].cred.resource = r
          PROVE  FALSE
      <4>1. main[w].cred \in issued /\ m.cred \in issued
        BY <1>0, <3>2 DEF ThreadsOK, Silent
      <4>2. Current(main[w].cred) /\ m.cred # main[w].cred
        BY <3>2 DEF WorkerInv, StillHeld
      <4> QED
        BY <1>0, <2>3, <3>2, <4>1, <4>2, SameLease
    <3> QED
      BY <2>1, <3>1, <3>2 DEF MayFree, Empty
  <2>4. \A r \in Resource : Kept(r) \/ (Freed(r) /\ MayFree(r))
    BY <1>0, <1>3, <2>3, DeliverEffect
  <2> QED
    BY <2>1, <2>2, <2>4, ThreadsStand
<1>4. ASSUME NEW r \in Resource, OperatorCleans(r)
      PROVE  StillHeld' /\ TruthKnown' /\ TruthTold' /\ DeviceExclusive'
  <2>1. /\ main' = main /\ net' = net /\ containers' \subseteq containers
        /\ \A k \in containers' : k.resource # r
    BY <1>4 DEF OperatorCleans, CleanUp, Fence
  <2>2. ASSUME NEW w \in Worker, main[w].pc \in Silent PROVE main[w].cred.resource # r
    <3>1. Current(main[w].cred)
      BY <2>2 DEF WorkerInv, StillHeld
    <3>2. main[w].pc # "idle"
      BY <2>2 DEF Silent
    <3> QED
      BY <1>4, <3>1, <3>2 DEF OperatorCleans, Current
  <2>3. MayFree(r)
    BY <2>1, <2>2 DEF MayFree
  <2>4. SameThreads /\ \A s \in Resource : Kept(s) \/ (Freed(s) /\ MayFree(s))
    BY <1>0, <1>4, <2>1, <2>3, OperatorEffect DEF SameThreads
  <2> QED
    BY <2>1, <2>4, ThreadsStand
<1>5. ASSUME Server
      PROVE  StillHeld' /\ TruthKnown' /\ TruthTold' /\ DeviceExclusive'
  <2>1. main' = main /\ net' = net /\ containers' = containers
    BY <1>5 DEF Server
  <2>2. SameThreads /\ \A r \in Resource : Kept(r)
    BY <1>0, <1>5, <2>1, ServerEffect DEF SameThreads
  <2> QED
    BY <2>1, <2>2, ThreadsStand
<1> QED
  BY <1>1, <1>2, <1>3, <1>4, <1>5

\* A thread may send only what it knows, and never while it is silent.
Sends(w) == \/ net' = net
            \/ /\ main'[w].pc \notin Silent
               /\ \E kind \in {"complete", "fail", "report"}, healthy \in BOOLEAN :
                     /\ Send(w, kind, healthy)
                     /\ healthy /\ Current(main[w].cred)
                          => \A k \in containers' : k.resource # main[w].cred.resource

\* What w learns about its device in one step.
Learns(w) ==
  /\ main'[w].pc \in Silent => main[w].pc \in Silent /\ main'[w].cred = main[w].cred
  /\ main'[w].pc \in {"after", "join", "final", "failing"} /\ main'[w].healthy
       => /\ main'[w].cred = main[w].cred
          /\ Current(main[w].cred)
               => \A k \in containers' : k.resource # main[w].cred.resource

\* A thread that removes containers only.
LEMMA ThreadRemoves ==
  ASSUME WorkerInv, NEW w \in Worker, MainStep(w) \/ Crash(w), containers' \subseteq containers
  PROVE  Learns(w) /\ Sends(w)
<1>1. main \in [Worker -> MainType] /\ main[w] \in MainType
  BY DEF WorkerInv, WTypeOK
<1>2. main[w].pc \in {"after", "join", "final", "failing"} /\ main[w].healthy
         /\ Current(main[w].cred)
       => \A k \in containers' : k.resource # main[w].cred.resource
  BY DEF WorkerInv, TruthKnown, Empty
<1>3. main[w].healthy \in BOOLEAN
  BY <1>1 DEF MainType
<1>4. CASE \/ FirstHeartbeat(w) \/ RequireLiveLease(w) \/ Launch(w) \/ ExecutionEnds(w)
           \/ AfterHandler(w) \/ JoinHeartbeat(w)
  <2>1. PICK pc \in MainPC :
          /\ Goto(w, pc) /\ net' = net
          /\ pc \in Silent => main[w].pc \in Silent
          /\ pc \in {"after", "join", "final", "failing"} =>
               main[w].pc \in {"after", "join", "final", "failing"}
    BY <1>4 DEF FirstHeartbeat, RequireLiveLease, Launch, ExecutionEnds, AfterHandler,
                JoinHeartbeat, MainPC, Silent
  <2>2. main'[w].pc = pc /\ main'[w].cred = main[w].cred /\ main'[w].healthy = main[w].healthy
    BY <1>1, <2>1 DEF Goto, MainType
  <2> QED
    BY <1>2, <2>1, <2>2 DEF Learns, Sends
<1>5. CASE Sweep(w)
  <2>1. PICK healthy \in BOOLEAN, pc \in {"cleanup", IF main[w].left = 1 THEN "after" ELSE "check"} :
          /\ CleanUp(main[w].cred.resource, main[w].cred.fence, healthy)
          /\ main' = [main EXCEPT ![w].healthy = healthy, ![w].left = @ - 1, ![w].pc = pc]
    BY <1>5 DEF Sweep
  <2>2. main'[w].pc = pc /\ main'[w].cred = main[w].cred /\ main'[w].healthy = healthy
    BY <1>1, <2>1 DEF MainType
  <2>3. main[w].pc = "sweep" /\ net' = net
    BY <1>5 DEF Sweep
  <2>4. healthy => \A k \in containers' : k.resource # main[w].cred.resource
    BY <2>1 DEF CleanUp
  <2> QED
    BY <2>2, <2>3, <2>4 DEF Learns, Sends, Silent
<1>6. CASE SendComplete(w)
  <2>1. PICK pc \in {"completing", "cleanup"} : Goto(w, pc)
    BY <1>6 DEF SendComplete
  <2>2. main'[w].pc = pc /\ main[w].pc = "final"
        /\ (net' = net \/ Send(w, "complete", main[w].healthy))
    BY <1>1, <1>6, <2>1 DEF SendComplete, Goto, MainType
  <2> QED
    BY <1>2, <1>3, <2>1, <2>2 DEF Learns, Sends, Silent
<1>7. CASE CleanupJob(w)
  <2>1. PICK healthy \in BOOLEAN :
          /\ CleanUp(main[w].cred.resource, main[w].cred.fence, healthy)
          /\ main' = [main EXCEPT ![w].pc = "failing", ![w].healthy = healthy, ![w].answer = "none"]
          /\ Send(w, "fail", healthy)
    BY <1>7 DEF CleanupJob
  <2>2. main'[w].pc = "failing" /\ main'[w].cred = main[w].cred
    BY <1>1, <2>1 DEF MainType
  <2>3. healthy => \A k \in containers' : k.resource # main[w].cred.resource
    BY <2>1 DEF CleanUp
  <2>4. main'[w].healthy = healthy
    BY <1>1, <2>1 DEF MainType
  <2> QED
    BY <2>1, <2>2, <2>3, <2>4 DEF Learns, Sends, Silent
<1>8. CASE Answered(w) \/ TimeOut(w)
  <2>1. \/ main' = [main EXCEPT ![w] = Idle] /\ net' = net
        \/ main' = [main EXCEPT ![w].pc = "cleanup"] /\ net' = net
        \/ /\ main' = [main EXCEPT ![w].pc = "reporting", ![w].answer = "none"]
           /\ Send(w, "report", main[w].healthy)
           /\ main[w].pc = "failing"
    BY <1>8 DEF Answered, TimeOut, End, Goto, Awaiting
  <2>2. main'[w].pc \notin Silent \cup {"failing"}
    BY <1>1, <2>1, IdleOK DEF Silent, MainType
  <2>3. \/ net' = net
        \/ Send(w, "report", main[w].healthy) /\ main[w].pc = "failing"
    BY <2>1
  <2> QED
    BY <1>2, <1>3, <2>2, <2>3 DEF Learns, Sends, Silent
<1>9. CASE Crash(w)
  <2>1. main'[w].pc = "idle" /\ net' = net
    BY <1>1, <1>9, IdleOK DEF Crash
  <2> QED
    BY <2>1 DEF Learns, Sends, Silent
<1> QED
  BY <1>4, <1>5, <1>6, <1>7, <1>8, <1>9 DEF MainStep

\* A step of one thread touches neither the tables nor the other threads.
LEMMA ThreadLocal ==
  ASSUME WTypeOK, NEW w \in Worker, MainStep(w) \/ Crash(w)
  PROVE  /\ resources' = resources /\ issued' = issued
         /\ \A v \in Worker : v # w => main'[v] = main[v]
BY DEF WTypeOK, MainStep, Crash, FirstHeartbeat, RequireLiveLease, Launch, ExecutionEnds, Sweep,
       AfterHandler, JoinHeartbeat, SendComplete, CleanupJob, Answered, TimeOut, Goto, End, vars

LEMMA ThreadKeepsTruth ==
  ASSUME WorkerInv, NEW w \in Worker, MainStep(w) \/ Crash(w)
  PROVE  StillHeld' /\ TruthKnown' /\ TruthTold' /\ DeviceExclusive'
<1>0. QueueInv /\ WTypeOK /\ ThreadsOK
  BY DEF WorkerInv
<1>1. /\ resources' = resources /\ issued' = issued
      /\ \A v \in Worker : v # w => main'[v] = main[v]
  BY <1>0, ThreadLocal
<1>2. \A v \in Worker : main[v].pc # "idle" => main[v].cred \in issued /\ main[v].cred.worker = v
  BY <1>0 DEF ThreadsOK
<1>3. \A m \in net : m.cred \in issued
  BY <1>0 DEF ThreadsOK
<1>4. \/ containers' \subseteq containers
      \/ Launch(w) /\ containers' = containers \cup {Container(main[w])}
  BY DEF MainStep, Crash, FirstHeartbeat, RequireLiveLease, Launch, ExecutionEnds, Sweep,
         AfterHandler, JoinHeartbeat, SendComplete, CleanupJob, Answered, TimeOut, CleanUp, RemoveName,
         Fence
<1>5. CASE Launch(w) /\ containers' = containers \cup {Container(main[w])}
  <2> DEFINE c == main[w].cred
  <2>1. /\ main[w].pc = "run" /\ net' = net /\ c \in issued
        /\ main'[w].pc \in {"exec", "sweep"} /\ main'[w].cred = c
    BY <1>0, <1>2, <1>5 DEF Launch, Goto, WTypeOK, MainType
  <2>2. /\ Current(c) /\ resources[c.resource].state \in {"active", "quarantined"}
        /\ \A m \in net : m.cred # c
    BY <2>1 DEF WorkerInv, StillHeld, Silent
  <2>3. StillHeld'
    BY <1>1, <2>1, <2>2 DEF WorkerInv, StillHeld, Current, Silent
  <2>4. ASSUME NEW d \in issued, Current(d), d # c PROVE d.resource # c.resource
    BY <1>0, <2>1, <2>2, <2>4, SameLease
  <2>5. TruthKnown'
    <3> SUFFICES ASSUME NEW v \in Worker, v # w,
                        main[v].pc \in {"after", "join", "final", "failing"}, main[v].healthy,
                        Current(main[v].cred)
                 PROVE  \A k \in containers' : k.resource # main[v].cred.resource
      BY <1>1, <2>1 DEF TruthKnown, Current, Empty
    <3>1. \A k \in containers : k.resource # main[v].cred.resource
      BY DEF WorkerInv, TruthKnown, Empty
    <3>2. main[v].cred \in issued /\ main[v].cred # c
      BY <1>2, <2>1
    <3>3. main[v].cred.resource # c.resource
      BY <2>4, <3>2
    <3> QED
      BY <1>5, <3>1, <3>3 DEF Container
  <2>6. TruthTold'
    <3> SUFFICES ASSUME NEW m \in net, m.healthy, Current(m.cred)
                 PROVE  \A k \in containers' : k.resource # m.cred.resource
      BY <1>1, <2>1 DEF TruthTold, Current, Empty
    <3>1. \A k \in containers : k.resource # m.cred.resource
      BY DEF WorkerInv, TruthTold, Empty
    <3>2. m.cred.resource # c.resource
      BY <1>3, <2>2, <2>4
    <3> QED
      BY <1>5, <3>1, <3>2 DEF Container
  <2>7. DeviceExclusive'
    <3>1. Container(main[w]).resource = c.resource /\ Container(main[w]).fence = c.fence
      BY DEF Container
    <3> QED
      BY <1>1, <1>5, <2>2, <3>1 DEF WorkerInv, DeviceExclusive, Current
  <2> QED
    BY <2>3, <2>5, <2>6, <2>7
<1>6. CASE containers' \subseteq containers
  <2>1. Learns(w) /\ Sends(w)
    BY <1>6, ThreadRemoves
  <2>2. ASSUME NEW m \in net', m \notin net
        PROVE  /\ m.cred = main[w].cred /\ main'[w].pc \notin Silent /\ main[w].pc # "idle"
               /\ m.healthy /\ Current(m.cred) => \A k \in containers' : k.resource # m.cred.resource
    <3>1. main[w].pc # "idle"
      BY <2>2 DEF MainStep, Crash, FirstHeartbeat, RequireLiveLease, Launch, ExecutionEnds, Sweep,
         AfterHandler, JoinHeartbeat, SendComplete, CleanupJob, Answered, TimeOut, Awaiting
    <3> QED
      BY <2>1, <2>2, <3>1 DEF Sends, Send
  <2>3. StillHeld'
    <3> SUFFICES ASSUME NEW v \in Worker, main'[v].pc \in Silent
                 PROVE  /\ Current(main'[v].cred)
                        /\ resources[main'[v].cred.resource].state \in {"active", "quarantined"}
                        /\ \A m \in net' : m.cred # main'[v].cred
      BY <1>1 DEF StillHeld, Current
    <3>1. main[v].pc \in Silent /\ main'[v].cred = main[v].cred
      BY <1>1, <2>1 DEF Learns
    <3>2. /\ Current(main[v].cred)
          /\ resources[main[v].cred.resource].state \in {"active", "quarantined"}
          /\ \A m \in net : m.cred # main[v].cred
      BY <3>1 DEF WorkerInv, StillHeld
    <3>3. ASSUME NEW m \in net', m \notin net PROVE m.cred # main[v].cred
      <4>1. v # w /\ main[w].pc # "idle" /\ main[v].pc # "idle"
        BY <2>2, <3>1, <3>3 DEF Silent
      <4> QED
        BY <1>2, <2>2, <3>3, <4>1
    <3> QED
      BY <3>1, <3>2, <3>3
  <2>4. TruthKnown'
    <3> SUFFICES ASSUME NEW v \in Worker,
                        main'[v].pc \in {"after", "join", "final", "failing"}, main'[v].healthy,
                        Current(main'[v].cred)
                 PROVE  \A k \in containers' : k.resource # main'[v].cred.resource
      BY <1>1 DEF TruthKnown, Current, Empty
    <3>1. CASE v = w
      BY <2>1, <3>1 DEF Learns
    <3>2. CASE v # w
      BY <1>1, <1>6, <3>2 DEF WorkerInv, TruthKnown, Empty
    <3> QED
      BY <3>1, <3>2
  <2>5. TruthTold'
    <3> SUFFICES ASSUME NEW m \in net', m.healthy, Current(m.cred)
                 PROVE  \A k \in containers' : k.resource # m.cred.resource
      BY <1>1 DEF TruthTold, Current, Empty
    <3>1. CASE m \in net
      BY <1>6, <3>1 DEF WorkerInv, TruthTold, Empty
    <3> QED
      BY <2>2, <3>1
  <2>6. DeviceExclusive'
    BY <1>1, <1>6 DEF WorkerInv, DeviceExclusive
  <2> QED
    BY <2>3, <2>4, <2>5, <2>6
<1> QED
  BY <1>4, <1>5, <1>6

\* A claim finds its device empty, and takes it from nobody.
LEMMA ClaimKeepsTruth ==
  ASSUME WorkerInv, NEW w \in Worker, NEW j \in Job, NEW r \in Resource, WClaim(w, j, r)
  PROVE  StillHeld' /\ TruthKnown' /\ TruthTold' /\ DeviceExclusive'
<1>0. QueueInv /\ WTypeOK /\ ThreadsOK
  BY DEF WorkerInv
<1>1. ClaimLeasedJob(w, j, r) /\ UNCHANGED <<beats, containers, net>> /\ main[w].pc = "idle"
  BY DEF WClaim
<1>2. PICK c \in Credential : Leases(w, r, c)
  BY <1>0, <1>1, ClaimEffect
<1> DEFINE row == [Idle EXCEPT !.pc = "first", !.cred = c, !.left = Launches]
<1>3. main' = [main EXCEPT ![w] = row] \/ main' = main
  BY <1>2 DEF WClaim, Leases
<1>4. row.pc = "first" /\ row.cred = c
  BY <1>2, StartRow
<1> HIDE DEF row
<1>5. /\ \A v \in Worker : v # w => main'[v] = main[v]
      /\ main'[w].pc = "idle" \/ (main'[w].pc = "first" /\ main'[w].cred = c)
  BY <1>0, <1>1, <1>3, <1>4 DEF WTypeOK
<1>6. /\ \A v \in Worker : main[v].pc # "idle" => main[v].cred \in issued
      /\ \A m \in net : m.cred \in issued
      /\ \A d \in issued : d.resource \in Resource /\ d.fence \in Nat
      /\ \A k \in containers : k.resource \in Resource
  BY <1>0 DEF ThreadsOK, QueueInv, TypeOK, Credential, WTypeOK
<1>7. /\ c \notin issued /\ c.resource = r /\ c.fence = resources'[r].fence
      /\ resources[r].state = "available" /\ resources'[r].state = "active"
      /\ \A s \in Resource : s # r => resources'[s] = resources[s]
      /\ \A d \in issued : d.resource = r => d.fence < resources'[r].fence
  BY <1>2 DEF Leases
\* An older credential is current after the claim only if it was, elsewhere.
<1>8. ASSUME NEW d \in issued, d.fence = resources'[d.resource].fence
      PROVE  d.resource # r /\ Current(d)
  BY <1>6, <1>7, <1>8 DEF Current
<1>9. StillHeld'
  <2> SUFFICES ASSUME NEW v \in Worker, main'[v].pc \in Silent
               PROVE  /\ main'[v].cred.fence = resources'[main'[v].cred.resource].fence
                      /\ resources'[main'[v].cred.resource].state \in {"active", "quarantined"}
                      /\ \A m \in net' : m.cred # main'[v].cred
    BY DEF StillHeld, Current, Silent
  <2>1. CASE v = w
    BY <1>1, <1>5, <1>6, <1>7, <2>1 DEF Silent
  <2>2. CASE v # w
    <3>1. main'[v] = main[v] /\ main[v].pc # "idle"
      BY <1>5, <2>2 DEF Silent
    <3>2. /\ Current(main[v].cred)
          /\ resources[main[v].cred.resource].state \in {"active", "quarantined"}
          /\ \A m \in net : m.cred # main[v].cred
      BY <3>1 DEF WorkerInv, StillHeld
    <3>3. main[v].cred.resource # r /\ main[v].cred.resource \in Resource
      BY <1>6, <1>7, <3>1, <3>2
    <3> QED
      BY <1>1, <1>7, <3>1, <3>2, <3>3 DEF Current
  <2> QED
    BY <2>1, <2>2
<1>10. TruthKnown'
  <2> SUFFICES ASSUME NEW v \in Worker,
                      main'[v].pc \in {"after", "join", "final", "failing"}, main'[v].healthy,
                      main'[v].cred.fence = resources'[main'[v].cred.resource].fence
               PROVE  \A k \in containers : k.resource # main'[v].cred.resource
    BY <1>1 DEF TruthKnown, Current, Empty
  <2>1. v # w /\ main'[v] = main[v] /\ main[v].cred \in issued
    BY <1>5, <1>6
  <2>2. Current(main[v].cred)
    BY <1>8, <2>1
  <2> QED
    BY <2>1, <2>2 DEF WorkerInv, TruthKnown, Empty
<1>11. TruthTold'
  <2> SUFFICES ASSUME NEW m \in net, m.healthy,
                      m.cred.fence = resources'[m.cred.resource].fence
               PROVE  \A k \in containers : k.resource # m.cred.resource
    BY <1>1 DEF TruthTold, Current, Empty
  <2>1. Current(m.cred)
    BY <1>6, <1>8
  <2> QED
    BY <2>1 DEF WorkerInv, TruthTold, Empty
<1>12. DeviceExclusive'
  <2> SUFFICES ASSUME NEW k \in containers,
                      resources'[k.resource].state \in {"available", "active"}
               PROVE  /\ resources'[k.resource].state = "active"
                      /\ k.fence = resources'[k.resource].fence
    BY <1>1 DEF DeviceExclusive
  <2>1. k.resource # r
    BY <1>7 DEF WorkerInv, DeviceExclusive
  <2> QED
    BY <1>6, <1>7, <2>1 DEF WorkerInv, DeviceExclusive
<1> QED
  BY <1>9, <1>10, <1>11, <1>12

-----------------------------------------------------------------------------
(* The theorems.                                                           *)

LEMMA WorkersInit == WInit => WorkerInv
<1> SUFFICES ASSUME WInit PROVE WorkerInv
  OBVIOUS
<1>1. QueueInv /\ TypeOK
  BY WorkersStart DEF QueueInv
<1>2. \A w \in Worker : main[w] = Idle /\ main[w].pc = "idle" /\ main[w].cred = None
  BY IdleOK DEF WInit
<1>3. WTypeOK
  BY <1>1, IdleOK DEF WInit, WTypeOK
<1>4. ThreadsOK
  BY <1>2 DEF WInit, ThreadsOK
<1>5. StillHeld /\ TruthKnown /\ TruthTold /\ DeviceExclusive
  BY <1>2 DEF WInit, StillHeld, TruthKnown, TruthTold, DeviceExclusive, Silent
<1> QED
  BY <1>1, <1>3, <1>4, <1>5 DEF WorkerInv

LEMMA WorkersStep == OperatorWaits /\ WorkerInv /\ [WNext]_wvars => WorkerInv'
<1> SUFFICES ASSUME OperatorWaits, WorkerInv, [WNext]_wvars PROVE WorkerInv'
  OBVIOUS
<1>1. QueueInv' /\ WTypeOK' /\ ThreadsOK'
  BY QueueStays, ThreadTypes DEF WorkerInv
<1>2. StillHeld' /\ TruthKnown' /\ TruthTold' /\ DeviceExclusive'
  BY ThreadKeepsTruth, ClaimKeepsTruth, OthersKeepTruth DEF WNext
<1> QED
  BY <1>1, <1>2 DEF WorkerInv

\* The workers' inductive invariant: a process that has not yet vouched for its
\* device still has it, and what processes and requests say of it is true.
\* It needs an operator who waits for the old process to be gone.
THEOREM WorkersInvariant == ASSUME OperatorWaits PROVE WSpec => []WorkerInv
<1>1. WorkerInv /\ [WNext]_wvars => WorkerInv'
  BY WorkersStep
<1> QED
  BY <1>1, WorkersInit, PTL DEF WSpec

\* The rows of threads, containers and requests have their types (run_once).
THEOREM WorkerTypes == ASSUME OperatorWaits PROVE WSpec => []WTypeOK
<1>1. WorkerInv => WTypeOK
  BY DEF WorkerInv
<1> QED
  BY <1>1, WorkersInvariant, PTL

\* An available device is empty, and on a leased one only containers of the
\* present lease run (run_once, report_resource_cleanup), for any number of
\* workers, attempts, crashes, late and lost requests.
THEOREM DevicesAreExclusive == ASSUME OperatorWaits PROVE WSpec => []DeviceExclusive
<1>1. WorkerInv => DeviceExclusive
  BY DEF WorkerInv
<1> QED
  BY <1>1, WorkersInvariant, PTL

\* Two processes are never inside handlers for one device (run_once), although
\* each finds out that its lease is gone only by its next heartbeat.
THEOREM HandlersAreExclusive == ASSUME OperatorWaits PROVE WSpec => []HandlerExclusive
<1>1. WorkerInv => HandlerExclusive
  <2> SUFFICES ASSUME WorkerInv, NEW v \in Worker, NEW w \in Worker, v # w,
                      main[v].pc \in {"check", "run", "exec", "sweep"},
                      main[w].pc \in {"check", "run", "exec", "sweep"},
                      main[v].cred.resource = main[w].cred.resource
               PROVE  FALSE
    BY DEF HandlerExclusive
  <2>1. QueueInv /\ Current(main[v].cred) /\ Current(main[w].cred)
    BY DEF WorkerInv, StillHeld, Silent
  <2>2. /\ main[v].cred \in issued /\ main[v].cred.worker = v
        /\ main[w].cred \in issued /\ main[w].cred.worker = w
    BY DEF WorkerInv, ThreadsOK
  <2>3. main[v].cred = main[w].cred
    BY <2>1, <2>2, SameLease
  <2> QED
    BY <2>2, <2>3
<1> QED
  BY <1>1, WorkersInvariant, PTL
=============================================================================
