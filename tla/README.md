# A verification development of hcu-auto-opt

`hcuopt` is a control plane that optimises GPU kernels: tasks move through
workflows, workflows are made of jobs, jobs run on workers that lease
accelerators, and an operator signs off what comes out.  These modules model
the part of it in which processes, requests and crashes interleave, check it
with TLC and prove what matters most with TLAPS.

Source paths below are relative to `src/hcuopt/` of the repository; `repository.py`
is `storage/repository.py`.

## The system

| Component | State | Operations | Interacts with |
|---|---|---|---|
| Job queue (`repository.py`, `storage/sql/0001_walking_skeleton.sql`) | tables `jobs`, `workers`, `resources` | register, enqueue, claim, heartbeat, lease check, complete, fail, reap, cancel, cleanup report; one transaction each | workers by HTTP; workflows by `enqueue_job` and by terminal failures |
| Worker (`workers/`) | program counters of its main and heartbeat threads, the `lease_lost` flag, evidence in hand | claim, handle, heartbeat, clean up, complete, fail, report | queue by HTTP; executor and cleaner in its process |
| Executor, cleaner (`adapters/execution.py`, `resource_cleaner.py`) | containers with resource, token and name | run, cancel by name, fence by token, health check | Docker daemon shared by all workers of a host |
| Router, reconciliation (`orchestrator/router.py`, `api/app.py`) | `jobs.workflow_advanced_at`, requests in flight | advance inline in `complete`, reconcile in every `claim` and on demand | coordinators of five workflow types |
| Optimization workflow (`orchestrator/walking.py`) | task, the round's candidates | a handler per job type, the barrier, `freeze_baseline` | queue, state graphs |
| Framework Smoke, F1 (`orchestrator/framework_smoke.py`) | task, one candidate, evidence bundles, retest count, sign-off | handlers, retest, sign-off, cancel, terminal job failure | queue, operator |
| Manual candidate, M1 (`orchestrator/manual_candidate.py`) | task, one candidate, verdict, sign-off | handlers, creation, sign-off, terminal job failure | queue, operator |
| Stage 0 (`orchestrator/stage0.py`, `repository.py` 5086-6109) | run, its probe records, the task's measurement authority | record, finalise, evaluate by hand, terminal job failure | queue, operator, verifier |
| Endpoint validation (`storage/endpoint_validation.py`) | runs with a task each, campaign | create, record, adjudicate, sign off, cancellation and terminal failure of jobs | queue, operator |
| State graphs (`domain/transitions.py`) | none | which moves are legal | every workflow |
| M2a search round (`repository.py` 1590-5033) | round, members, budget ledger, evidence | intake, build terminals, barriers, holdout, budget, finalise, cancel | queue, operator |
| Formal round and sign-off (`repository.py` 2264-4990) | the same rows, authority context, sign-off intent, outbox, artifacts in a file store | formal barriers, reveal, comparison, final evidence; intent, publish, record, finalise, reconcile | operator, signer, artifact store |
| Operator start (`operator/start.py`) | intent with a step per member | a saga of transactions, resumed by any reconcile request | search round |
| Formal start (`operator/formal_start.py`) | intent row; store of the two authorities | create, reconcile, recover, cancel | operator, plan compiler, signers of the authorities |
| Phase execution (`measurement/m2_formal_runner.py`, `m2_runner.py`) | evidence files, claimed identities, receipts | run, release unstarted | the round's budget, harness on a leased device |
| Performance recovery (`deployment/bw20_m1_performance_recovery.py`) | audit events | one more attempt after each of four known faults | rows of queue and manual candidate |
| Agent generation (`storage/agent_generation.py`, `agent/messages_dispatch.py`) | run, attempts, budget ledger, proposals; claim and receipt files | claim, renew, settle, retry, reconcile, recover | generator workers, a paid provider |
| Proposal review and promotion (`adapters/agent_promotion.py`, `deployment/bw20_agent_m1_promotion.py`, `agent/cli.py`) | a store of immutable reviews and key bindings, source packages, the event that names a candidate's origin | review, close as rejected, promote in five steps, sign off | generation run, manual candidate |
| Clock session (`deployment/bw20_clock_*.py`) | SQLite journal, the device's clock policy | begin, apply, restore, recover | worker's resource guard |
| Measurement on BW20 (`deployment/bw20_timing_session.py`, `bw20_timing_transport.py`, `bw20_stage0_adapter.py`, `bw20_m1_*.py`) | sessions with a container and a channel each, a factory's list and lock, a job's gate and cached cleanup | open, request, close, force close, finish, cleanup, health check | harness, daemon of a remote host, both threads of a worker |
| Measurement on nmz36 (`measurement/nmz36_runtime.py`, `deployment/nmz36_m1_allocator.py`, `measurement/harness.py`, `m1_harness.py`) | sessions with a `docker run` and its pipes, evidence files | open, request, close, fence, health check | harness, local daemon, both threads of a worker |
| Server runs (`evaluation/sglang_smoke_runner.py`, `sglang_endpoint_runner.py`) | a process group, records of the keeper, evidence files, a cache | start, wait until ready, ask, stop the group, report | the server in the same container, signals to the runner |
| Local generator (`adapters/agent_runner.py`) | a process group, two capture threads, an attempt directory | prepare, execute, terminate, decide, remove | a generator command |
| Evaluation, other generators, builders, probes, other deployments, viewers, contracts | files and values | functions from inputs to outputs | give jobs their results |

What is hard, and what makes each part correct:

* **Queue.**  Answers of earlier attempts arrive late, twice, or after the
  reaper; workers register again at any time.  Correct: the two tables agree
  about leases; one credential has authority; tokens are never reused; a device
  changes hands only with evidence; attempts are bounded; ends are final.
* **Worker.**  Its heartbeat thread and its handler race; processes die with
  containers running; answers are lost.  Correct: containers of two leases never
  share a device that is in use; only one process is inside a handler for it;
  every run ends.
* **Workflows.**  A handler is a sequence of transactions, run by several
  requests at once and again after crashes.  Correct: what was decided stays
  decided, once and by one authority; evidence is written once and before the
  operator is asked; task and candidate agree; nobody passes the barrier early
  and no round is forgotten; every succeeded job is advanced in the end.
* **Search round, start, sign-off.**  Budgets reserved by attempts that fail;
  outboxes and sagas with a crash between any two steps.  Correct: what a hash has
  frozen stays true of the rows, the audit agrees with what it audits, an intent
  is never ahead of what it speaks of, what was begun can be finished.
* **Formal start.**  Calls take the time once and then read the plan and the
  authorities one by one, while others record or cancel.  Correct: a verdict was
  true at its moment, an intent that has ended stays as it is.
* **Phase execution.**  A call dies between any two of its seven effects, calls
  overlap on one request.  Correct: the harness runs once per reservation, what is
  settled or released is on file, receipts never share an identity.
* **Performance recovery.**  A command by hand on rows of a running queue.  Correct:
  each fault is granted one attempt, in order, after it has used up those before.
* **Agent generation.**  Leases expire under a settlement, retries reserve again,
  a dispatcher dies after it has paid.  Correct: attempts in turn, paid and charged
  once, the ledger within the plan, the run decided in the end.
* **Review and promotion.**  Commands of five steps that overlap and die.  Correct:
  a key is one review, an accepted candidate has a history without a gap.
* **Clock session.**  A crash between intent, device write and restore.  Correct:
  no reuse of a device whose clocks are not known to be restored.
* **Measurement.**  A daemon that answers late or not at all, requests that time out and
  are answered afterwards, a heartbeat that cleans up beside the handler.  Correct: a clean
  report leaves no container, evidence rests on answers to the right questions, and the two
  threads do not wait for each other for ever.
* **Server runs and generator attempts.**  Processes fork, end and are reaped in any order
  around the stop of their group; signals come in between; threads still drain pipes that a
  forked process holds.  Correct: what is reported as cleaned up is gone, a success is
  complete, and there is a report.

`PROJECT.json` lists the hazards one by one, with the property that covers each.

## Modules

| Module | Models | State and actions |
|---|---|---|
| `JobQueue` | the queue | one variable per table, plus three history variables: tokens drawn, credentials issued, evidence accepted.  One action per transaction. |
| `FencedLease` | abstract: what is promised about a device | holder, epoch, clean; acquire, vacate, clean |
| `JobLifecycle` | abstract: what is promised about a job | phase, attempts; enqueue, claim, succeed, lose, cancel |
| `WorkerLoop` | workers, executor, cleaner, network, on top of `JobQueue` | `main[w]` is `run_once`, `beats` the heartbeat threads, `containers` the devices, `net` the requests under way |
| `StateGraphs` | `domain/transitions.py` | two operators |
| `Coordinator` | what the coordinators share: requests, replay, marking, crashes | `calls[k].todo` is the rest of a handler, a sequence of operations each of which is a transaction; `unadvanced` is the reconcile query |
| `FrameworkSmoke`, `ManualCandidate`, `WalkingSkeleton`, `Stage0Probes`, `EndpointValidation` | the five workflows | handlers as sequences of operations; operator requests, terminal failures and cancellations as actions |
| `WorkflowRouter` | a task of any of the five types with the requests around it | composes the six modules above |
| `SearchRound` | one scripted M2a round | a variable per table: `round`, `members` (with `candidates.state`), the rows of the barriers, reveal, comparison and evidence, `reservations` and `ledger`; `draft` is the ledger that an evidence bundle was built from outside of a transaction; `jobs` is what a round sees of the queue.  One action per transaction, all of which lock the `search_rounds` row |
| `OperatorStart` | the start of a scripted round | `intent` is the start's row, `request[p]` the transaction that request p is at; the round is an instance of `SearchRound`, whose routes other clients use as well |
| `FormalStart` | the intent to start a formal round | `wish` is the row, `store` the published authorities, `clock` the time, `clerk[p]` a call with its moment and what it has read |
| `PhaseExecution` | one phase measurement, by the formal adapter or the scripted one | `filed` and `receipts` are files, `claimed` the identities (a database or the memory of a process), `charge` the reservation, `agent[a]` a call, `starts` and `torn` history |
| `PerformanceRetry` | the recovery of a performance job | `perf`, `matter` and `card` are what the command reads of job, task with candidate, and device; `audit` its events; `ends` history |
| `FormalRound` | the measuring end of a formal round | `formal` has the states of round, task, members and context, `record` the rows of barriers, reveal, comparison and evidence, `account` the charges, `bundle` an evidence that was built outside of a transaction |
| `FormalSignoff` | its sign-off, on top of `FormalRound` | `signIntent`, `outbox` and `signoff` are rows, `store` the published artifacts, `publication[p]` what publisher p has in hand |
| `AgentGeneration` | a generation run and its dispatcher | `db` is the rows under the lock of the run: a transaction is an operator from a `db` to a `db`; `files`, `receipts` and `calls` are what is on disk and what has been paid; `dispatch[p]` is a `run-once` command |
| `AgentReview` | what people do with the proposals | `binding`, `reviews` and `packages` are immutable files, `run`, `candidate` and `origin` rows, `promotion[p]` and `closing` the commands under way |
| `ClockSession` | clock sessions and recoveries of one device | `journal` and `attempts` are the SQLite tables, `sess` and `recov` program counters, `device` the policy, `lease` what the control plane says |
| `TimingRun` | one measurement job on BW20 | `sess[s]`, `box[s]`, `line[s]` are session s, its container and its channel; `th[t]` says where the worker's two threads are; `own` is what they share: the factory's lock and closing flag, the cleaner's `fenced`, the adapter's gate and cached cleanup |
| `DockerRun` | one measurement job on nmz36 | `box[s]` is the container of a `docker run`, `owed[s]` its answers not read yet, `proc[s]` what the session knows; `main` is the handler, `beat` the heartbeat |
| `ServerRun` | a smoke run of a server, the same with a keeper, or an endpoint acquisition | `tree` are keeper, server and a child of it, `keep` is where the keeper is, `files` its records, `run` the runner, `sig` a signal to it |
| `GeneratorRun` | one attempt of a local generator | `proc` are the command and what it forks, `pipe` and `got` the bytes on the way and read, `over` the limits, `gen` the thread that runs the attempt |
| `WorkerLoopProofs`, `WorkflowProofs`, `SearchRoundProofs`, `OperatorProofs`, `FormalExecutionProofs`, `AgentProofs`, `MeasurementProofs` | the theorems about the modules each extends | `WorkerLoopProofs` is about `JobQueue` and `WorkerLoop`, `OperatorProofs` is about `OperatorStart`, `FormalSignoff` and `ClockSession`, `FormalExecutionProofs` about `FormalStart`, `PhaseExecution` and `PerformanceRetry`, `AgentProofs` about `AgentGeneration` and `AgentReview`, `MeasurementProofs` about the four parts that `MCMeasurement` adds to a worker |
| `Sums` | lemmas about sums over finite sets | what the budgets of `SearchRound` and `AgentGeneration` are proved with |
| `MCJobQueue`, `MCWorkerLoop`, `MCWorkflows`, `MCWorkflowsStart`, `MCSearchRound`, `MCAgentReview`, `MCRecoveries`, `MCMeasurement` | values for TLC | Four put parts that share nothing side by side: `MCRecoveries` generation, review, clock, start and sign-off; `MCJobQueue` the queue, phase execution and performance recovery; `MCWorkflowsStart` the workflows and the formal start; `MCMeasurement` a worker, the inside of its measurement jobs on both hosts, a server's run and a generator's attempt.  The initial state chooses the one that moves, so their states add up and do not multiply |

How they are connected.  `WorkerLoop` extends `JobQueue`: its workers use the
queue's own actions.  The workflows do not need leases or tokens, so they are
built on what `JobLifecycle` promises, and `JobQueue` is shown to implement
`JobLifecycle`; retries are inside "running".  `SearchRound` has the states and
attempts of the jobs of its task, which is what a reservation is bound to and
what a cancellation looks at, and no leases; `OperatorStart` drives it through an
instance.  `AgentReview` begins where `AgentGeneration` ends, with the retained
proposals of a run, and stands for the whole of `ManualCandidate` by one step.
`ClockSession` sees of the queue only who holds the device, `PhaseExecution` of the
round only its reservations, and `PerformanceRetry` of queue and workflow what its
command compares: the job, its task, the token of the device.  `TimingRun` and
`DockerRun` look inside one handler of `WorkerLoop`, which for its part takes the
cleaner's word: it assumes that a healthy cleanup leaves no container of the job.  `ServerRun`
looks inside one container, and `GeneratorRun` inside one attempt of a generator.

How code becomes actions.  A transaction is one action, because it locks the
rows it decides on (`SELECT ... FOR UPDATE`) and commits once.  A coordinator's
handler, a start, a promotion or a clock session is not: it is a sequence of
transactions, file publications or device writes, and between any two of them
other requests, an operator, a crash may come.  A read that a later write relies
on is a step of its own (`EnsureState`, `JudgeSmoke`, `ReadAgain`, `Turn`,
`ReadIntent`, `CheckPlan`, `LoadAuthority`, `CheckApply`, `BuildBundle`) and the write checks only what the code
checks again under its lock.  Operators whose name has a suffix after an
underscore and that no action uses (`ReservePhase_Replayed`, ...) are plausible
bugs: each stands before the definition it would replace, and shows that the
property named in `PROJECT.json` would notice.

## Runs

| Run | Bounds | Shows |
|---|---|---|
| `MCJobQueue` | two device jobs (one retry, no retry), one plain job, two devices, one worker name | 363,528 states, 149,883 of them the queue's: type, lease agreement, sole authority, clean hand-over, both refinements |
| | beside it, two requests, two calls, two identities, two plans, both phases, both adapters | 212,010 of these states: `PhaseAccounted` (`ReceiptsBacked` and `ReservationTrue`) |
| | beside it, four faults and others, a device whose tokens start at 43 to 45 and end at 50 | 1,635 of these states: `RetriesAccounted` |
| `MCWorkerLoop` | two workers, one device, one job with two attempts, one launch | 990,486 states: `DeviceExclusive`, `HandlerExclusive` |
| `MCMeasurement` | one worker, one device, one job with one attempt, two launches | 504,968 states, 3,115 of them the worker's: `RunsEnd` under weak fairness |
| | beside it, a Stage 0 probe or a performance job on BW20, a timer and two measured processes, one request each | 333,951 of these states: `CleanReportsHold`, `EvidenceRests`, and `JobReports` under weak fairness of both threads |
| | beside them, the same job on nmz36 with two requests each | 9,054 of these states: `CleanReportsHold`, `EvidenceRests` |
| | beside them, a server's run of each kind with two requests, a child of the server, a signal | 24,413 of these states: `CleanReportsHold`, `EvidenceRests`, and `JobReports` under weak fairness of the runner |
| | beside them, a generator's attempt: a forked process, up to three bytes a stream, two kept of a stream and three in all | 134,435 of these states: `CleanReportsHold`, `EvidenceRests`, and `JobReports` under weak fairness of the attempt's thread |
| `MCWorkerLoopKill` | as `MCWorkerLoop` | counterexample to "containers of a higher token are preserved" |
| `MCWorkflowsStart` | five workflows, two requests at a time, one crash, one retest, two candidates, two probes, two endpoint runs | 1,464,988 states: `DecisionsAreFinal`, `EvidenceInTime`, `TaskAndCandidateAgree`, `BarrierHolds` (`BarrierRespected` and `RoundNotForgotten`), `DecidedByOne`, `CampaignBacked` |
| | beside them, two calls, two keys, three moments | among these states: `StartVerdictStands`, `StartEndsForGood` |
| `MCWorkflowsLive` | the workflows with one candidate | 224,573 states: reconciliation catches up, but for the exceptions that `ReconciledMostly` names |
| `MCWorkflowsPoison` | Stage 0, two probes, no crash | counterexample: reconciliation blocked for ever |
| `MCWorkflowsSigned` | F1, one retest | counterexample: evidence newer than what was signed |
| `MCWorkflowsRound` | optimization, one candidate, one crash | counterexample: a round that is never closed |
| `MCSearchRound` | two members out of three candidates, at most one promoted, one job with two attempts, two reservations, budget 2, usage up to 2 | 862,216 states: the audit agrees and names a possible action, frozen families, evidence covers the ledger, the budget, rounds over for good |
| `MCRecoveries` | each of five parts: a generation run (one generator of two attempts with its dispatchers; two at a time; two in turn with up to three attempts); two proposals, four reviews with three keys, two candidate keys, two promotions; two sessions and two recoveries; two members, two reconcilers; two finalists, two charges, two publishers, two keys | 320,477 states: what is said below of generation, review, clocks, start and sign-off |
| `MCAgentReview` | the review part with one promotion and one candidate key | counterexample: a candidate whose origin is never recorded |

Why the bounds are enough.  In `JobQueue` one worker name suffices: it may
register again with any declaration, and every credential it was ever given is
presented by somebody at any time, so a second process adds nothing.  Two
attempts are what it takes to have a stale credential; two devices, what it
takes for a job to move from one to the other; `max_attempts` bounds the tokens,
so the queue's state space is finite without further limits.  In `WorkerLoop`
two workers and two attempts give an old process, a new one, and the lingering
heartbeat threads of both.  `MCMeasurement` adds the sweep between two launches; one
attempt is enough there, since a run waits only for its own heartbeat thread and
its own answers.  With two concurrent requests a handler meets another copy of
itself, a different handler, or an operator; one crash leaves one handler unfinished.
Two candidates, probes or runs are what a barrier needs.  In
`SearchRound` two members give every pair of a built member and one that failed,
and with one promoted, a member that the holdout must leave alone; a third
candidate is one that intake never sees, or that another client puts in a member's
place.  Two reservations of planned 1 or 2 against a budget of 2 are admitted
together, refused, or overrun, since an attempt may use 2 where 1 was planned; two
attempts of a job bind them one after the other.  Candidates are interchangeable
and so are reservation ids, which the run uses as symmetry.  In the parts of
`MCRecoveries` two of everything that dies give one that dies and one that starts
over, or two that overlap; the generation budgets are such that the attempts of a
plan use them up to the last unit, and the outcomes include one beyond the
reservation; two reviews share a key; a candidate of a start may be taken by
another round.  Two calls on two requests of phase execution meet on one request, or on
one identity; a third call would repeat what a call does after another has died.  The
three moments of a formal start are before, between and after those at which its two
authorities and its preview begin or cease to count.  The device of a performance
recovery may have been leased by others before and in between, so that the recovery's
tokens come up for its job, or for theirs.  Calls, keys, requests and identities are
interchangeable, and the two runs use that as symmetry.  A timer and two processes are a
session that is over, one in use and one to come, any of which may be abandoned; the
closing request is one more, so that one request is enough for an answer that comes late,
and two for one that is taken for a sample.  A server with one child, and a command with
one, give every order in which a leader and a member of its group end, leave it or are
reaped; two requests have one answered and one not.  Three bytes exceed what is kept of a
stream, and two and two what is kept of both.  The sign-off part starts with both finalists built.  The theorems
below hold for any number of all these.

Deadlock is not checked in any run: a queue whose jobs have all ended with their
devices quarantined for good, or a task that has been decided, is a proper end.
In the workflow runs claims go on for ever anyway, and a search round, a start, a
generation run, a device whose sessions are over and a job that is reported are at their
ends.

### What the counterexamples say

* **Kill by name.**  Cancelling an execution removes a container by a name that
  all attempts of the job share (`adapters/execution.py:349`, `:500`), while the
  cleaner goes by token.  The heartbeat thread of the attempt before, which is
  waited for one second only, may remove the present attempt's container.
* **Poison job.**  All probes of a Stage 0 run are enqueued together.  When one fails
  for good the run is failed, and `record_stage0_probe` (`repository.py:5793`) refuses
  the probes that succeed later.  `reconcile` has no handling per job, and every
  claim starts with it: one such job stops all claims.  No crash is needed.  Two
  variants need one and are why `ReconciledMostly` has exceptions: an F1 job that a
  crash left unmarked while the task went on (`repository.py:7946`), and an endpoint
  adjudication that is replayed after the sign-off
  (`storage/endpoint_validation.py:609`).
* **Signed evidence.**  The advance of the first smoke job reads the task's state
  late and ends the retest that has begun in between.
* **Forgotten round.**  The barrier is not re-entrant: once the winner has left
  `round_waiting`, a replay finds a candidate that is neither waiting nor
  rejected and gives up, and the job is marked as advanced.
* **Promotion lost.**  A promotion completes the review of its run
  (`deployment/bw20_agent_m1_promotion.py:162`) and records the origin of its
  candidate in a later transaction.  If it dies in between, every repetition is
  refused at its first step, which wants a run that awaits review; the candidate
  stays without an origin and can never be approved, against
  `docs/mvp-single-candidate-operations.md:89`.

### What the search round is held to

`reconcile_scripted_search_round` derives the state of a round and of its task
from the rows that exist, and raises when they disagree; `AuthorityAgrees` says that
after any sequence of transactions they do not.  It also tells the operator what
to do next; `NextActionPossible` says that the action named is one the transactions
accept, so that a round cannot be stuck between them (finalising also takes a
closed budget and a bundle of the present ledger, which are the operator's to
provide).  `FamiliesFrozen` relates each hash to the rows that later transactions go
on writing to.  `EvidenceCoversLedger` is about the one read outside of a transaction:
the bundle is built from a ledger that may have moved on, and `Finalize` recomputes its
hash.  `OverForGood` is about whatever arrives late.

The budget itself may be overrun: `reserve_round_budget` admits by what is planned
and outstanding plus what was really used, and a settlement reports any amount.
`BudgetOverrunOnlyInUse` says exactly how far that goes: with each attempt counted at
most at its plan, the round stays within its budget.

### What the recoveries are held to

* **Generation.**  `AttemptsAccounted` (attempts in turn, `AttemptsInTurn`; the ledger within
  its budget and each attempt charged once, `LedgerKept`) and `FamilyDecided` relate
  the attempts, the ledger, what the provider was paid and the proposals under
  review; `DecidedForGood` is about whatever settles, renews or reconciles late, and
  about evidence that was published before; `RunIsDecided` is progress.
* **Review.**  `ReviewsTraced`: a key is one review, under bindings and files that are
  published in two steps (`KeyIsOneReview`), and what is accepted has its history, although
  a promotion is five commits and a run may be closed as rejected beside it
  (`AcceptedIsTraced`).
* **Clocks.**  `DeviceAccounted`, `TakenOverOnce`, `SettledByItsClaimant`: a process may be
  paused between its check of ownership and its write to the device for any time.
* **Start.**  `StartKeepsItsWord`: the intent is never ahead of the round it speaks of,
  and crashes and races alone never fail it.
* **Sign-off.**  `FormalEvidenceStands`: the evidence goes on to say what the rows say,
  although charges are settled around it; `SignoffAudited`: what reconcile names next
  is possible, and what is signed is what was decided and published.
* **Formal start.**  `StartVerdictStands`: what a row says was true of the preview, the plan
  and the authorities at the moment it names, though each was read at another;
  `StartEndsForGood`: a call that read the row before its end does not bring it back.
* **Phase execution**, `PhaseAccounted`.  `ReservationTrue`: harness, reservation and files agree under
  overlapping and repeated calls; a reservation is left open only by a call that was torn,
  that is, died or raised after its reserve.  `ReceiptsBacked`: receipts speak of what was
  settled, and no two successes share an identity.
* **Performance recovery.**  `RetriesAccounted` relates the audit events to the history of
  terminal failures, the attempts and the task.

### What the measurements are held to

The properties of `MCMeasurement` put those of its parts together: `CleanReportsHold` is
`CleanReportIsFinal` on BW20 and `PartakersGone` on nmz36, `EvidenceRests` is `EvidenceStands`
and `OwnAnswersOnly`, `JobReports` is that `Reported` comes to hold.  For a server's run they
are `GroupAccounted`, `SuccessIsComplete` and `RunnerEnded`, for a generator's attempt
`AttemptLeavesNothing`, `ProposalIsWhole` and `AttemptEnded`.

* **BW20.**  `CleanReportIsFinal`: after a report that is clean, or a cleanup that the
  adapter has kept as clean, there is no container and none will appear, although the
  handler may have been opening a session, or waiting for the answer of `docker create`,
  while the heartbeat cleaned up.  `EvidenceStands`: what is filed rests on processes that
  were reaped by their own closing answers.  `Reported`: the gate of a job and the lock of
  its factory never hold both threads up, because a session that is opened under the lock
  looks at the event of the job and not behind the gate.
* **nmz36.**  `PartakersGone`: a container that has ever answered is gone when the job is
  reported clean; those that never did may come up after it (*late container*, below).  `OwnAnswersOnly`: an
  answer that comes after its request timed out is not taken for that of a sample, only for
  that of the closing request, which the record of the reaping then refuses
  (`measurement/nmz36_runtime.py:558-569`).
* **Server.**  `GroupAccounted`: a clean report leaves neither server nor child, though the
  leader may have ended before its group, and a server that is left behind has been sent
  SIGKILL.  `SuccessIsComplete` relates the result to the answers, the group, the cache and
  the keeper's records.  Both speak of runs in which the keeper has told which group is the
  server's (*unidentified server*, below).
* **Generator.**  `ProposalIsWhole`: the threads that read may lag behind the command, and what
  it has forked may go on writing; a proposal is all that was written all the same.
  `AttemptLeavesNothing`: no process of the group, nobody who holds a pipe, no directory with
  credentials.  A process that has left the group and closed its pipes is not seen by the
  code, nor promised by the property.

### Observed without a run

Met while modelling; each is in the model, where a property has an exception for it
or does not speak of it.

* `_require_live_lease` (`workers/handlers.py:632`) looks at a local flag, though
  `docs/walking-skeleton.md:42` has an old lease unable to go on: after a reap the
  worker still starts a container until its next heartbeat fails.  `DeviceExclusive`
  shows why this does no harm to other leases: the device stays quarantined until
  that process has reported, or an operator has cleaned up after it.
* A start whose round was closed, but whose intent does not know yet, is marked
  failed when a build terminal comes in between: the replayed close is refused
  (`repository.py:2056-2061`) because the members are no longer all accepted, and
  nothing about a build looks at the intent (`api/app.py:838-852`), against
  `docs/m2-operator-contract-draft.md:212-214`.  This is the last disjunct of `Disturbed`.
* A reservation whose attempt has been claimed may still be released
  (`repository.py:4935`).
* A formal round takes reservations while it awaits its sign-off
  (`repository.py:4804-4811`), so its ledger may grow after the evidence, and a replay
  of the finalisation is then refused rather than answered.
* `record_formal_barrier` compares neither the correctness evidence of the holdout with
  that of the search nor the number promoted with its limit; the finaliser then refuses
  what the barrier has let through, and nothing cancels a formal round.
* A session that is paused between its ownership check and its write to the device
  writes after a recovery (`deployment/bw20_auto_clock_session.py:95`): `late` in
  `DeviceAccounted`.
* `create_search_round` wants a finalised dry-run Stage 0 run (`repository.py:1641`); no
  code path finalises one, so the initial states of `SearchRound` are data put there by
  other means, as the tests do.
* A promotion that dies inside its worktree step leaves a worktree that a
  repetition is refused over (`adapters/git_source.py:79`) until it is removed by hand;
  and any repetition after full success is refused, too.  A run that is closed as
  rejected beside a promotion leaves a registered candidate although the closure says
  that none was created; `AcceptedIsTraced` shows that it is never accepted.
* An attempt whose batch exceeds its reservation is settled as failed, with the batch on
  record and no proposals (`storage/agent_generation.py:931-941`).  The verifier of the
  run's evidence looks for the proposal of every entry of a recorded batch
  (`evaluation/agent_proposal_verifier.py:753-757`) and refuses such a run.
* `deployment/bw20_m1_performance_recovery.py` revives a rejected task by hand.
  `DecisionsAreFinal` is about the system without it, `PerformanceRetry` about the command.
  It recognises the failed attempt's cleanup by a token it has as a literal (46 and up); a
  lease that another job took has tokens of the same sequence, so the evidence may be of
  another job's cleanup.
* A repeated reserve is never a replay: the entry is built with a new `created_at`
  (`measurement/m2_formal_runner.py`), which the comparison of the ledger includes.  A
  phase whose call died after its reserve keeps its reservation open: `torn` in
  `ReservationTrue`.
* `run` and `release_unstarted` file different bytes under one name (`_publish_once`), so
  that one that dies before its reserve bars the other for good.
* Late container.  When the startup of an nmz36 session times out
  (`measurement/nmz36_runtime.py:235`, `deployment/nmz36_m1_allocator.py:328`), the container
  is removed by name and the `docker run` command is left running, though `force_close`
  would kill it.  If the daemon has not made the container yet, the removal, the fence and
  the health check find nothing, and the device is handed back as one on which
  `no_adapter_owned_container_remains` (`adapters/resource_cleaner.py:104`).  The container
  comes up afterwards; its worker ends when it reads the end of its input.  This is why
  `PartakersGone` speaks only of containers that have answered.  BW20 does not
  have this: there a container that was asked for and has no known identity keeps the
  report from being clean (`deployment/bw20_timing_session.py:257`).
* Unidentified server.  A keeper that dies, or takes more than ten seconds, between the start
  of the server and `process-start.json` (`evaluation/sglang_smoke_runner.py:918-939`,
  `:876`) leaves the runner with the keeper's group: it stops that and reports a clean
  stop, while the server, which has a session of its own, goes on (`Unidentified`).  The
  run has failed, and the end of its container ends the server.
* A server that ends by itself before the stop, while the keeper still writes its record, is
  a cleanup that failed: its group is gone, and `process.wait(timeout=0)`
  (`evaluation/sglang_smoke_runner.py:670`) raises over the keeper.
* A group that vanishes right before SIGTERM is reported clean without a wait for the keeper
  (`evaluation/sglang_smoke_runner.py:673-675`), so the run may succeed before
  `process-exit.json` is there: the last disjunct of `SuccessIsComplete`.
* An endpoint run whose cache fails to be prepared half way does not know its directory, and
  reports it as removed (`evaluation/sglang_endpoint_runner.py:157`, `:358`).
* Identity hashes that are strings but no hashes pass `_validate_harness_result` and raise in
  `_measurement_ref`, outside of the `try`: the reservation stays open and there is no
  receipt, against
  `docs/plans/2026-09-02-m2a-formal-execution-adapter.md:39-41` (`RaiseMalformed`).
* `cancel_formal_start_intent` writes the moment its call began, which may be before the last
  reconciliation that is on record; `FormalStartIntentView` then refuses the row and
  no call can load it.  `StartVerdictStands` promises order for rows that are not
  cancelled.

## Fairness

* `WFairSpec`: weak fairness of each worker's main thread, nothing else.  Threads
  of a live process are scheduled; each HTTP request of the SDK has a timeout;
  each execution has one.  No fairness of the control plane, the network or
  the heartbeat threads is assumed.
* `ServedSpec`: weak fairness of serving a request's next transaction and of
  polling, since workers claim in a loop for ever.  This is enough for
  `ReconciledMostly`; nothing is assumed about workers or operators.
* `RouterFairSpec` adds strong fairness of claims and of ends of attempts: a queued
  job is claimed and an attempt ends (a worker answers, or the reaper takes
  over), whenever the control plane listens again and again.  It is used by the
  two liveness counterexamples of workflows, which are thus not due to idle workers.
  Operators and cancellations are never fair.
* `GenerationFairness`: the operator repeats `run-once` and `reconcile`, a command ends
  or dies, and nobody renews a lease for ever.  A dispatcher may die at any step all the
  same.
* `TimingFairness`: each of a worker's two threads goes on when it can, since every call they
  make has a timeout.  Nothing is assumed of the daemon or of the measured processes.
  `MCSpec` of `MCMeasurement` states `WFairSpec`, `TimingFairness` and those of the next item each for its own part.
* `ServerFairness` and `GeneratorFairness`: the runner's own thread goes on, as each of its waits
  has a deadline.  Nothing is assumed of servers, keepers, commands, the threads that read or
  the reaping of orphans.
* `FairReviewSpec`: a promotion that has not died goes on, and one that has died is
  given again for ever; the counterexample is thus not due to an operator who gives up.

## Proofs

Eight modules, for every value of the constants that satisfies the named assumptions
(NULL is not an id and not a row, amounts are natural numbers, sets of declarations and
plans are well typed, there is at least one member, candidate, probe and run; the moments
of a formal start are integers, no row is its `NoIntent`, and no identity of a measurement
is `NoMeasurement`, there are finitely many reservations; bounds of a generation run are naturals, its plan is
one that `ApexGenerationPlan` accepts (`PlanOK`) and its outcomes are batches or failures (`OutcomeOK`); at least one
process is measured, which is what `restart_count` demands, and limits of output are naturals
(`MeasurementAssumption`)).
Everything in them is proved to the last leaf.

| Module | Theorem | Statement |
|---|---|---|
| `WorkerLoopProofs` | `TypeCorrect` | `Spec => []TypeOK` |
| | `LeasesAgree` | `Spec => []LeaseOwnership` |
| | `OneAuthority` | `Spec => [](SoleAuthority /\ TokensUnique)` |
| | `HandoversClean` | `Spec => []CleanHandover` |
| | `QueueImplementsLifecycle` | `Spec => ImplementsJobLifecycle` |
| | `QueueImplementsLease` | `Spec => ImplementsFencedLease` |
| | `WorkersInvariant`, `WorkerTypes` | `WSpec => []WorkerInv`, `WSpec => []WTypeOK` |
| | `DevicesAreExclusive` | `WSpec => []DeviceExclusive` |
| | `HandlersAreExclusive` | `WSpec => []HandlerExclusive` |
| `WorkflowProofs` | `DecisionsStay` | `RouterSpec => DecisionsAreFinal` |
| | `StageDecidedByOne` | `RouterSpec => []DecidedByOne` |
| | `CampaignsAreBacked` | `RouterSpec => []CampaignBacked` |
| | `TaskAndCandidateStayTogether` | `RouterSpec => []TaskAndCandidateAgree` |
| | `EvidenceIsInTime` | `RouterSpec => []EvidenceInTime` |
| | `BarrierStands` | `RouterSpec => []BarrierHolds` |
| `SearchRoundProofs` | `TypeCorrect` | `Spec => []TypeOK` |
| | `AuthorityAlwaysAgrees` | `Spec => []AuthorityAgrees` |
| | `EvidenceAlwaysCovers` | `Spec => []EvidenceCoversLedger` |
| | `OverIsForGood` | `Spec => OverForGood` |
| | `FamiliesStayFrozen` | `Spec => []FamiliesFrozen` |
| | `OverrunsAreUse` | `Spec => []BudgetOverrunOnlyInUse` |
| `OperatorProofs` | `StartInvariant`, `StartsKeepTheirWord` | `StartSpec => []StartInv`, `StartSpec => []StartKeepsItsWord` |
| | `FormalInvariant` | `SignSpec => [](FormalInv /\ SignInv)` |
| | `EvidenceStands`, `SignoffsAudited` | `SignSpec => []FormalEvidenceStands`, `SignSpec => []SignoffAudited` |
| | `ControlInvariant`, `ClockTypesHold` | `ClockSpec => []CInv`, `ClockSpec => []CTypeOK` |
| | `DeviceIsAccounted`, `OneTakesOver` | `ClockSpec => []DeviceAccounted`, `ClockSpec => []TakenOverOnce` |
| | `ClaimantSettles` | `ClockSpec => SettledByItsClaimant` |
| `FormalExecutionProofs` | `StartVerdictsStand`, `StartsEndForGood` | `FormalStartSpec => []StartVerdictStands`, `FormalStartSpec => StartEndsForGood` |
| | `PhasesAreAccounted` | `PhaseSpec => []PhaseAccounted` |
| | `RetriesAreAccounted` | `RetrySpec => []RetriesAccounted` |
| `AgentProofs` | `GenerationInvariant` | `GenerationSpec => []GenerationInv` |
| | `AttemptsAreAccounted` | `GenerationSpec => []AttemptsAccounted` |
| | `FamiliesAreDecided` | `GenerationSpec => []FamilyDecided` |
| | `DecisionsStand` | `GenerationSpec => DecidedForGood` |
| | `ReviewInvariant` | `ReviewSpec => []ReviewInv` |
| | `KeysAreReviews`, `AcceptedAreTraced` | `ReviewSpec => []KeyIsOneReview`, `ReviewSpec => []AcceptedIsTraced` |
| | `ReviewsAreTraced` | `ReviewSpec => []ReviewsTraced`, their conjunction |
| `MeasurementProofs` | `MeasurementInvariant` | `MCInit /\ [][MCNext]_mcvars => []MInv` |
| | `CleanReportsTheorem` | `MCSpec => []CleanReportsHold` |
| | `EvidenceTheorem` | `MCSpec => []EvidenceRests` |

**Queue.**  `LeaseOwnership` is inductive relative to `TypeOK`: transactions
that end a job all go through `_release_resource`, whose effect is one lemma
(`ReleaseEffect`, `ReleaseLeases`).  `SoleAuthority` is not inductive: it needs
`TokenBook`, which says that claim and fencing tokens have been drawn in order,
that no two credentials share one, and that a running job's row is the image of
the credential it was claimed with.  Most transactions draw no token, so
`StepShape` divides the steps into quiet ones and claims, and only claims need
work.  `CleanHandover` needs `CleanBook`: a device that is available and was
leased before has evidence for its present token, and one that does not exist
has token 0, which is why registration must not reset tokens.  The retry bound
needs `Budget`, because `claim_job` compares nothing: whatever puts a job back in
the queue has made sure that an attempt is left.  Both refinements go step by
step: what a transaction does to one job (`Move`) and to one device
(`LeaseMove`) is a step of the abstract specification, or none.

**Workers.**  Assuming `OperatorWaits` (below).  The queue is seen only through what
its own proofs say of any step (`QueueSteps`), and its effect on a device through two
shapes: the lease is kept, or it is freed.  `StillHeld` says that a process that has not
yet vouched for its device still has it, leased or quarantined under its token;
`TruthKnown` and `TruthTold`, that what a thread knows of the device, and what a request
under way says of it, is true for as long as the token is the present one.
`DeviceExclusive` and `HandlerExclusive` follow.

**Workflows.**  `DecisionsAreFinal` needs no more than that the rows have their columns:
it is shown operation by operation.  For the others, `Holds` says which
operations the requests have still to do, and that each is for a job that has succeeded,
however often and however late it is done; `Before` and `AllBefore`, that one of them is
still to be done before another.  `StageInv` adds how run, records and
authority of a Stage 0 task agree, `EndpointInv` what has been told to a campaign
(`Told`) and that runs, their tasks and their jobs go on together.

A manual candidate and its task are moved apart, so `ManualInv` ties what is left to be
done to the results it rests on (`Due`): a request can only mean to ask the operator when
the adjudication was won, to reject when a job was lost.  `Chain` says that each job is
there only when the one before has brought the candidate on, so that these results
exclude each other; `ManualOrder`, that the verdict comes before the candidate and the
candidate before the task.  `SmokeInv` is the same for a smoke task: what is judged is on
record, or will be before it is judged (`SmokeOrder`), and once a run that passed is on
record, it stays (`Backed`).

The barrier takes most.  Any request that settles a candidate may find the round over,
and all of them choose the same candidate: `Chosen` says which, and that nothing that can
still happen changes the choice.  `RoundDue` ties operations to results and to
the choice, `RoundOrder` puts the candidates before all that is done for them.  That the
round is not forgotten needs a witness, which moves: `Linked` says that some operations
of a request stand right before certain others, from settling a candidate through the
barrier to the job of the validation, and `Awake` that as long as nobody has died some request's next
operation is the one the round waits for.

**Search rounds.**  `AuthorityAgrees` is almost inductive: its antecedent lets a round that
does not exist yet have rows, so `Untouched` says that it has none (`IInv`).
`OverForGood` needs `Closed`: neither end of a round leaves a reservation open, so
that there is nothing left to settle; then no action changes a round that is over
(`OverStep`), only two actions end one (`EndingStep`), and the ledger that
`Finalize` compared is the ledger for ever.  `FamiliesFrozen` is inductive relative to `IInv`,
which says at each barrier which of the rows exist; `SameFamilies` reduces its steps
to the fact that the barriers and the cancellation write states into members and leave
their candidate and artifact alone.

`BudgetOverrunOnlyInUse` compares sums over reservations with the budget, and is nearly
inductive: `LedgerKnows` adds that the entries of the ledger are of reservations that exist, and
that have been settled when an entry says so.  A reservation is admitted by what was really used,
which is no less than what is counted (`ReserveFits`); a settlement takes an amount out of one sum and adds
no more to the other.

**Sums.**  A sum is a fold, so it is defined by recursion over the subsets of a set.
Induction over an operator is out of the prover's reach, but first-order induction is not: of all
subsets that lack a property, given as a set of subsets, one is least (`SetInduction`, from the
library's theorem that proper inclusion is well-founded on finite sets).  From it follow that a sum does not depend on the
order (`SumTakeOut`), is monotone (`SumMore`, `SumAtMost`), and may be taken in parts
(`SumParts`) or class by class (`SumByKey`).

**Starts.**  `StartKeepsItsWord` is not inductive: between the transaction on the round and
the one on the intent only a program counter says what has been done.  `StepsMean` says
what each counter stands for, `RoundOK` that members and family never change once they
are there, `FailTogether` that a member of the intent fails only with the intent; a
disturbance never goes away (`DisturbedStays`).

**Formal starts.**  A call reads row, plan and authorities one after another and records
what it has concluded later, at the moment it had begun: `ClerkKnows` says what a call has
found out at each step.  What it has found stays true (`ReasonStays`), since authorities
that are published stay and a plan that has drifted stays so; therefore `RowStands`, what the row
says of the moment it names, however late it is written.

**Phases.**  `PhaseAccounted` speaks of what is left when a call is over; in between, the
call that made a reservation owns it.  `OneOwner` says that there is one at most, `OwnerKnows` what its
step says of charge, files and claim, `ChargeKnows` that a reservation which is open or
has no receipt yet is owned, or was torn by a death.  `ClaimsApart` and `ReceiptsKnow` carry
that over to identities and receipts.

**Performance recovery.**  `RetryInv` adds to `RetriesAccounted` that a queued job has an
attempt left, and that the last of `ends` is the fault and the attempt of a job that has failed, which is
what an authorization compares; `NextFault` is what appending to the audit means.

**Sign-offs.**  `RowsOfState` says which rows a state stands for, `RowsAgree` how they
relate, `EvidenceIsRows` and `LedgerStands` what the evidence has hashed, `DecisionInStep`
and `PublishedAreAuthentic` what intent, outbox and publishers know of each other.  The
artifacts of a round stay (`ArtifactsStay`), and what finalisation compares under its lock
freezes the ledger the bundle was built from (`EvidenceFreezes`).

**Generation.**  A transaction is made of stages, each of which takes rows to rows, so the
invariant is in two parts.  `CoreOK` is what every stage keeps: attempts are numbered
without a gap and all but the last of a generator have failed (`InTurn`), no more run than may
(`FewRun`), the ledger has an entry for each attempt that has ended and none for the others
(`LedgerOK`), and the proposals of an attempt are numbered from one to what it was charged for
(`RefsOK`).  `RunOK` holds between transactions: the run has the sums of the rows
(`CountedOK`), a run that is over has nothing live and a final family (`DecisionOK`), and
what is published is what the rows say (`PublicationOK`).  `Keeps` and `Moves` are all that the
files need to know of a transaction: attempts that have ended stay, those that have begun have begun
for good, and only the attempt that is settled ends otherwise than in full.  `DispatchersOK`,
`FilesOK` and `ReceiptsTell` tie commands, markers, receipts and payments to the rows: no
two commands have the same attempt, an attempt that is being started was never paid for, and
with a dispatcher an attempt is charged what its receipt says, or its reservation.

The budget (`BudgetFits`) is no simple bound, since the plan pays for the proposals of one attempt of
each generator only while every retry reserves them again.  An attempt is live or charged,
never both, so reservations and charges are one sum over all attempts (`OneCharge`), which is
taken generator by generator (`SumByKey`).  A generator makes at most `max_attempts` attempts
of at most its units each (`BoundedRows`); a failed attempt is charged no proposals and all but
the last have failed, so its proposals are those of its last attempt (`LastRowOnly`).  What the contract of the
plan compares is these bounds.  So `generation_budget_corrupt` cannot be reached.

That the family has exactly one proposal for each patch needs that there is a first one: generators
are numbers (`LeastNumber`), and no two proposals of an attempt share an ordinal.  `DecidedForGood` follows
from `DecisionOK`: nothing is live in a decided run, so nothing can be claimed, renewed,
settled or made to expire (`DecidedStep`).

**Reviews.**  `StepsAreBehind` says what a promotion has behind it at each step, and
`WritesStay` that nothing of it can change any more, whatever else is being written;
`StoredIsBound`, `OriginIsTraced` and `AcceptedHasOrigin` are the rest of `ReviewInv`.

**Clocks.**  `CInv` says what a session or a recovery knows while it has control:
`OwnerKnows` of a session that still holds the lease, `ClaimsMatch` of a recovery and its
operation, `VerifiedHolds` of a program that has seen the device in order, `ManualIsOpen`
of the device; `OneOpen` and `OpenIsHeld` of the journal.  Control that is lost never comes
back.

**Measurements.**  The four parts share no variable but the job and its lease, so each has an invariant of its
own, and `MInv` is that of the part that moves.  TLC found `MInv` to hold on the instance of
the run before it was proved; it is not repeated there.

On BW20 (`TimingInv`) two threads clean up, with and after each other, and may both be in a
session that main is still opening.  `Final` says when a session can have no container any
more: it is closed, and was never tried, or what it made is known and gone.  `Quiet`
adds those that the factory has not listed and, since it is closing, will not; these are what a
cleaner does not see.  `CleanIsFinal` says that whatever is called clean, by a
session, a cleaner's fence, the adapter's cache or the report, rests on that.  It is inductive
by three lemmas that divide the work: no step takes back what makes a session final
(`Kept`), each verdict that a step writes rests on sessions that are (`Founded`), and
these two suffice (`CleanStays`).  `Opened` is what `Kept` needs: sessions are listed, tried and known
in order, and a session that has not been tried has no container.  For the evidence,
`LineCounted` says that an open channel owes an answer exactly while main waits for one: a
timeout cuts the channel, so that no answer is taken for that of a later request;
`TimingReapedInTurn`, that main is at a process only when all before it were reaped.  `Threads` says
that the heartbeat only cleans up, and only after the lease was lost.

On nmz36 (`DockerInv`) the parts are the same with one thread and no channel to cut:
`InTurn`, `OwnAnswers`, `DockerReapedInTurn`, `DockerClean`, and `Remembered`, that what went
wrong is still known when evidence is filed.

A server's run (`ServerInv`) knows its server by what the keeper has published.  `KeeperTells` says
which processes there are for each place the keeper can be at, dead or alive; `GroupStopped`,
that a group which was seen empty stays empty, and that one which may not be was sent
SIGKILL; `RunnerKnows` and `ResultTold`, what a run without an error has behind it.

A generator's attempt (`GenInv`) has threads that read what processes write which may have left
the group.  `GenRead` says that a thread at its end has read all, and that nobody holds its pipe
any more; `GenCounted`, that what was not found beyond the limits is within; `GenCleaned` and
`GenDecided`, what each status rests on.

The type invariants that are proved here are, but for the queue's, not repeated in the
runs.

Only model-checked: `NextActionPossible`, which speaks of ENABLED, and all liveness
(the leads-to and eventuality properties of the runs, `JobReports` among them), which are out of the
prover's reach.

## Abstractions and assumptions

* `uuid4` never returns a token twice.
* Time: a lease is fresh or expired; the reaper takes any expired one, and, where
  `ReapFresh` holds, any running one, because `stale_after_seconds` is the
  caller's choice and may be below the lease time.  The leases of generation attempts
  may expire at any time.
* `claim_job` orders by age; the model lets it take any claimable row, since
  `SKIP LOCKED` passes over rows that other transactions hold.
* `OperatorWaits`: an operator cleans a quarantined device only when the process
  that had leased it is gone.  The worker itself keeps to that rule: it reports
  evidence only after its handler has returned.  Without the assumption
  `DeviceExclusive` does not hold, since nothing in the code enforces it.
* The cleaner's fence and health check are one step.  Nobody but the run that
  owns the device starts containers on it (`HandlerExclusive`), and containers
  only disappear in between.
* `RemoveName`: `docker rm` at timeout and at cancellation may fail or time out; the
  execution ends all the same (`adapters/execution.py:281-300`) and its container
  stays, for `Sweep` and `CleanupJob` to find.  `BeatKills` removes the container of any one
  launch of the job.  A `docker run` whose client has been killed makes no container
  afterwards in `WorkerLoop`; the code would not notice one that does (*late container*).
* The deployments' `resource_guard` is one more reason for a run to fail or for
  evidence to be unhealthy; both may happen in the model at any time.  The
  executor's own high-water mark for tokens never bites in a process whose runs
  follow one another, and is left out.
* Checks that a result belongs to its own job and candidate are left out, as
  workers answer for the job they claimed.
* One task per model: workflows share no rows between tasks.  The jobs of a job queue
  that have failed and those that were cancelled are one phase of the workflows, "over".
* `SearchRound` has one charge kind for the seven that a budget limits, each of which is
  compared alone, and `AgentGeneration` one unit for wall time, output and tokens, which
  follow the same rules.  Bundles, plans and statistics are values whose checks depend on
  data only: the search barrier may give members any results that fit their artifacts
  and promote any of the measured ones, up to the limit; which are best is not modelled.
  Requests that are replayed or refused change nothing and are left out, except where a
  crash, a reconcile or a later step depends on how they are answered.
* A file's name is made of what it holds, so publishing it twice is publishing it once;
  keys that have signed are trusted by the verifier.
* Calls of a formal start may see any time from their begin on: the clock moves on its own,
  up to a last moment.  `revalidate` may find a drift at any time.
* A phase's checks against round, authorization and window come before its first effect;
  a call that fails them is not modelled.  The scripted registry's `commit` looks at the
  identities and then adds them, without a lock (`measurement/m2_runner.py:124-130`); both are
  one step of `Publish`, which is exact as long as threads do not share a runner.
* In `TimingRun` and `DockerRun` any call may fail at any time, with or without its effect.  A
  guard is one look at the lease and the session; the second look of some is left out,
  because the lease may be lost right after either.  The last guard of `open` and
  `create_attempted = True` (`deployment/bw20_timing_session.py:150-151`) are one step: the
  heartbeat can come between them only at the timer of a performance job, and the
  handler's own cleanup comes after both.  Telemetry is a choice that the health
  check ties to what it looks at.  The cleaner of nmz36 sees the containers of its own job
  only, since no other job has the device (`DeviceExclusive`).
* A signal to a server's runner raises between two calls, not inside of one.  The endpoint
  runner has no handlers, so a signal kills it.  A SIGTERM or SIGKILL that was sent may be
  heeded at any time or never, since processes may hang in the driver.
* `GeneratorRun` is the POSIX side; job objects of Windows are left out.  Usage is within its
  limit, beyond it, or unreadable.
* The clock sessions are those of one device, whose policy is default, the session's, or
  that of a device that was changed under it.

## Not modelled, and why

* Statistics, verifiers, builders, evaluators, contracts, and the generators but for the local
  command: functions on data, often on real numbers, without interleaving.  A verdict is a Boolean, or a choice
  of states.
* The acceptance store of formal evidence inserts once under unique keys and has no state
  machine.
* Worktrees and staging directories of builds and promotions: private to a command until
  their result is published, which is modelled.
* `ProposalPromotionService.finalize`, the receipt that binds a promoted proposal to a
  scripted round, has no caller in `src/`.
* The runtime overlay probe is a sequence of containers with cleanup, the shape of a
  `WorkerLoop` handler.
* The other deployment scripts and the viewers: sequential glue.  Migrations: a linear script under a
  lock.

## Plan

Done: the queue, the worker loop, the router with five workflows, the scripted round, its
start, the formal start, the formal round with its sign-off, phase execution, generation,
review and promotion, clock sessions, performance recovery, measurement jobs on both hosts,
server runs, generator attempts; proofs of every safety property of the runs that is within the
prover's reach.  Left, in this order:

1. Capability sessions and the rest of the resource guard, next to `TimingRun` and
   `ClockSession`.
2. Progress of starts and sign-offs under the fairness of a repeated reconcile.
3. The combined transaction of the reaper over jobs of several workflows.

The number of runs is kept small: as modules are added, parts that share nothing are put
side by side in one run.
