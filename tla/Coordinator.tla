---------------------------- MODULE Coordinator ----------------------------
(***************************************************************************)
(* What the workflow coordinators (orchestrator/) share.  A coordinator    *)
(* advances a succeeded job: it runs a handler, which is a sequence of     *)
(* separately committed transactions, and then marks the job as advanced.  *)
(*                                                                         *)
(* Handlers run inside API requests: inline in the request that completes  *)
(* the job, and again in every claim, which first reconciles all jobs that *)
(* succeeded and are not yet marked.  Requests run concurrently, so that   *)
(* several of them may be advancing the same job; a request that meets an  *)
(* exception, or whose process dies, leaves its handler unfinished.        *)
(*                                                                         *)
(* The job queue is seen as in JobLifecycle; retries are part of being     *)
(* "running", and no coordinator asks whether a job that is "over" has     *)
(* failed or was cancelled.  One task is modelled.                         *)
(***************************************************************************)
EXTENDS Naturals, Sequences, StateGraphs

CONSTANTS
    Call,         \* API requests being served at a time
    MaxCrashes    \* how many requests may die half-way

ASSUME MaxCrashesAssumption == MaxCrashes \in Nat

VARIABLES
    phase,      \* phase[j]: the job's state
    passed,     \* passed[j]: the verdict in the result of a succeeded job
    unadvanced, \* the succeeded jobs without workflow_advanced_at, by finished_at
    state,      \* state[e]: the states of the task and its candidates
    calls,      \* the requests being served
    crashes     \* how many have died so far

base == <<phase, passed, unadvanced, state, calls, crashes>>

-----------------------------------------------------------------------------
(* Tasks and candidates.                                                   *)

Task         == <<"task", 0>>
Candidate(n) == <<"candidate", n>>

Moves(e) == IF e = Task THEN TaskMoves(state[e]) ELSE CandidateMoves(state[e])

\* Does s come after t on the path?  (Neither, unless both are on it.)
After(path, s, t) ==
    \E i, k \in DOMAIN path : path[i] = s /\ path[k] = t /\ i > k

-----------------------------------------------------------------------------
(* A handler is a sequence of operations, each a transaction of its own.   *)

Op(do, who, to) == [do |-> do, who |-> who, to |-> to]
Ensure(e, s)    == Op("ensure", e, s)       \* _ensure_task_state, _ensure_candidate_state
MoveTo(e, s)    == Op("move", e, s)         \* transition_task, transition_candidate
Enqueue(j)      == Op("enqueue", j, "queued")
Do(what, j)     == Op(what, j, "-")
Mark(j)         == Do("mark", j)

Idle == [kind |-> "idle", todo |-> <<>>, queue |-> <<>>]

Next1(k)      == Head(calls[k].todo)
Now(k, do)    == calls[k].todo # <<>> /\ Next1(k).do = do
Replace(k, s) == calls' = [calls EXCEPT ![k].todo = s \o Tail(@)]
Skip(k)       == Replace(k, <<>>)

\* An exception ends the request; its job stays unmarked.
Raise(k) == calls' = [calls EXCEPT ![k] = Idle]

\* Mutant: the candidate's or task's present state is not checked again.
Move_Unchecked(k) ==
    /\ Now(k, "move")
    /\ state' = [state EXCEPT ![Next1(k).who] = Next1(k).to]
    /\ Skip(k)
    /\ UNCHANGED <<phase, passed, unadvanced, crashes>>

\* transition_task, transition_candidate: a locked read, the graph, a write.
Move(k) ==
    /\ Now(k, "move")
    /\ IF Next1(k).to \in Moves(Next1(k).who)
       THEN state' = [state EXCEPT ![Next1(k).who] = Next1(k).to] /\ Skip(k)
       ELSE Raise(k) /\ UNCHANGED state
    /\ UNCHANGED <<phase, passed, unadvanced, crashes>>

\* enqueue_job: the idempotency key makes a second time harmless.
EnqueueOne(k) ==
    /\ Now(k, "enqueue")
    /\ phase' = [phase EXCEPT ![Next1(k).who] = IF @ = "absent" THEN "queued" ELSE @]
    /\ Skip(k)
    /\ UNCHANGED <<passed, unadvanced, state, crashes>>

\* mark_job_advanced: the job leaves the list, where it stands at most once.
MarkAdvanced(k) ==
    /\ Now(k, "mark")
    /\ \/ \E i \in DOMAIN unadvanced :
             /\ unadvanced[i] = Next1(k).who
             /\ unadvanced' = SubSeq(unadvanced, 1, i - 1)
                                \o SubSeq(unadvanced, i + 1, Len(unadvanced))
       \/ /\ \A i \in DOMAIN unadvanced : unadvanced[i] # Next1(k).who
          /\ UNCHANGED unadvanced
    /\ Skip(k)
    /\ UNCHANGED <<phase, passed, state, crashes>>

-----------------------------------------------------------------------------
(* Requests.                                                               *)

\* POST complete: the job succeeds, and the request goes on to advance it.
CompleteJob(k, j, ok) ==
    /\ calls[k] = Idle
    /\ phase[j] = "running"
    /\ phase' = [phase EXCEPT ![j] = "succeeded"]
    /\ passed' = [passed EXCEPT ![j] = ok]
    /\ unadvanced' = Append(unadvanced, j)
    /\ calls' = [calls EXCEPT ![k] = [kind |-> "complete", todo |-> <<>>, queue |-> <<j>>]]
    /\ UNCHANGED <<state, crashes>>

\* POST claim: reconcile() reads the list of jobs once, before it starts.
Reconcile(k) ==
    /\ calls[k] = Idle
    /\ calls' = [calls EXCEPT ![k] = [kind |-> "claim", todo |-> <<>>, queue |-> unadvanced]]
    /\ UNCHANGED <<phase, passed, unadvanced, state, crashes>>

\* A request turns to its next job; the handler is what its first reads say.
Turn(k, handler) ==
    /\ calls[k].todo = <<>> /\ calls[k].queue # <<>>
    /\ calls' = [calls EXCEPT ![k].todo = handler, ![k].queue = Tail(@)]
    /\ UNCHANGED <<phase, passed, unadvanced, state, crashes>>

Done(k) == calls[k].kind # "idle" /\ calls[k].todo = <<>> /\ calls[k].queue = <<>>

\* Reconciliation is through, and claim_job follows, with a job or without.
ClaimJob(k, j) ==
    /\ Done(k) /\ calls[k].kind = "claim"
    /\ phase[j] = "queued"
    /\ phase' = [phase EXCEPT ![j] = "running"]
    /\ calls' = [calls EXCEPT ![k] = Idle]
    /\ UNCHANGED <<passed, unadvanced, state, crashes>>

Return(k) ==
    /\ Done(k)
    /\ calls' = [calls EXCEPT ![k] = Idle]
    /\ UNCHANGED <<phase, passed, unadvanced, state, crashes>>

\* The process that serves a request dies.
Crash(k) ==
    /\ calls[k] # Idle
    /\ crashes < MaxCrashes
    /\ crashes' = crashes + 1
    /\ calls' = [calls EXCEPT ![k] = Idle]
    /\ UNCHANGED <<phase, passed, unadvanced, state>>

\* POST cancel of one job: nothing is told to its workflow.
CancelJob(j) ==
    /\ phase[j] \in {"queued", "running"}
    /\ phase' = [phase EXCEPT ![j] = "over"]
    /\ UNCHANGED <<passed, unadvanced, state, calls, crashes>>
=============================================================================
