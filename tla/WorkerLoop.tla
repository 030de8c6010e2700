----------------------------- MODULE WorkerLoop -----------------------------
(***************************************************************************)
(* The worker process (workers/sdk.py) around the queue: run_once with its *)
(* main and heartbeat threads, a device handler (workers/handlers.py), the *)
(* executor and resource cleaner that start and remove containers          *)
(* (adapters/), and an HTTP connection that delays and loses requests.     *)
(*                                                                         *)
(* Processes pause and die at any point.  A heartbeat request is one step  *)
(* that may come arbitrarily late.  complete, fail and cleanup requests    *)
(* travel through the net: the client may give up on one that is           *)
(* delivered later.  Whether a lease has expired is not observed by these  *)
(* handlers, so heartbeat ages are left out: the reaper may call anytime.  *)
(***************************************************************************)
EXTENDS JobQueue

CONSTANTS
    Launches,        \* containers a handler starts, one after the other
    OperatorWaits    \* does an operator clean only after the lease's process is gone?

ASSUME LaunchesAssumption == Launches \in Nat \ {0}
ASSUME OperatorWaitsAssumption == OperatorWaits \in BOOLEAN

VARIABLES
    main,         \* main[w]: the main thread of worker w
    beats,        \* the heartbeat threads, those of earlier runs included
    containers,   \* the managed containers on the devices
    net           \* requests sent and not yet received by the control plane

wvars == <<vars, main, beats, containers, net>>

-----------------------------------------------------------------------------
(* A run is identified by its credential.  A container carries the labels  *)
(* of its run and a name made of the request id only, which every attempt  *)
(* of the job shares.                                                      *)

Awaiting == {"completing", "failing", "reporting"}

MainPC == {"idle", "first", "check", "run", "exec", "sweep", "after", "join", "final",
           "cleanup"} \cup Awaiting

Idle == [pc |-> "idle", cred |-> None, lost |-> FALSE, healthy |-> FALSE,
         left |-> 0, answer |-> "none"]

MainType == [pc : MainPC, cred : Credential \cup {None}, lost : BOOLEAN,
             healthy : BOOLEAN, left : 0 .. Launches, answer : {"none", "ok", "refused"}]

BeatType == [cred : Credential, pc : {"wait", "send", "cancel", "kill", "fence"}, stop : BOOLEAN]

Container(m) == [resource |-> m.cred.resource, fence |-> m.cred.fence,
                 name |-> <<m.cred.job, m.left>>]

\* One type invariant for the processes, the containers and the net.
WTypeOK ==
    /\ TypeOK
    /\ main \in [Worker -> MainType]
    /\ beats \subseteq BeatType
    /\ \A k \in containers : k.resource \in Resource /\ k.fence \in Nat
    /\ \A m \in net : m.cred \in issued

\* Workers have registered and jobs are waiting.
WInit ==
    /\ jobs = [j \in Job |-> [state |-> "queued", attempts |-> 0, claim |-> 0,
                              worker |-> None, resource |-> None, fence |-> 0,
                              fresh |-> FALSE]]
    /\ resources = [r \in Resource |-> [state |-> "available", owner |-> None, fence |-> 0]]
    /\ workers \in [Worker -> Registrations]
    /\ uuid = 0 /\ issued = {} /\ cleaned = {}
    /\ main = [w \in Worker |-> Idle]
    /\ beats = {} /\ containers = {} /\ net = {}

-----------------------------------------------------------------------------
(* What threads and operators do to containers.                            *)

OnDevice(r) == {k \in containers : k.resource = r}

\* ContainerResourceCleaner.fence: newer leases' containers are preserved.
\* docker rm may fail on any of them.
Fence(r, token) == \E failed \in SUBSET {k \in OnDevice(r) : k.fence <= token} :
    containers' = {k \in containers : k.resource = r /\ k.fence <= token => k \in failed}

\* fence and health_check: evidence is healthy only if nothing failed and no
\* managed container is left; the device check may fail as well.
CleanUp(r, token, healthy) ==
    /\ Fence(r, token)
    /\ healthy => \A k \in containers' : k.resource # r

-----------------------------------------------------------------------------
(* The main thread: Worker.run_once.                                       *)

\* Ownership as a heartbeat request finds it.
Owned(c) == AssertJobOwner(c) /\ jobs[c.job].worker = c.worker

Goto(w, pc) == main' = [main EXCEPT ![w].pc = pc]

\* claim: the response may be lost after the transaction has committed.
WClaim(w, j, r) ==
    /\ main[w].pc = "idle"
    /\ ClaimLeasedJob(w, j, r)
    /\ \/ \E c \in issued' \ issued :
             main' = [main EXCEPT ![w] = [Idle EXCEPT !.pc = "first", !.cred = c,
                                                      !.left = Launches]]
       \/ UNCHANGED main
    /\ UNCHANGED <<beats, containers, net>>

\* The heartbeat before the handler; the heartbeat thread starts after it.
FirstHeartbeat(w) ==
    /\ main[w].pc = "first"
    /\ \/ /\ Owned(main[w].cred)
          /\ Goto(w, "check")
          /\ beats' = beats \cup {[cred |-> main[w].cred, pc |-> "wait", stop |-> FALSE]}
       \/ Goto(w, "cleanup") /\ UNCHANGED beats
    /\ UNCHANGED <<vars, containers, net>>

\* _require_live_lease looks at the local flag only.
RequireLiveLease(w) ==
    /\ main[w].pc = "check"
    /\ Goto(w, IF main[w].lost THEN "cleanup" ELSE "run")
    /\ UNCHANGED <<vars, beats, containers, net>>

\* docker run; it fails if the name is taken.
Launch(w) ==
    LET k == Container(main[w]) IN
    /\ main[w].pc = "run"
    /\ IF \E o \in containers : o.name = k.name
       THEN Goto(w, "sweep") /\ UNCHANGED containers
       ELSE Goto(w, "exec") /\ containers' = containers \cup {k}
    /\ UNCHANGED <<vars, beats, net>>

\* docker rm --force of a container name: it may fail, or time out.
RemoveName(name) == \/ containers' = {k \in containers : k.name # name}
                    \/ UNCHANGED containers

\* The execution ends: its container has exited before (ContainerExits), or is
\* removed by name at timeout and cancellation.  When that fails, or when the
\* docker client is lost, the container stays.
ExecutionEnds(w) ==
    /\ main[w].pc = "exec"
    /\ RemoveName(Container(main[w]).name)
    /\ Goto(w, "sweep")
    /\ UNCHANGED <<vars, beats, net>>

\* Mutant: the handler takes the exit status of docker rm for evidence.
Sweep_NoResidual(w) ==
    LET c == main[w].cred IN
    /\ main[w].pc = "sweep"
    /\ \E healthy \in BOOLEAN :
          /\ Fence(c.resource, c.fence)
          /\ \E pc \in {"cleanup", IF main[w].left = 1 THEN "after" ELSE "check"} :
                /\ pc = "check" => healthy
                /\ main' = [main EXCEPT ![w].healthy = healthy,
                                        ![w].left = @ - 1,
                                        ![w].pc = pc]
    /\ UNCHANGED <<vars, beats, net>>

\* The handler's finally clause.  Between two launches only healthy evidence
\* lets it go on; after the last one the evidence becomes part of the result.
\* An exception of the execution or of its evaluation leaves the handler.
Sweep(w) ==
    LET c == main[w].cred IN
    /\ main[w].pc = "sweep"
    /\ \E healthy \in BOOLEAN :
          /\ CleanUp(c.resource, c.fence, healthy)
          /\ \E pc \in {"cleanup", IF main[w].left = 1 THEN "after" ELSE "check"} :
                /\ pc = "check" => healthy
                /\ main' = [main EXCEPT ![w].healthy = healthy,
                                        ![w].left = @ - 1,
                                        ![w].pc = pc]
    /\ UNCHANGED <<vars, beats, net>>

\* The handler has returned: flag, heartbeat, stop the heartbeat thread.
AfterHandler(w) ==
    /\ main[w].pc = "after"
    /\ \/ /\ ~ main[w].lost /\ Owned(main[w].cred)
          /\ Goto(w, "join")
          /\ beats' = {IF b.cred = main[w].cred THEN [b EXCEPT !.stop = TRUE] ELSE b : b \in beats}
       \/ Goto(w, "cleanup") /\ UNCHANGED beats
    /\ UNCHANGED <<vars, containers, net>>

\* join(timeout=35): an error if the thread is still alive.
JoinHeartbeat(w) ==
    /\ main[w].pc = "join"
    /\ Goto(w, IF \E b \in beats : b.cred = main[w].cred THEN "cleanup" ELSE "final")
    /\ UNCHANGED <<vars, beats, containers, net>>

Send(w, kind, healthy) ==
    net' = net \cup {[kind |-> kind, cred |-> main[w].cred, healthy |-> healthy]}

\* The last flag check and heartbeat, then complete.
SendComplete(w) ==
    /\ main[w].pc = "final"
    /\ \/ /\ ~ main[w].lost /\ Owned(main[w].cred)
          /\ Goto(w, "completing")
          /\ Send(w, "complete", main[w].healthy)
       \/ Goto(w, "cleanup") /\ UNCHANGED net
    /\ UNCHANGED <<vars, beats, containers>>

\* Mutant: the except clause takes the exit status of docker rm for evidence.
CleanupJob_NoResidual(w) ==
    LET c == main[w].cred IN
    /\ main[w].pc = "cleanup"
    /\ \E healthy \in BOOLEAN :
          /\ Fence(c.resource, c.fence)
          /\ main' = [main EXCEPT ![w].pc = "failing", ![w].healthy = healthy,
                                  ![w].answer = "none"]
          /\ Send(w, "fail", healthy)
    /\ UNCHANGED <<vars, beats>>

\* The except clause: clean up, then report the failure with the evidence.
CleanupJob(w) ==
    LET c == main[w].cred IN
    /\ main[w].pc = "cleanup"
    /\ \E healthy \in BOOLEAN :
          /\ CleanUp(c.resource, c.fence, healthy)
          /\ main' = [main EXCEPT ![w].pc = "failing", ![w].healthy = healthy,
                                  ![w].answer = "none"]
          /\ Send(w, "fail", healthy)
    /\ UNCHANGED <<vars, beats>>

\* run_once returns; its heartbeat thread is told to stop, but waited for
\* one second only.
End(w) ==
    /\ main' = [main EXCEPT ![w] = Idle]
    /\ beats' = {IF b.cred = main[w].cred THEN [b EXCEPT !.stop = TRUE] ELSE b : b \in beats}

\* The answer to a request arrives.
Answered(w) ==
    /\ main[w].pc \in Awaiting
    /\ main[w].answer # "none"
    /\ IF main[w].answer = "ok" \/ main[w].pc = "reporting"
       THEN End(w) /\ UNCHANGED net
       ELSE IF main[w].pc = "completing"
            THEN Goto(w, "cleanup") /\ UNCHANGED <<beats, net>>
            ELSE /\ main' = [main EXCEPT ![w].pc = "reporting", ![w].answer = "none"]
                 /\ Send(w, "report", main[w].healthy)
                 /\ UNCHANGED beats
    /\ UNCHANGED <<vars, containers>>

\* Mutant: only the requests of the except clause have a time limit.
TimeOut_NotForComplete(w) ==
    /\ main[w].pc \in Awaiting \ {"completing"}
    /\ IF main[w].pc = "reporting"
       THEN End(w) /\ UNCHANGED net
       ELSE /\ main' = [main EXCEPT ![w].pc = "reporting", ![w].answer = "none"]
            /\ Send(w, "report", main[w].healthy)
            /\ UNCHANGED beats
    /\ UNCHANGED <<vars, containers>>

\* No answer in time: as good as a refusal, whatever became of the request.
TimeOut(w) ==
    /\ main[w].pc \in Awaiting
    /\ IF main[w].pc = "reporting"
       THEN End(w) /\ UNCHANGED net
       ELSE IF main[w].pc = "completing"
            THEN Goto(w, "cleanup") /\ UNCHANGED <<beats, net>>
            ELSE /\ main' = [main EXCEPT ![w].pc = "reporting", ![w].answer = "none"]
                 /\ Send(w, "report", main[w].healthy)
                 /\ UNCHANGED beats
    /\ UNCHANGED <<vars, containers>>

-----------------------------------------------------------------------------
(* The heartbeat thread: Worker._heartbeat_loop.                           *)

Beat(b, pc) == beats' = (beats \ {b}) \cup {[b EXCEPT !.pc = pc]}

BeatWakes(b) ==
    /\ b.pc = "wait"
    /\ IF b.stop THEN beats' = beats \ {b} ELSE Beat(b, "send")
    /\ UNCHANGED <<vars, main, containers, net>>

\* On any error the run's lease_lost flag is set, and the thread cleans up.
BeatSends(b) ==
    /\ b.pc = "send"
    /\ \/ Owned(b.cred) /\ Beat(b, "wait") /\ UNCHANGED main
       \/ /\ Beat(b, "cancel")
          /\ main' = [w \in Worker |-> IF main[w].cred = b.cred
                                       THEN [main[w] EXCEPT !.lost = TRUE] ELSE main[w]]
    /\ UNCHANGED <<vars, containers, net>>

\* executor.cancel: is the request running in this process?
BeatCancels(b) ==
    LET m == main[b.cred.worker] IN
    /\ b.pc = "cancel"
    /\ Beat(b, IF m.pc \in {"run", "exec"} /\ m.cred.job = b.cred.job THEN "kill" ELSE "fence")
    /\ UNCHANGED <<vars, main, containers, net>>

\* docker rm --force by the name of the execution that was found.
BeatKills(b) ==
    /\ b.pc = "kill"
    /\ \E n \in 1 .. Launches : RemoveName(<<b.cred.job, n>>)
    /\ Beat(b, "fence")
    /\ UNCHANGED <<vars, main, net>>

\* Mutant: the heartbeat thread reports its evidence itself, although the
\* handler may still be running.
BeatFences_Reports(b) ==
    /\ b.pc = "fence"
    /\ CleanUp(b.cred.resource, b.cred.fence, TRUE)
    /\ net' = net \cup {[kind |-> "report", cred |-> b.cred, healthy |-> TRUE]}
    /\ beats' = beats \ {b}
    /\ UNCHANGED <<vars, main>>

\* The thread removes what it finds and is done: the evidence is dropped.
BeatFences(b) ==
    /\ b.pc = "fence"
    /\ Fence(b.cred.resource, b.cred.fence)
    /\ beats' = beats \ {b}
    /\ UNCHANGED <<vars, main, net>>

-----------------------------------------------------------------------------
(* The rest of the world.                                                  *)

\* The process dies; its containers do not.
Crash(w) ==
    /\ main[w].pc # "idle"
    /\ main' = [main EXCEPT ![w] = Idle]
    /\ beats' = {b \in beats : b.cred.worker # w}
    /\ UNCHANGED <<vars, containers, net>>

ContainerExits(k) ==
    /\ containers' = containers \ {k}
    /\ UNCHANGED <<vars, main, beats, net>>

\* The pc at which a client waits for the answer to such a request.
WaitsAt(kind) == CASE kind = "complete" -> "completing"
                   [] kind = "fail"     -> "failing"
                   [] kind = "report"   -> "reporting"

Reply(m, answer) ==
    LET w == m.cred.worker IN
    main' = IF main[w].cred = m.cred /\ main[w].pc = WaitsAt(m.kind)
            THEN [main EXCEPT ![w].answer = answer] ELSE main

\* The control plane serves a request.
Deliver(m) ==
    /\ net' = net \ {m}
    /\ \/ m.kind = "complete" /\ CompleteJob(m.cred, m.healthy) /\ Reply(m, "ok")
       \/ m.kind = "fail" /\ FailJob(m.cred, TRUE, m.healthy) /\ Reply(m, "ok")
       \/ /\ m.kind = "report"
          /\ ReportResourceCleanup(m.cred.resource, m.cred.fence, m.healthy)
          /\ Reply(m, "ok")
       \/ /\ m.kind \in {"complete", "fail"} /\ ~ AssertJobOwner(m.cred)
          /\ Reply(m, "refused") /\ UNCHANGED vars
       \/ /\ m.kind = "report"
          /\ \/ resources[m.cred.resource].fence # m.cred.fence
             \/ resources[m.cred.resource].state # "quarantined"
          /\ Reply(m, "refused") /\ UNCHANGED vars
    /\ UNCHANGED <<beats, containers>>

Drop(m) == net' = net \ {m} /\ UNCHANGED <<vars, main, beats, containers>>

\* An operator removes what is left on a quarantined device and vouches for it.
OperatorCleans(r) ==
    /\ OperatorWaits => \A w \in Worker : main[w].pc # "idle" =>
          main[w].cred.resource # r \/ main[w].cred.fence # resources[r].fence
    /\ CleanUp(r, resources[r].fence, TRUE)
    /\ ReportResourceCleanup(r, resources[r].fence, TRUE)
    /\ UNCHANGED <<main, beats, net>>

Server == /\ \/ \E S \in SUBSET Job : RecoverStaleJobs(S)
             \/ \E j \in Job : CancelJob(j)
          /\ UNCHANGED <<main, beats, containers, net>>

MainStep(w) == \/ FirstHeartbeat(w) \/ RequireLiveLease(w) \/ Launch(w) \/ ExecutionEnds(w)
               \/ Sweep(w) \/ AfterHandler(w) \/ JoinHeartbeat(w) \/ SendComplete(w)
               \/ CleanupJob(w) \/ Answered(w) \/ TimeOut(w)

WNext ==
    \/ \E w \in Worker, j \in Job, r \in Resource : WClaim(w, j, r)
    \/ \E w \in Worker : MainStep(w) \/ Crash(w)
    \/ \E b \in beats : BeatWakes(b) \/ BeatSends(b) \/ BeatCancels(b) \/ BeatKills(b) \/ BeatFences(b)
    \/ \E k \in containers : ContainerExits(k)
    \/ \E m \in net : Deliver(m) \/ Drop(m)
    \/ \E r \in Resource : OperatorCleans(r)
    \/ Server

WSpec == WInit /\ [][WNext]_wvars

\* Threads of a live process are scheduled, requests time out after 30
\* seconds and executions after their own limit; nothing else is promised.
WFairSpec == /\ WSpec
             /\ \A w \in Worker : WF_wvars(MainStep(w))

-----------------------------------------------------------------------------
(* What must hold.                                                         *)

\* A device that the control plane shows as available is empty, and on a
\* leased one only containers of the present lease run; with revoked leases,
\* dying processes, late reports and docker commands that fail, so that a
\* container outlives its execution and the cleanup after it.  It rests on
\* evidence being collected after the handler has returned, and on operators
\* who wait for the old process (run_once, _report_cleanup_after_handler_exit).
DeviceExclusive ==
    \A k \in containers :
        resources[k.resource].state \in {"available", "active"} =>
           /\ resources[k.resource].state = "active"
           /\ k.fence = resources[k.resource].fence

\* At most one process at a time is inside a handler for a device, so none is
\* about to start a container on a device that another one has leased, even
\* when it does not know yet that its own lease is gone.
HandlerExclusive ==
    \A v, w \in Worker :
        /\ v # w
        /\ main[v].pc \in {"check", "run", "exec", "sweep"}
        /\ main[w].pc \in {"check", "run", "exec", "sweep"}
        => main[v].cred.resource # main[w].cred.resource

\* Every run ends: neither a lost answer nor a heartbeat thread that does not
\* stop can keep run_once from returning, so the worker claims again.
RunsEnd == \A w \in Worker : main[w].pc # "idle" ~> main[w].pc = "idle"

\* docs/f1-b-execution-safety.md: containers with a higher token must be
\* preserved by whoever cleans up after an older lease.
NewerContainersPreserved ==
    [][\A b \in beats : BeatKills(b) \/ BeatFences(b) =>
          \A k \in containers \ containers' : k.fence <= b.cred.fence]_wvars
=============================================================================
