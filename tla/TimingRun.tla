------------------------------ MODULE TimingRun ------------------------------
(***************************************************************************)
(* One measurement job on the BW20 device: the session of the timer and    *)
(* the sessions of the measured processes, one container and one channel   *)
(* each, the factory that opens and finishes them, the harness that        *)
(* measures, the cleaner, and the two threads that use all of it           *)
(* (src/src/hcuopt/deployment/bw20_timing_session.py,                      *)
(* bw20_timing_transport.py, bw20_stage0_adapter.py,                       *)
(* bw20_stage0_telemetry.py, bw20_m1_session.py, bw20_m1_factory.py,       *)
(* src/src/hcuopt/measurement/harness.py and m1_harness.py).               *)
(*                                                                         *)
(* Thread "main" is the worker's handler.  Thread "beat" is the heartbeat, *)
(* which cleans up as soon as it finds the lease lost, whatever main is    *)
(* doing then; what it reports is main's affair.  Two kinds of jobs: a     *)
(* probe of Stage 0, whose adapter keeps one cleanup per job behind a gate *)
(* (state.lock), and a manual performance job ("m1").  Every call of the   *)
(* daemon, of a process or of the lease guard may fail at any time; the    *)
(* answer of a call that failed may still have had its effect.             *)
(*                                                                         *)
(* Statistics, telemetry values, staging and the clock of the device       *)
(* (ClockSession) are left out, and a guard is one test of the lease.      *)
(***************************************************************************)
EXTENDS Naturals, FiniteSets

CONSTANTS
  Workloads, \* how many processes are measured, one after the other
  Asks       \* requests made of each process before it is closed

VARIABLES
  job,    \* "stage0" or "m1"
  box,    \* box[s]: the container of session s, as the daemon knows it
  sess,   \* sess[s]: attributes of the session object
  line,   \* line[s]: its channel: open?, who is asking, answers still owed
  th,     \* th[t]: where thread t is, the session it handles, what follows
  own,    \* attributes of factory, cleaner and adapter that threads share
  lost,   \* has the lease been lost?
  run     \* main's run: exception pending?, requests, evidence, report

timingVars == <<job, box, sess, line, th, own, lost, run>>

Session == 0 .. Workloads
Timer == 0
Thread == {"main", "beat"}
Listed == {s \in Session : sess[s].listed}
First(set) == CHOOSE s \in set : \A r \in set : s <= r

TimingInit ==
  /\ job \in {"stage0", "m1"}
  /\ box = [s \in Session |-> "none"]
  /\ sess = [s \in Session |->
       [listed |-> FALSE, closed |-> FALSE, tried |-> FALSE, known |-> FALSE,
        ready |-> FALSE, reaped |-> FALSE, clean |-> FALSE]]
  /\ line = [s \in Session |-> [chan |-> "none", busy |-> "nobody", owed |-> 0]]
  /\ th = [t \in Thread |->
       [at |-> IF t = "beat" THEN "idle" ELSE IF job = "m1" THEN "open" ELSE "build",
        s |-> Timer, then |-> "none", todo |-> {}, ok |-> TRUE]]
  /\ own = [lock |-> "nobody", closing |-> FALSE, fenced |-> FALSE,
            gate |-> "nobody", built |-> job = "m1", cache |-> "none"]
  /\ lost = FALSE
  /\ run = [err |-> FALSE, asks |-> 0, round |-> 1, stale |-> FALSE,
            file |-> "none", report |-> "none"]

At(t, at) == th[t].at = at
Go(t, at) == th' = [th EXCEPT ![t].at = at]
S(t) == th[t].s

\* An exception leaves main's harness: nothing is measured any more.
Raise == run' = [run EXCEPT !.err = TRUE]

\* _guard: neither the session nor the lease is gone.
Guard(s) == ~sess[s].closed /\ ~lost

\* The session fails: force_close, and then as the caller goes on.
Fail(t, then) == th' = [th EXCEPT ![t].at = "shut", ![t].then = then, ![t].ok = FALSE]

-----------------------------------------------------------------------------
(* The world: the daemon answers when it likes.                            *)

BoxMoves(s) ==
  /\ \/ box[s] = "asked" /\ \E b \in {"none", "made"} : box' = [box EXCEPT ![s] = b]
     \/ box[s] = "made" /\ line[s].chan # "none" /\ box' = [box EXCEPT ![s] = "up"]
     \/ box[s] = "up" /\ box' = [box EXCEPT ![s] = "gone"]
  /\ UNCHANGED <<job, sess, line, th, own, lost, run>>

\* The heartbeat finds the lease lost; the handler of the job's type cleans up.
LoseLease ==
  /\ At("beat", "idle")
  /\ lost' = TRUE
  /\ Go("beat", IF job = "stage0" THEN "adapter" ELSE "finish")
  /\ UNCHANGED <<job, box, sess, line, own, run>>

-----------------------------------------------------------------------------
(* Opening a session (main only).                                          *)

\* Stage 0 builds its harness behind the gate, unless it was stopped before.
BeginBuild ==
  /\ At("main", "build")
  /\ own.gate = "nobody"
  /\ IF lost THEN /\ run' = [run EXCEPT !.err = TRUE, !.round = 2]
                  /\ Go("main", "adapter") /\ UNCHANGED own
             ELSE /\ own' = [own EXCEPT !.gate = "main"]
                  /\ Go("main", "building") /\ UNCHANGED run
  /\ UNCHANGED <<job, box, sess, line, lost>>

EndBuild ==
  /\ At("main", "building")
  /\ \E built \in BOOLEAN :
       /\ own' = [own EXCEPT !.gate = "nobody", !.built = built]
       /\ \/ built /\ ~lost /\ Go("main", "open") /\ UNCHANGED run
          \/ /\ run' = [run EXCEPT !.err = TRUE, !.round = 2]
             /\ Go("main", "adapter")
  /\ UNCHANGED <<job, box, sess, line, lost>>

\* Mutant: a session looks behind the gate whether its job was stopped.
Attempt_Gated ==
  /\ At("main", "attempt")
  /\ own.gate = "nobody"
  /\ LET s == S("main") IN
       \/ /\ Guard(s)
          /\ sess' = [sess EXCEPT ![s].tried = TRUE]
          /\ Go("main", "create")
       \/ Fail("main", "unopened") /\ UNCHANGED sess
  /\ UNCHANGED <<job, box, line, own, lost, run>>

\* The factory holds its lock while it opens a session, except for the timer
\* of a performance job, which is only listed under the lock.
Holds(s) == ~(job = "m1" /\ s = Timer)

Enter ==
  /\ At("main", "open")
  /\ own.lock = "nobody"
  /\ \/ /\ ~own.closing
        /\ sess' = [sess EXCEPT ![S("main")].listed = TRUE]
        /\ own' = IF Holds(S("main")) THEN [own EXCEPT !.lock = "main"] ELSE own
        /\ Go("main", "attempt")
        /\ UNCHANGED run
     \/ /\ Raise /\ Go("main", "measured")
        /\ UNCHANGED <<sess, own>>
  /\ UNCHANGED <<job, box, line, lost>>

\* Guards and staging, and from here on a container may exist. The session of
\* a measured process of a performance job guards once more before it creates.
Attempt ==
  /\ At("main", "attempt")
  /\ LET s == S("main") IN
       \/ /\ Guard(s)
          /\ sess' = [sess EXCEPT ![s].tried = TRUE]
          /\ Go("main", "create")
       \/ Fail("main", "unopened") /\ UNCHANGED sess
  /\ UNCHANGED <<job, box, line, own, lost, run>>

\* docker create: answered with the identity of the container, refused, or its
\* answer lost, and then it may have been carried out, or may be later.
Create ==
  /\ At("main", "create")
  /\ LET s == S("main") IN
       \/ /\ Holds(s) /\ job = "m1" => Guard(s)
          /\ box' = [box EXCEPT ![s] = "made"]
          /\ sess' = [sess EXCEPT ![s].known = TRUE]
          /\ Go("main", "startup")
       \/ /\ \E b \in {"none", "asked", "made"} : box' = [box EXCEPT ![s] = b]
          /\ Fail("main", "unopened")
          /\ UNCHANGED sess
  /\ UNCHANGED <<job, line, own, lost, run>>

\* The container is inspected, and started with a channel attached to it.
StartUp ==
  /\ At("main", "startup")
  /\ LET s == S("main") IN
       \/ /\ Guard(s) /\ box[s] = "made"
          /\ box' = [box EXCEPT ![s] = "up"]
          /\ line' = [line EXCEPT ![s].chan = "open"]
          /\ Go("main", "ready")
       \/ /\ Fail("main", "unopened")
          /\ \/ UNCHANGED line
             \/ Guard(s) /\ line' = [line EXCEPT ![s].chan = "open"]
          /\ UNCHANGED box
  /\ UNCHANGED <<job, sess, own, lost, run>>

Unlock(t) == IF own.lock = t THEN [own EXCEPT !.lock = "nobody"] ELSE own

\* The process reports itself ready and is bound to its host process.
Ready ==
  /\ At("main", "ready")
  /\ LET s == S("main") IN
       \/ /\ Guard(s) /\ box[s] = "up"
          /\ sess' = [sess EXCEPT ![s].ready = TRUE]
          /\ own' = Unlock("main")
          /\ run' = [run EXCEPT !.asks = 0]
          /\ Go("main", "ask")
       \/ Fail("main", "unopened") /\ UNCHANGED <<sess, own, run>>
  /\ UNCHANGED <<job, box, line, lost>>

\* The failed session has been closed; the exception leaves factory and loop. A
\* performance job that fails before it has a timer object closes none.
Unopened ==
  /\ At("main", "unopened")
  /\ own' = Unlock("main")
  /\ Raise /\ Go("main", "measured")
  /\ UNCHANGED <<job, box, sess, line, lost>>

-----------------------------------------------------------------------------
(* Requests, close and force_close.                                        *)

\* A request is written; only one thread may be in a channel.
Written(t, s) ==
  /\ Guard(s) /\ sess[s].ready
  /\ line[s].chan = "open" /\ line[s].busy = "nobody"
  /\ line' = [line EXCEPT ![s].busy = t, ![s].owed = @ + 1]

Ask ==
  /\ At("main", "ask")
  /\ run.asks < Asks
  /\ \/ Written("main", S("main")) /\ Go("main", "answer") /\ UNCHANGED run
     \/ Raise /\ Fail("main", "asked") /\ UNCHANGED line
  /\ UNCHANGED <<job, box, sess, own, lost>>

\* What is read is the answer to the oldest request not answered yet.
Read(s) ==
  /\ box[s] = "up" /\ line[s].chan = "open"
  /\ line' = [line EXCEPT ![s].busy = "nobody", ![s].owed = @ - 1]
  /\ run' = [run EXCEPT !.stale = @ \/ line[s].owed > 1,
                        !.asks = @ + 1]

\* Mutant: after a timeout the request is made again on the same channel.
Answer_Retried ==
  /\ At("main", "answer")
  /\ LET s == S("main") IN
       \/ Read(s) /\ Guard(s) /\ Go("main", "ask")
       \/ /\ line' = [line EXCEPT ![s].busy = "nobody"]
          /\ Go("main", "ask") /\ UNCHANGED run
       \/ /\ line' = [line EXCEPT ![s].busy = "nobody", ![s].chan = "cut"]
          /\ Raise /\ Fail("main", "asked")
  /\ UNCHANGED <<job, box, sess, own, lost>>

\* A request that fails or times out cuts the channel and closes the session.
Answer ==
  /\ At("main", "answer")
  /\ LET s == S("main") IN
       \/ Read(s) /\ Guard(s) /\ Go("main", "ask")
       \/ /\ line' = [line EXCEPT ![s].busy = "nobody", ![s].chan = "cut"]
          /\ Raise /\ Fail("main", "asked")
  /\ UNCHANGED <<job, box, sess, own, lost>>

\* Main is through with a process. The timer of Stage 0 stays open for the
\* cleaner, that of a performance job is cut off by force_close, a measured
\* process is closed. An exception before the requests leaves it as it is.
Enough ==
  /\ \/ At("main", "asked")
     \/ At("main", "ask") /\ run.asks = Asks
  /\ LET s == S("main") IN
       \/ /\ s = Timer /\ job = "stage0"
          /\ th' = [th EXCEPT !["main"].at = IF run.err THEN "measured" ELSE "open",
                              !["main"].s = 1]
       \/ s = Timer /\ job = "m1" /\ th' = [th EXCEPT !["main"].at = "shut",
                                                      !["main"].then = "next"]
       \/ s # Timer /\ th' = [th EXCEPT !["main"].at = "close", !["main"].then = "next"]
  /\ UNCHANGED <<job, box, sess, line, own, lost, run>>

Abandon ==
  /\ At("main", "ask") /\ run.asks = 0 /\ S("main") # Timer
  /\ Raise /\ Go("main", "measured")
  /\ UNCHANGED <<job, box, sess, line, own, lost>>

\* close: nothing to do on a closed session; else the process is asked to end.
Close(t) ==
  /\ At(t, "close")
  /\ LET s == S(t) IN
       \/ /\ sess[s].closed
          /\ th' = [th EXCEPT ![t].at = th[t].then, ![t].ok = sess[s].clean]
          /\ UNCHANGED line
       \/ Written(t, s) /\ Go(t, "last")
       \/ ~sess[s].closed /\ Fail(t, th[t].then) /\ UNCHANGED line
  /\ UNCHANGED <<job, box, sess, own, lost, run>>

\* The closing answer shows the child reaped, and the container ends. An
\* answer that is no closing answer is refused.
Reap(t) ==
  /\ At(t, "last")
  /\ LET s == S(t) IN
       \/ /\ Guard(s) /\ box[s] = "up" /\ line[s].chan = "open" /\ line[s].owed = 1
          /\ line' = [line EXCEPT ![s].busy = "nobody", ![s].owed = 0]
          /\ box' = [box EXCEPT ![s] = "gone"]
          /\ sess' = [sess EXCEPT ![s].reaped = TRUE]
          /\ th' = [th EXCEPT ![t].at = "shut", ![t].ok = TRUE]
       \/ /\ line' = [line EXCEPT ![s].busy = "nobody", ![s].chan = "cut"]
          /\ Fail(t, th[t].then)
          /\ UNCHANGED <<box, sess>>
  /\ UNCHANGED <<job, own, lost, run>>

\* Mutant: a session that knows no container is taken to have none.
Shut_Trusting(t) ==
  /\ At(t, "shut")
  /\ sess' = [sess EXCEPT ![S(t)].closed = TRUE, ![S(t)].clean = ~sess[S(t)].known]
  /\ Go(t, "sweep")
  /\ UNCHANGED <<job, box, line, own, lost, run>>

\* force_close: from here on every guard fails. Clean, so far, only if no
\* container was ever asked for.
Shut(t) ==
  /\ At(t, "shut")
  /\ sess' = [sess EXCEPT ![S(t)].closed = TRUE, ![S(t)].clean = ~sess[S(t)].tried]
  /\ Go(t, "sweep")
  /\ UNCHANGED <<job, box, line, own, lost, run>>

\* The container is inspected, removed by its identity and inspected again: it
\* is gone, or its state is unknown. Then the channel is aborted.
Sweep(t) ==
  /\ At(t, "sweep")
  /\ LET s == S(t) IN
       /\ \/ /\ sess[s].known
             /\ box' = [box EXCEPT ![s] = "gone"]
             /\ sess' = [sess EXCEPT ![s].clean = TRUE]
          \/ /\ sess[s].known
             /\ \E b \in {box[s], "gone"} : box' = [box EXCEPT ![s] = b]
             /\ sess' = [sess EXCEPT ![s].clean = FALSE]
          \/ ~sess[s].known /\ UNCHANGED <<box, sess>>
       /\ line' = [line EXCEPT ![s].chan = IF @ = "open" THEN "cut" ELSE @]
  /\ th' = [th EXCEPT ![t].at = th[t].then, ![t].ok = @ /\ sess'[S(t)].clean]
  /\ UNCHANGED <<job, own, lost, run>>

-----------------------------------------------------------------------------
(* The harness after a process, and at its end.                            *)

\* A process of which there is no reaping record ends the measurement.
NextProcess ==
  /\ At("main", "next")
  /\ LET s == S("main")
         fine == ~run.err /\ (s = Timer \/ (th["main"].ok /\ sess[s].reaped)) IN
       /\ run' = [run EXCEPT !.err = ~fine]
       /\ th' = IF fine /\ s < Workloads
                THEN [th EXCEPT !["main"].at = "open", !["main"].s = s + 1]
                ELSE [th EXCEPT !["main"].at = "measured"]
  /\ UNCHANGED <<job, box, sess, line, own, lost>>

\* Stage 0 files its evidence before it cleans up.
Measured ==
  /\ At("main", "measured")
  /\ run' = [run EXCEPT !.file = IF job = "stage0" /\ ~run.err THEN "evidence" ELSE @]
  /\ Go("main", "finish")
  /\ UNCHANGED <<job, box, sess, line, own, lost>>

\* The harness judges its own cleanup; a performance job files its evidence
\* only now. What failed is cleaned up, and reported, by adapter or worker.
Judged ==
  /\ At("main", "judged")
  /\ LET ok == th["main"].ok
         good == ~run.err /\ ok IN
       \/ /\ run.round = 1
          /\ run' = IF job = "m1" /\ good
                    THEN [run EXCEPT !.file = "evidence", !.report = "clean"]
                    ELSE [run EXCEPT !.err = ~good, !.round = 2]
          /\ Go("main", IF job = "stage0" THEN "adapter"
                        ELSE IF good THEN "over" ELSE "finish")
       \/ /\ run.round = 2
          /\ run' = [run EXCEPT !.report = IF ok THEN "clean" ELSE "dirty"]
          /\ Go("main", "over")
  /\ own' = IF own.gate = "main"
            THEN [own EXCEPT !.gate = "nobody", !.cache = IF th["main"].ok THEN "clean" ELSE "dirty"]
            ELSE own
  /\ UNCHANGED <<job, box, sess, line, lost>>

BeatJudged ==
  /\ At("beat", "judged")
  /\ own' = IF own.gate = "beat"
            THEN [own EXCEPT !.gate = "nobody", !.cache = IF th["beat"].ok THEN "clean" ELSE "dirty"]
            ELSE own
  /\ Go("beat", "over")
  /\ UNCHANGED <<job, box, sess, line, lost, run>>

-----------------------------------------------------------------------------
(* Cleaning up (either thread).                                            *)

\* cleanup_probe: one cleanup per job; who comes later gets its result.
Adapter(t) ==
  /\ At(t, "adapter")
  /\ own.gate = "nobody"
  /\ \/ /\ own.cache # "none"
        /\ th' = [th EXCEPT ![t].at = "judged", ![t].ok = (own.cache = "clean")]
        /\ UNCHANGED own
     \/ /\ own.cache = "none" /\ ~own.built
        /\ own' = [own EXCEPT !.cache = "dirty"]
        /\ th' = [th EXCEPT ![t].at = "judged", ![t].ok = FALSE]
     \/ /\ own.cache = "none" /\ own.built
        /\ own' = [own EXCEPT !.gate = t]
        /\ Go(t, "finish")
  /\ UNCHANGED <<job, box, sess, line, lost, run>>

\* fence and finish: no session is opened any more. The cleaner of a
\* performance job refuses to vouch for a job that has no session at all.
Finish(t) ==
  /\ At(t, "finish")
  /\ \/ /\ job = "m1" /\ Listed = {}
        /\ th' = [th EXCEPT ![t].at = "health", ![t].ok = FALSE]
        /\ UNCHANGED own
     \/ /\ job = "stage0" \/ Listed # {}
        /\ own.lock = "nobody"
        /\ own' = [own EXCEPT !.lock = t, !.closing = TRUE]
        /\ th' = [th EXCEPT ![t].at = "pass", ![t].todo = Listed]
  /\ UNCHANGED <<job, box, sess, line, lost, run>>

\* First every session is closed in good order, whatever comes of it, ...
ClosePass(t) ==
  /\ At(t, "pass")
  /\ IF th[t].todo # {}
     THEN th' = [th EXCEPT ![t].at = "close", ![t].then = "pass",
                           ![t].s = First(th[t].todo), ![t].todo = @ \ {First(@)}]
     ELSE th' = [th EXCEPT ![t].at = "sweeps", ![t].todo = Listed]
  /\ UNCHANGED <<job, box, sess, line, own, lost, run>>

\* ... and then every one is swept, and the factory asks whether all are clean.
SweepPass(t) ==
  /\ At(t, "sweeps")
  /\ IF th[t].todo # {}
     THEN /\ th' = [th EXCEPT ![t].at = "shut", ![t].then = "sweeps",
                              ![t].s = First(th[t].todo), ![t].todo = @ \ {First(@)}]
          /\ UNCHANGED own
     ELSE /\ th' = [th EXCEPT ![t].at = "fenced", ![t].ok = \A s \in Listed : sess[s].clean]
          /\ own' = Unlock(t)
  /\ UNCHANGED <<job, box, sess, line, lost, run>>

\* The threads share the cleaner, and with it this attribute.
Fenced(t) ==
  /\ At(t, "fenced")
  /\ own' = [own EXCEPT !.fenced = th[t].ok]
  /\ Go(t, "health")
  /\ UNCHANGED <<job, box, sess, line, lost, run>>

\* The device is observed idle, and telemetry refuses a closed session that is
\* not clean, and an open one once the lease is lost.
Health(t) ==
  /\ At(t, "health")
  /\ own.lock = "nobody"
  /\ \E healthy \in BOOLEAN :
       /\ healthy => \A s \in Listed : /\ sess[s].closed => sess[s].clean
                                       /\ Guard(s) \/ sess[s].closed
                                       /\ box[s] # "up"
       /\ th' = [th EXCEPT ![t].at = "judged", ![t].ok = own.fenced /\ healthy]
  /\ UNCHANGED <<job, box, sess, line, own, lost, run>>

-----------------------------------------------------------------------------
CleanStep(t) ==
  \/ Close(t) \/ Reap(t) \/ Shut(t) \/ Sweep(t)
  \/ Adapter(t) \/ Finish(t) \/ ClosePass(t) \/ SweepPass(t) \/ Fenced(t) \/ Health(t)
MainStep ==
  \/ BeginBuild \/ EndBuild \/ Enter \/ Attempt \/ Create \/ StartUp \/ Ready \/ Unopened
  \/ Ask \/ Answer \/ Enough \/ Abandon \/ NextProcess \/ Measured \/ Judged
  \/ CleanStep("main")
BeatStep == BeatJudged \/ CleanStep("beat")

TimingNext == MainStep \/ BeatStep \/ LoseLease \/ \E s \in Session : BoxMoves(s)

\* Every call of the code has a timeout, so a thread that can go on does.
TimingFairness == WF_timingVars(MainStep) /\ WF_timingVars(BeatStep)

-----------------------------------------------------------------------------
\* A job that is reported clean, or that the heartbeat has already found
\* clean while main was still measuring, has left no container and none will
\* appear later: neither one whose creation was never confirmed, nor one that
\* main opened while the heartbeat was already cleaning up
\* (BW20TimingSession.force_close, finish, cleanup_probe).
CleanReportIsFinal ==
  (run.report = "clean" \/ own.cache = "clean") =>
    \A s \in Session : box[s] \in {"none", "gone"}

\* Evidence is filed only when every measured process was reaped by its own
\* closing answer and no answer was taken for that of a later request; and that
\* of a performance job only together with a clean report.
EvidenceStands ==
  run.file = "evidence" =>
    /\ ~run.stale
    /\ \A s \in Session \ {Timer} : sess[s].reaped
    /\ job = "m1" => run.report = "clean"

\* The job is reported, one way or the other: the two threads have not waited for
\* each other for ever, at lock or gate (finish, cleanup_probe).
Reported == run.report # "none"
=============================================================================
