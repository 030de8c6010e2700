------------------------------ MODULE DockerRun ------------------------------
(***************************************************************************)
(* One measurement job on the nmz36 device: containers that a docker run   *)
(* in the foreground brings up and down, requests and answers over its     *)
(* pipes, the harness that measures through them, and the cleaner that     *)
(* removes what bears the labels of the device                             *)
(* (src/src/hcuopt/measurement/nmz36_runtime.py, harness.py,               *)
(* m1_harness.py, src/src/hcuopt/deployment/nmz36_m1_allocator.py,         *)
(* src/src/hcuopt/adapters/resource_cleaner.py).                           *)
(*                                                                         *)
(* Unlike those of TimingRun these sessions do not know the identity of    *)
(* their container, their requests carry none either, and no factory       *)
(* refuses to open another session once the heartbeat cleans up.           *)
(***************************************************************************)
EXTENDS Naturals, FiniteSets

CONSTANTS
  Workloads, \* how many processes are measured, one after the other
  Asks       \* requests made of each process before it is closed

VARIABLES
  job,   \* "stage0" or "m1"
  box,   \* box[s]: the container of session s
  proc,  \* proc[s]: has it reported ready, is it closed, was it reaped?
  owed,  \* owed[s]: requests whose answers have not been read
  main,  \* the handler: where it is, its session, what follows
  beat,  \* the heartbeat thread
  lost,  \* has the lease been lost?
  run    \* exception pending?, requests, evidence, cleanup, report

dockerVars == <<job, box, proc, owed, main, beat, lost, run>>

Session == 0 .. Workloads
Timer == 0

DockerInit ==
  /\ job \in {"stage0", "m1"}
  /\ box = [s \in Session |-> "none"]
  /\ proc = [s \in Session |-> [ready |-> FALSE, closed |-> FALSE, reaped |-> FALSE]]
  /\ owed = [s \in Session |-> 0]
  /\ main = [at |-> "open", s |-> Timer, then |-> "none"]
  /\ beat = "idle"
  /\ lost = FALSE
  /\ run = [err |-> FALSE, asks |-> 0, round |-> 1, stale |-> FALSE,
            fenced |-> FALSE, file |-> "none", report |-> "none"]

At(at) == main.at = at
Go(at) == main' = [main EXCEPT !.at = at]
Raise == run' = [run EXCEPT !.err = TRUE]

-----------------------------------------------------------------------------
(* The world around the handler.                                           *)

\* The daemon brings a container up when it likes, or never. A process that
\* ends takes its container with it.
BoxMoves(s) ==
  /\ \/ box[s] = "asked" /\ \E b \in {"up", "none"} : box' = [box EXCEPT ![s] = b]
     \/ box[s] = "up" /\ box' = [box EXCEPT ![s] = "gone"]
  /\ UNCHANGED <<job, proc, owed, main, beat, lost, run>>

\* Mutant: a listing that fails is taken for a listing of nothing.
Listings_Trusting ==
  LET seen == {s \in Session : box[s] = "up"} IN
  {[ids |-> seen, known |-> TRUE], [ids |-> {}, known |-> TRUE]}

\* The containers with the labels of the device, if docker answers.
Listings ==
  LET seen == {s \in Session : box[s] = "up"} IN
  {[ids |-> seen, known |-> TRUE], [ids |-> {}, known |-> FALSE]}

\* fence: every listed container is removed, as far as docker does it.
Fence(fenced) ==
  \E l \in Listings : \E removed \in SUBSET l.ids :
    /\ box' = [s \in Session |-> IF s \in removed THEN "gone" ELSE box[s]]
    /\ fenced = (l.known /\ removed = l.ids)

\* The heartbeat finds the lease lost and cleans up, once.
LoseLease ==
  /\ beat = "idle"
  /\ lost' = TRUE /\ beat' = "fence"
  /\ UNCHANGED <<job, box, proc, owed, main, run>>

BeatFence ==
  /\ beat = "fence"
  /\ \E fenced \in BOOLEAN : Fence(fenced)
  /\ beat' = "over"
  /\ UNCHANGED <<job, proc, owed, main, lost, run>>

-----------------------------------------------------------------------------
(* A session.                                                              *)

\* docker run is started; its container comes up when the daemon has made it.
\* The lease may be lost right after it was last looked at.
Open ==
  /\ At("open")
  /\ \/ box' = [box EXCEPT ![main.s] = "asked"] /\ Go("starting") /\ UNCHANGED run
     \/ Raise /\ main' = [main EXCEPT !.at = "kill", !.then = "unopened"] /\ UNCHANGED box
  /\ UNCHANGED <<job, proc, owed, beat, lost>>

\* The process reports itself ready in time, or the session is given up: then
\* its container is removed by name, and the docker run goes on by itself.
Started ==
  /\ At("starting")
  /\ \/ /\ box[main.s] = "up"
        /\ proc' = [proc EXCEPT ![main.s].ready = TRUE]
        /\ run' = [run EXCEPT !.asks = 0]
        /\ Go("ask")
     \/ /\ Raise
        /\ main' = [main EXCEPT !.at = "kill", !.then = "unopened"]
        /\ UNCHANGED proc
  /\ UNCHANGED <<job, box, owed, beat, lost>>

\* docker rm --force by name. Nobody looks at its outcome, but it may time out.
Kill ==
  /\ At("kill")
  /\ \E b \in {box[main.s], "gone"} :
       box' = [box EXCEPT ![main.s] = IF @ = "up" THEN b ELSE @]
  /\ Raise \/ UNCHANGED run
  /\ Go(main.then)
  /\ UNCHANGED <<job, proc, owed, beat, lost>>

\* A probe whose timer does not come up has no harness that would clean up.
Unopened ==
  /\ At("unopened")
  /\ IF main.s = Timer /\ job = "stage0"
     THEN run' = [run EXCEPT !.round = 2] /\ Go("fence")
     ELSE UNCHANGED run /\ Go("measured")
  /\ UNCHANGED <<job, box, proc, owed, beat, lost>>

\* A request is written. A sample is only asked for under a live lease.
Ask ==
  /\ At("ask")
  /\ run.asks < Asks
  /\ \/ /\ box[main.s] = "up"
        /\ run.asks + 1 < Asks \/ main.s = Timer \/ ~lost
        /\ owed' = [owed EXCEPT ![main.s] = @ + 1]
        /\ Go("answer") /\ UNCHANGED run
     \/ Raise /\ Go("asked") /\ UNCHANGED owed
  /\ UNCHANGED <<job, box, proc, beat, lost>>

\* What is read is the answer to the oldest request not answered yet.
Read ==
  /\ box[main.s] = "up"
  /\ owed' = [owed EXCEPT ![main.s] = @ - 1]
  /\ run' = [run EXCEPT !.stale = @ \/ owed[main.s] > 1, !.asks = @ + 1]

\* Mutant: a request that timed out is made again.
Answer_Retried ==
  /\ At("answer")
  /\ \/ Read /\ Go("ask")
     \/ Go("ask") /\ UNCHANGED <<owed, run>>
     \/ Raise /\ Go("asked") /\ UNCHANGED owed
  /\ UNCHANGED <<job, box, proc, beat, lost>>

\* The answer is read, or the request times out: then its answer may still
\* come, and is for whoever reads next.
Answer ==
  /\ At("answer")
  /\ \/ Read /\ Go("ask")
     \/ Raise /\ Go("asked") /\ UNCHANGED owed
  /\ UNCHANGED <<job, box, proc, beat, lost>>

\* The timer of Stage 0 stays open; that of a performance job is cut off by
\* force_close; a measured process is closed, whatever came of its requests.
Enough ==
  /\ At("asked") \/ (At("ask") /\ run.asks = Asks)
  /\ \/ /\ main.s = Timer /\ job = "stage0"
        /\ main' = [main EXCEPT !.at = IF run.err THEN "measured" ELSE "open", !.s = 1]
        /\ UNCHANGED proc
     \/ /\ main.s = Timer /\ job = "m1"
        /\ main' = [main EXCEPT !.at = "kill", !.then = "next"]
        /\ proc' = [proc EXCEPT ![Timer].closed = TRUE]
     \/ main.s # Timer /\ Go("close") /\ UNCHANGED proc
  /\ UNCHANGED <<job, box, owed, beat, lost, run>>

\* What fails before the loop of requests leaves the process as it is.
Abandon ==
  /\ At("ask") /\ run.asks = 0 /\ main.s # Timer
  /\ Raise /\ Go("measured")
  /\ UNCHANGED <<job, box, proc, owed, beat, lost>>

\* close: a last request, and the docker run ends with it.
Close ==
  /\ At("close")
  /\ proc' = [proc EXCEPT ![main.s].closed = TRUE]
  /\ \/ box[main.s] = "up" /\ owed' = [owed EXCEPT ![main.s] = @ + 1] /\ Go("last")
        /\ UNCHANGED run
     \/ /\ Raise /\ main' = [main EXCEPT !.at = "kill", !.then = "next"]
        /\ UNCHANGED owed
  /\ UNCHANGED <<job, box, beat, lost>>

\* Any answer ends the wait; if it belongs to an earlier request it has no
\* result of waitpid, and the recorder has nothing to record.
Reap ==
  /\ At("last")
  /\ \/ /\ box[main.s] = "up"
        /\ box' = [box EXCEPT ![main.s] = "gone"]
        /\ proc' = [proc EXCEPT ![main.s].reaped = (owed[main.s] = 1)]
        /\ Go("next") /\ UNCHANGED run
     \/ /\ Raise /\ main' = [main EXCEPT !.at = "kill", !.then = "next"]
        /\ UNCHANGED <<box, proc>>
  /\ UNCHANGED <<job, owed, beat, lost>>

-----------------------------------------------------------------------------
(* The harness after a process, and at its end.                            *)

NextProcess ==
  /\ At("next")
  /\ LET fine == ~run.err /\ (main.s = Timer \/ proc[main.s].reaped) IN
       /\ run' = [run EXCEPT !.err = ~fine]
       /\ main' = IF fine /\ main.s < Workloads
                  THEN [main EXCEPT !.at = "open", !.s = @ + 1]
                  ELSE [main EXCEPT !.at = "measured"]
  /\ UNCHANGED <<job, box, proc, owed, beat, lost>>

\* Stage 0 files its evidence before it cleans up.
Measured ==
  /\ At("measured")
  /\ run' = [run EXCEPT !.file = IF job = "stage0" /\ ~run.err THEN "evidence" ELSE @]
  /\ Go("fence")
  /\ UNCHANGED <<job, box, proc, owed, beat, lost>>

MainFence ==
  /\ At("fence")
  /\ \E fenced \in BOOLEAN : Fence(fenced) /\ run' = [run EXCEPT !.fenced = fenced]
  /\ Go("health")
  /\ UNCHANGED <<job, proc, owed, beat, lost>>

\* health_check lists again, and asks the device. The harness passes a clean
\* cleanup on to the worker; of all else the worker cleans up once more.
Health ==
  /\ At("health")
  /\ \E l \in Listings : \E healthy \in {FALSE, l.known /\ l.ids = {}} :
       LET ok == run.fenced /\ healthy
           good == ok /\ ~run.err
       IN IF run.round = 2
          THEN /\ run' = [run EXCEPT !.report = IF ok THEN "clean" ELSE "dirty"]
               /\ Go("over")
          ELSE /\ run' = [run EXCEPT !.err = ~good,
                                     !.file = IF job = "m1" /\ good THEN "evidence" ELSE @]
               /\ Go(IF job = "stage0" THEN "timer" ELSE "settle")
  /\ UNCHANGED <<job, box, proc, owed, beat, lost>>

\* The probe closes its timer after all, whose container the cleaner removed.
CloseTimer ==
  /\ At("timer")
  /\ proc' = [proc EXCEPT ![Timer].closed = TRUE]
  /\ \E b \in {box[Timer], "gone"} : box' = [box EXCEPT ![Timer] = IF @ = "up" THEN b ELSE @]
  /\ Raise \/ UNCHANGED run
  /\ Go("settle")
  /\ UNCHANGED <<job, owed, beat, lost>>

Settle ==
  /\ At("settle")
  /\ run' = IF run.err THEN [run EXCEPT !.round = 2] ELSE [run EXCEPT !.report = "clean"]
  /\ Go(IF run.err THEN "fence" ELSE "over")
  /\ UNCHANGED <<job, box, proc, owed, beat, lost>>

-----------------------------------------------------------------------------
DockerNext ==
  \/ Open \/ Started \/ Kill \/ Unopened \/ Ask \/ Answer \/ Enough \/ Abandon
  \/ Close \/ Reap \/ NextProcess \/ Measured \/ MainFence \/ Health
  \/ CloseTimer \/ Settle
  \/ LoseLease \/ BeatFence
  \/ \E s \in Session : BoxMoves(s)

-----------------------------------------------------------------------------
\* A container that has taken part in a job is gone when the job is reported
\* clean, also if its session was abandoned or opened after the heartbeat had
\* cleaned up (ContainerResourceCleaner.fence and health_check).
PartakersGone ==
  run.report = "clean" => \A s \in Session : proc[s].ready => box[s] # "up"

\* Evidence is filed only if every measured process was reaped by its own
\* closing answer and no answer was taken for that of a later request, though
\* requests carry no identity (request, close, DockerProcessLifecycleRecorder).
OwnAnswersOnly ==
  run.file = "evidence" =>
    ~run.stale /\ \A s \in Session \ {Timer} : proc[s].reaped
=============================================================================
