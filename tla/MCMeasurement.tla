---------------------------- MODULE MCMeasurement ----------------------------
(***************************************************************************)
(* A worker whose runs must end, and, beside it, the inside of what its    *)
(* handlers do: a measurement job on BW20 and one on nmz36, a run of a     *)
(* server in its container, and an attempt of a local generator.  The      *)
(* initial state chooses the part that moves, so their states add up and   *)
(* do not multiply.                                                        *)
(***************************************************************************)
EXTENDS MCWorkerLoop

CONSTANTS
  Workloads, TimingAsks, DockerAsks, Requests, StreamLimit, TotalLimit, MaxBytes

\* At least one process is measured; limits are numbers of bytes.
ASSUME MeasurementAssumption ==
  /\ Workloads \in Nat \ {0}
  /\ StreamLimit \in Nat /\ TotalLimit \in Nat

VARIABLES
  part,
  job, lost, run,                 \* of either measurement job
  box, sess, line, th, own,       \* of that on BW20
  cont, proc, owed, hand, beat,   \* of that on nmz36
  kind, tree, keep, files, serve, sig,  \* of the server's run
  cmds, pipe, got, over, gen      \* of the generator's attempt

\* A device job that is not tried again: MCWorkerLoop has the second attempt,
\* the worker of this model a handler with several launches.
MCOneAttempt ==
    [j \in Job |-> [type |-> "gpu", profile |-> None, scope |-> "exclusive", max |-> 1]]

T == INSTANCE TimingRun WITH Asks <- TimingAsks
D == INSTANCE DockerRun WITH Asks <- DockerAsks, box <- cont, main <- hand
S == INSTANCE ServerRun WITH run <- serve
G == INSTANCE GeneratorRun WITH proc <- cmds

common == <<job, lost, run>>
onlyT == <<box, sess, line, th, own>>
onlyD == <<cont, proc, owed, hand, beat>>
onlyS == <<kind, tree, keep, files, serve, sig>>
onlyG == <<cmds, pipe, got, over, gen>>

NoJob == job = "m1" /\ lost = FALSE /\ run = [report |-> "none"]
NoT == box = 0 /\ sess = 0 /\ line = 0 /\ th = 0 /\ own = 0
NoD == cont = 0 /\ proc = 0 /\ owed = 0 /\ hand = 0 /\ beat = 0
NoS == /\ kind = 0 /\ tree = 0 /\ keep = 0 /\ files = 0 /\ sig = 0
       /\ serve = [at |-> "none"]
NoG == /\ cmds = 0 /\ pipe = 0 /\ got = 0 /\ over = 0
       /\ gen = [at |-> "none"]

MCInit ==
  /\ WInit
  /\ \/ part = "worker" /\ NoJob /\ NoT /\ NoD /\ NoS /\ NoG
     \/ part = "bw20" /\ T!TimingInit /\ NoD /\ NoS /\ NoG
     \/ part = "nmz36" /\ D!DockerInit /\ NoT /\ NoS /\ NoG
     \/ part = "server" /\ S!ServerInit /\ NoJob /\ NoT /\ NoD /\ NoG
     \/ part = "generator" /\ G!GeneratorInit /\ NoJob /\ NoT /\ NoD /\ NoS

MCNext ==
  /\ UNCHANGED part
  /\ \/ part = "worker" /\ WNext /\ UNCHANGED <<common, onlyT, onlyD, onlyS, onlyG>>
     \/ part = "bw20" /\ T!TimingNext /\ UNCHANGED <<wvars, onlyD, onlyS, onlyG>>
     \/ part = "nmz36" /\ D!DockerNext /\ UNCHANGED <<wvars, onlyT, onlyS, onlyG>>
     \/ part = "server" /\ S!ServerNext
        /\ UNCHANGED <<wvars, common, onlyT, onlyD, onlyG>>
     \/ part = "generator" /\ G!GeneratorNext
        /\ UNCHANGED <<wvars, common, onlyT, onlyD, onlyS>>

mcvars == <<wvars, common, onlyT, onlyD, onlyS, onlyG, part>>

\* The fairness of WFairSpec, TimingFairness, ServerFairness and
\* GeneratorFairness, each in its part.
MCSpec ==
  /\ MCInit /\ [][MCNext]_mcvars
  /\ \A w \in Worker : WF_wvars(part = "worker" /\ MainStep(w))
  /\ WF_<<common, onlyT>>(part = "bw20" /\ T!MainStep)
  /\ WF_<<common, onlyT>>(part = "bw20" /\ T!BeatStep)
  /\ WF_onlyS(part = "server" /\ S!RunnerStep)
  /\ WF_onlyG(part = "generator" /\ G!AttemptStep)

\* What is reported as cleaned up is gone. On neither host does a job that is
\* reported clean leave a container that has taken part in it; on BW20, none at
\* all (force_close, finish, fence). No process of a server's group, or of a
\* generator's, is left by a run that says so (_stop_posix_group, _terminate_tree).
CleanReportsHold ==
  /\ part = "bw20" => T!CleanReportIsFinal
  /\ part = "nmz36" => D!PartakersGone
  /\ part = "server" => S!GroupAccounted
  /\ part = "generator" => G!AttemptLeavesNothing

\* What is filed as a success is complete. On neither host does evidence rest on
\* an answer to another request, or on a process that was not reaped (request,
\* close, record_reaped); a server's run has all its answers, a proposal is all
\* that was written (run_smoke, run_acquisition, _capture_stream).
EvidenceRests ==
  /\ part = "bw20" => T!EvidenceStands
  /\ part = "nmz36" => D!OwnAnswersOnly
  /\ part = "server" => S!SuccessIsComplete
  /\ part = "generator" => G!ProposalIsWhole

\* The threads of a job on BW20 never wait for each other for ever (finish,
\* cleanup_probe), nor a runner for its server or a generator (run_smoke,
\* run_acquisition, _execute).
JobReports ==
  <>(/\ part = "bw20" => T!Reported
     /\ part = "server" => S!RunnerEnded
     /\ part = "generator" => G!AttemptEnded)
=============================================================================
