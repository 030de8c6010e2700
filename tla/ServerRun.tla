------------------------------ MODULE ServerRun ------------------------------
(***************************************************************************)
(* One run of an SGLang server inside its container: the runner starts the *)
(* server in a process group of its own, waits until it is ready, asks it  *)
(* and stops the whole group, whatever happens in between                  *)
(* (src/src/hcuopt/evaluation/sglang_smoke_runner.py,                      *)
(* src/src/hcuopt/evaluation/sglang_endpoint_runner.py).                   *)
(*                                                                         *)
(* In a formal run there is a keeper between runner and server: a process  *)
(* that starts the server, publishes its identity, waits for it and        *)
(* records how it was reaped. The runner knows the server's group only by  *)
(* what the keeper has published.                                          *)
(***************************************************************************)
EXTENDS Naturals

CONSTANT Requests  \* how many requests an endpoint run makes

VARIABLES
  kind,   \* "smoke", "formal" (a smoke with a keeper) or "endpoint"
  tree,   \* the keeper, the server and a child of the server
  keep,   \* where the keeper is
  files,  \* records of the keeper that have been published
  run,    \* the runner
  sig     \* a SIGTERM or SIGINT to the runner: none, pending or over

serverVars == <<kind, tree, keep, files, run, sig>>

Process == {"keeper", "server", "child"}
Kept == kind # "smoke"

\* The process that the runner has started itself.
Started == IF Kept THEN "keeper" ELSE "server"
Asked == IF kind = "endpoint" THEN Requests ELSE 1

ServerInit ==
  /\ kind \in {"smoke", "formal", "endpoint"}
  /\ tree = [p \in Process |-> "none"]
  /\ keep = "none"
  /\ files = {}
  /\ run = [at |-> "check", group |-> "none", err |-> FALSE, mute |-> FALSE,
            answers |-> 0, sent |-> "none", stop |-> "none", cache |-> "none",
            result |-> [filed |-> FALSE, ok |-> FALSE, clean |-> FALSE]]
  /\ sig = "none"

-----------------------------------------------------------------------------
(* Processes. A dead one is in its group until somebody reaps it.          *)

Members(g) == IF g = "process" /\ Kept THEN {"keeper"} ELSE {"server", "child"}
Exists(t, g) == \E p \in Members(g) : t[p] \in {"up", "dead"}
Orphan(t, p) ==
  \/ p = "child" /\ t.server # "up"
  \/ p = "server" /\ Kept /\ t.keeper # "up"

\* poll reaps the process that was started.
Poll(t) == [t EXCEPT ![Started] = IF @ = "dead" THEN "gone" ELSE @]

\* Once that has ended, whatever the runner has adopted as a subreaper is reaped
\* before its group is looked at. An endpoint run is no subreaper.
Sweep(t) ==
  LET own == Poll(t) IN
  [p \in Process |->
     IF /\ own[Started] = "gone" /\ kind # "endpoint"
        /\ own[p] = "dead" /\ Orphan(own, p)
     THEN "gone" ELSE own[p]]

Exited(t) == t[Started] = "gone"

\* Processes end by themselves, crash, or heed a signal they were sent, sooner
\* or later or never.
Dies(p) ==
  /\ tree[p] = "up"
  /\ tree' = [tree EXCEPT ![p] = "dead"]
  /\ keep' = IF p = "keeper" /\ keep # "noted" THEN "crashed" ELSE keep
  /\ UNCHANGED <<kind, files, run, sig>>

Forks ==
  /\ tree.server = "up" /\ tree.child = "none"
  /\ tree' = [tree EXCEPT !.child = "up"]
  /\ UNCHANGED <<kind, keep, files, run, sig>>

\* A server reaps its children, init reaps orphans.
Reaped(p) ==
  /\ tree[p] = "dead"
  /\ p = "child" \/ Orphan(tree, p)
  /\ p # Started
  /\ tree' = [tree EXCEPT ![p] = "gone"]
  /\ UNCHANGED <<kind, keep, files, run, sig>>

\* The keeper: it starts the server, publishes who that is, waits, records.
Keeper ==
  /\ tree.keeper = "up"
  /\ \/ /\ keep = "begun"
        /\ tree' = [tree EXCEPT !.server = "up"]
        /\ keep' = "spawned" /\ UNCHANGED files
     \/ /\ keep = "spawned"
        /\ files' = files \cup {"process-start"}
        /\ keep' = "published" /\ UNCHANGED tree
     \/ /\ keep = "published"
        /\ keep' = "watching" /\ UNCHANGED <<tree, files>>
     \/ /\ keep = "watching" /\ tree.server = "dead"
        /\ tree' = [tree EXCEPT !.server = "gone"]
        /\ keep' = "reaped" /\ UNCHANGED files
     \/ /\ keep = "reaped"
        /\ files' = files \cup {"process-exit"}
        /\ keep' = "noted" /\ UNCHANGED tree
  /\ UNCHANGED <<kind, run, sig>>

-----------------------------------------------------------------------------
(* The runner until it stops the server.                                   *)

At(at) == run.at = at
Go(at) == run' = [run EXCEPT !.at = at]

\* The body raises; what it leaves behind is the same in all cases.
Raise == run' = [run EXCEPT !.at = "sorry", !.err = TRUE]

\* A signal is there. Only the smoke runner has handlers, and they raise once.
Signal ==
  /\ sig = "none" /\ kind # "endpoint"
  /\ sig' = "pending"
  /\ UNCHANGED <<kind, tree, keep, files, run>>

\* It raises wherever the body is; while the server is started it is blocked.
\* In the handler of an exception it raises past the result.
Relay ==
  /\ sig = "pending" /\ sig' = "over"
  /\ \/ run.at \in {"check", "launch", "ready", "ask"} /\ Raise
     \/ At("sorry") /\ run' = [run EXCEPT !.at = "stop", !.mute = TRUE]
  /\ UNCHANGED <<kind, tree, keep, files>>

\* A second signal, or one that nobody handles.
RunnerDies ==
  /\ run.at \notin {"over", "killed"}
  /\ Go("killed")
  /\ UNCHANGED <<kind, tree, keep, files, sig>>

\* The first records are written and the specification is checked.
CheckSpec ==
  /\ At("check")
  /\ Go(IF kind = "endpoint" THEN "cache" ELSE "launch") \/ Raise
  /\ UNCHANGED <<kind, tree, keep, files, sig>>

\* An endpoint run makes a cache of its own. If that fails half way, there is one
\* of which the runner does not know.
PrepareCache ==
  /\ At("cache")
  /\ \/ run' = [run EXCEPT !.at = "launch", !.cache = "made"]
     \/ \E c \in {"none", "unknown"} :
          run' = [run EXCEPT !.at = "sorry", !.err = TRUE, !.cache = c]
  /\ UNCHANGED <<kind, tree, keep, files, sig>>

\* Mutant: signals are not blocked, and one comes before process is assigned.
Launch_Unblocked ==
  /\ At("launch")
  /\ \/ /\ tree' = [tree EXCEPT ![Started] = "up"]
        /\ keep' = IF Kept THEN "begun" ELSE keep
        /\ \/ run' = [run EXCEPT !.at = IF Kept THEN "identify" ELSE "started",
                                 !.group = "process"]
           \/ sig = "pending" /\ Raise
     \/ Raise /\ UNCHANGED <<tree, keep>>
  /\ UNCHANGED <<kind, files, sig>>

\* Popen, with signals blocked.
Launch ==
  /\ At("launch")
  /\ \/ /\ tree' = [tree EXCEPT ![Started] = "up"]
        /\ keep' = IF Kept THEN "begun" ELSE keep
        /\ run' = [run EXCEPT !.at = IF Kept THEN "identify" ELSE "started",
                              !.group = "process"]
     \/ Raise /\ UNCHANGED <<tree, keep>>
  /\ UNCHANGED <<kind, files, sig>>

\* Wait for the identity of the server, for ten seconds at most.
Identify ==
  /\ At("identify")
  /\ IF "process-start" \in files
     THEN /\ run' = [run EXCEPT !.at = "started", !.group = "server"]
          /\ UNCHANGED tree
     ELSE tree' = Poll(tree) /\ Raise
  /\ UNCHANGED <<kind, keep, files, sig>>

\* start.json is written; after it, the signals are unblocked.
RecordStart ==
  /\ At("started")
  /\ Go("ready") \/ Raise
  /\ UNCHANGED <<kind, tree, keep, files, sig>>

\* Probes until one is answered with 200, the process has exited, or time is up.
WaitReady ==
  /\ At("ready")
  /\ tree' = Poll(tree)
  /\ \/ /\ ~Exited(tree') /\ tree'.server = "up"
        /\ Go(IF kind = "endpoint" THEN "attest" ELSE "ask")
     \/ Raise
  /\ UNCHANGED <<kind, keep, files, sig>>

\* The candidate module has told that it was imported, and from where.
Attest ==
  /\ At("attest")
  /\ Go("ask") \/ Raise
  /\ UNCHANGED <<kind, tree, keep, files, sig>>

\* The one request of a smoke run is answered in full, or it fails.
Generate ==
  /\ At("ask") /\ kind # "endpoint"
  /\ \/ /\ tree.server = "up"
        /\ run' = [run EXCEPT !.answers = 1, !.at = "stop"]
     \/ Raise
  /\ UNCHANGED <<kind, tree, keep, files, sig>>

\* A request of an endpoint run, with its sample on file.
RunRequest ==
  /\ At("ask") /\ kind = "endpoint"
  /\ \/ /\ tree.server = "up"
        /\ run' = [run EXCEPT !.answers = @ + 1, !.at = "alive"]
     \/ Raise
  /\ UNCHANGED <<kind, tree, keep, files, sig>>

\* It looks after each answer whether its process still runs.
StillAlive ==
  /\ At("alive")
  /\ tree' = Poll(tree)
  /\ IF Exited(tree') THEN Raise
     ELSE Go(IF run.answers < Asked THEN "ask" ELSE "stop")
  /\ UNCHANGED <<kind, keep, files, sig>>

\* The exception is written down; that may fail, too.
Sorry ==
  /\ At("sorry")
  /\ \/ Go("stop")
     \/ kind # "endpoint" /\ run' = [run EXCEPT !.at = "stop", !.mute = TRUE]
  /\ UNCHANGED <<kind, tree, keep, files, sig>>

-----------------------------------------------------------------------------
(* The runner stops the group. From here on signals are ignored.           *)

Stopped(how) == run' = [run EXCEPT !.at = "finish", !.stop = how]

\* Mutant: what has been started is looked at, and not its group.
StopGroup_Leader ==
  /\ At("stop")
  /\ tree' = Sweep(tree)
  /\ IF run.group = "none" \/ Exited(tree') THEN Stopped("clean") ELSE Go("term")
  /\ UNCHANGED <<kind, keep, files, sig>>

\* Nothing was started; or the group is empty, and what was started has to have
\* exited; or there is somebody to stop.
StopGroup ==
  /\ At("stop")
  /\ tree' = Sweep(tree)
  /\ CASE run.group = "none" -> Stopped("clean")
       [] run.group # "none" /\ Exists(tree', run.group) -> Go("term")
       [] OTHER -> Stopped(IF Exited(tree') THEN "clean" ELSE "failed")
  /\ UNCHANGED <<kind, keep, files, sig>>

\* SIGTERM; a group that is gone by now counts as stopped. A keeper that is in
\* the group and not watching yet dies of it.
Terminate ==
  /\ At("term")
  /\ IF Exists(Poll(tree), run.group)
     THEN /\ run' = [run EXCEPT !.at = "grace", !.sent = "term"]
          /\ IF /\ "keeper" \in Members(run.group) /\ tree.keeper = "up"
                /\ keep # "watching"
             THEN tree' = [tree EXCEPT !.keeper = "dead"] /\ keep' = "crashed"
             ELSE tree' = Poll(tree) /\ UNCHANGED keep
     ELSE /\ tree' = Poll(tree) /\ Stopped("clean") /\ UNCHANGED keep
  /\ UNCHANGED <<kind, files, sig>>

\* The group is gone, and what was started has exited.
AllGone(t) == ~Exists(t, run.group) /\ Exited(t)

\* Mutant: no deadline.
Grace_Patient ==
  /\ At("grace")
  /\ tree' = Sweep(tree)
  /\ AllGone(tree') /\ Stopped("clean")
  /\ UNCHANGED <<kind, keep, files, sig>>

Grace ==
  /\ At("grace")
  /\ tree' = Sweep(tree)
  /\ \/ AllGone(tree') /\ Stopped("clean")
     \/ Go("kill")
  /\ UNCHANGED <<kind, keep, files, sig>>

Kill ==
  /\ At("kill")
  /\ tree' = Poll(tree)
  /\ run' = [run EXCEPT !.at = "last",
                        !.sent = IF Exists(tree', run.group) THEN "kill" ELSE @]
  /\ UNCHANGED <<kind, keep, files, sig>>

\* The second wait; what is left then is reported.
LastWait ==
  /\ At("last")
  /\ tree' = Sweep(tree)
  /\ \/ AllGone(tree') /\ Stopped("clean")
     \/ Stopped("failed")
  /\ UNCHANGED <<kind, keep, files, sig>>

\* stop.json and the streams: one of them failing is an error.
Finish ==
  /\ At("finish")
  /\ \E failed \in BOOLEAN :
       run' = [run EXCEPT !.err = @ \/ failed,
                          !.at = IF kind = "endpoint" THEN "drop" ELSE "report"]
  /\ UNCHANGED <<kind, tree, keep, files, sig>>

\* A cache that is known is removed, or that is an error.
DropCache ==
  /\ At("drop")
  /\ \/ run' = [run EXCEPT !.at = "report",
                            !.cache = IF @ = "made" THEN "none" ELSE @]
     \/ run' = [run EXCEPT !.at = "report", !.err = TRUE]
  /\ UNCHANGED <<kind, tree, keep, files, sig>>

Result(ok) == [filed |-> TRUE, ok |-> ok, clean |-> run.stop = "clean"]
Complete == ~run.err /\ run.answers = Asked

\* Mutant: the answers are there, so a failed cleanup is only mentioned.
Report_Lenient ==
  /\ At("report") /\ kind # "endpoint"
  /\ \/ /\ ~run.mute
        /\ run' = [run EXCEPT !.at = "over", !.result = Result(Complete)]
     \/ Go("over")
  /\ UNCHANGED <<kind, tree, keep, files, sig>>

\* result.json, unless an exception passes by or it cannot be written.
Report ==
  /\ At("report") /\ kind # "endpoint"
  /\ \/ /\ ~run.mute
        /\ run' = [run EXCEPT !.at = "over",
                              !.result = Result(Complete /\ run.stop = "clean")]
     \/ Go("over")
  /\ UNCHANGED <<kind, tree, keep, files, sig>>

\* That of an endpoint run.
ReportAcquisition ==
  /\ At("report") /\ kind = "endpoint"
  /\ \/ run' = [run EXCEPT !.at = "over",
                            !.result = Result(Complete /\ run.stop = "clean")]
     \/ Go("over")
  /\ UNCHANGED <<kind, tree, keep, files, sig>>

-----------------------------------------------------------------------------
RunnerStep ==
  \/ CheckSpec \/ PrepareCache \/ Launch \/ Identify \/ RecordStart \/ WaitReady
  \/ Attest \/ Generate \/ RunRequest \/ StillAlive \/ Sorry
  \/ StopGroup \/ Terminate \/ Grace \/ Kill \/ LastWait
  \/ Finish \/ DropCache \/ Report \/ ReportAcquisition

ServerNext ==
  \/ RunnerStep \/ Keeper \/ Forks \/ Signal \/ Relay \/ RunnerDies
  \/ \E p \in Process : Dies(p) \/ Reaped(p)

ServerSpec == ServerInit /\ [][ServerNext]_serverVars
ServerFairness == WF_serverVars(RunnerStep)

-----------------------------------------------------------------------------
\* The keeper never told which group is the server's.
Unidentified == Kept /\ run.group # "server"

\* What a run reports as cleaned up has no process of the server's group left,
\* whoever died first and whatever the server has forked; and a server that a
\* runner leaves behind has been sent SIGKILL (_stop_posix_group).
GroupAccounted ==
  /\ run.result.filed /\ run.result.clean /\ ~Unidentified =>
       tree.server # "up" /\ tree.child # "up"
  /\ At("over") /\ "up" \in {tree.server, tree.child} /\ ~Unidentified =>
       run.sent = "kill"

\* A run that succeeded had all its answers from a server that was known, and
\* that is gone; the record of its end is there, but for a keeper that crashed
\* or that still writes because the group vanished right before SIGTERM
\* (run_smoke, run_acquisition).
SuccessIsComplete ==
  run.result.filed /\ run.result.ok =>
    /\ run.answers = Asked /\ run.result.clean /\ ~Unidentified
    /\ run.cache = "none"
    /\ tree.server # "up" /\ tree.child # "up"
    /\ Kept => \/ "process-exit" \in files
               \/ keep = "crashed"
               \/ run.sent = "none" /\ keep = "reaped"

\* Whatever server, keeper and signals have done, the runner is at its end, if it
\* lives (the deadlines of run_smoke and run_acquisition).
RunnerEnded == run.at \in {"over", "killed"}
=============================================================================
