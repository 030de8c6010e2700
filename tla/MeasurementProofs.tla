------------------------- MODULE MeasurementProofs -------------------------
(***************************************************************************)
(* What MCMeasurement checks, for any number of processes and any limits.  *)
(***************************************************************************)
EXTENDS MCMeasurement, WellFoundedInduction, TLAPS

-----------------------------------------------------------------------------
(* The generator's attempt.                                                *)

Early == {"preflight", "prepare", "launch"}
Working == {"watch", "term", "grace", "kill", "wait", "join", "decide"}
Cleaned == {"terminated", "killed"}

GenTypeOK ==
  /\ DOMAIN cmds = G!Command
  /\ \A p \in G!Command :
       cmds[p] \in {"none", "up", "quiet", "away", "aside", "dead", "gone"}
  /\ DOMAIN pipe = G!Stream /\ DOMAIN got = G!Stream
  /\ \A s \in G!Stream :
       pipe[s] \in Int /\ DOMAIN got[s] = {"bytes", "done"} /\ got[s].bytes \in Int
  /\ DOMAIN gen = {"at", "why", "tree", "exit", "usage", "dir", "status"}
  /\ gen.at \in Early \cup Working \cup {"remove", "over"}
  /\ gen.tree \in Cleaned \cup {"not_needed", "failed"}

\* The command runs while the attempt does, and has started what else runs.
GenProcesses ==
  /\ cmds["root"] \in {"none", "up", "dead", "gone"}
  /\ gen.at \in Early => cmds["root"] = "none"
  /\ gen.at \in Working => cmds["root"] # "none"
  /\ cmds["root"] = "none" => cmds["child"] = "none"

\* A group that has been seen empty stays empty.
GenCleaned ==
  /\ gen.tree \in Cleaned => cmds["root"] = "gone" /\ ~G!Group
  /\ gen.at \in {"wait", "join", "decide"} => gen.tree # "not_needed"

\* A thread at its end has read everything, and nobody writes any more.
GenRead ==
  \A s \in G!Stream :
    /\ got[s].done => pipe[s] = 0 /\ \A p \in G!Command : ~G!HoldsPipes(p)
    /\ gen.at \in Early => ~got[s].done
    /\ gen.at = "decide" /\ gen.tree # "failed" => got[s].done

\* What has not been found beyond the limits is within.
GenCounted ==
  ~over => /\ \A s \in G!Stream : got[s].bytes <= StreamLimit
           /\ G!Total <= TotalLimit

\* What each status rests on.
GenDecided ==
  /\ gen.at \notin {"remove", "over"} => gen.status = "none"
  /\ gen.status \notin {"none", "cleanup_failed"} =>
       /\ gen.tree \in Cleaned
       /\ \A s \in G!Stream : got[s].done
       /\ gen.at = "over" => ~gen.dir
  /\ gen.status = "succeeded" => ~over /\ gen.exit = "zero" /\ gen.usage = "within"

GenInv == GenTypeOK /\ GenProcesses /\ GenCleaned /\ GenRead /\ GenCounted /\ GenDecided

\* No attempt has begun.
LEMMA GenInit == ASSUME G!GeneratorInit PROVE GenInv
<1>1. GenTypeOK
  BY DEF G!GeneratorInit, GenTypeOK, Early, Working, Cleaned
<1>2. GenProcesses /\ GenCleaned
  BY DEF G!GeneratorInit, GenProcesses, GenCleaned, G!Command, Early, Working, Cleaned
<1>3. GenRead
  BY DEF G!GeneratorInit, GenRead
<1>4. GenCounted
  BY MeasurementAssumption DEF G!GeneratorInit, GenCounted, G!Stream, G!Total
<1>5. GenDecided
  BY DEF G!GeneratorInit, GenDecided
<1> QED
  BY <1>1, <1>2, <1>3, <1>4, <1>5 DEF GenInv

\* An attempt that is refused has started nothing.
LEMMA GenPreflight == ASSUME GenInv, G!Preflight PROVE GenInv'
<1> USE DEF GenInv, G!At, G!Command, G!Group, G!InGroup, G!HoldsPipes, G!Total, Early, Working,
   Cleaned
<1>1. GenTypeOK'
  BY DEF GenTypeOK, G!Preflight
<1>2. GenProcesses' /\ GenCleaned'
  BY DEF GenTypeOK, GenProcesses, GenCleaned, G!Preflight
<1>3. GenRead' /\ GenCounted'
  BY DEF GenTypeOK, GenRead, GenCounted, G!Preflight
<1>4. GenDecided'
  BY DEF GenTypeOK, GenDecided, G!Preflight
<1> QED
  BY <1>1, <1>2, <1>3, <1>4 DEF GenInv

\* Preparing starts no process.
LEMMA GenPrepareAttempt == ASSUME GenInv, G!PrepareAttempt PROVE GenInv'
<1> USE DEF GenInv, G!At, G!Command, G!Group, G!InGroup, G!HoldsPipes, G!Total, Early, Working,
   Cleaned
<1>1. GenTypeOK'
  BY DEF GenTypeOK, G!PrepareAttempt
<1>2. GenProcesses' /\ GenCleaned'
  BY DEF GenTypeOK, GenProcesses, GenCleaned, G!PrepareAttempt
<1>3. GenRead' /\ GenCounted'
  BY DEF GenTypeOK, GenRead, GenCounted, G!PrepareAttempt
<1>4. GenDecided'
  BY DEF GenTypeOK, GenDecided, G!PrepareAttempt
<1> QED
  BY <1>1, <1>2, <1>3, <1>4 DEF GenInv

\* From here on the command runs.
LEMMA GenLaunch == ASSUME GenInv, G!Launch PROVE GenInv'
<1> USE DEF GenInv, G!At, G!Command, G!Group, G!InGroup, G!HoldsPipes, G!Total, Early, Working,
   Cleaned
<1>1. GenTypeOK'
  BY DEF GenTypeOK, G!Launch
<1>2. GenProcesses' /\ GenCleaned'
  BY DEF GenTypeOK, GenProcesses, GenCleaned, G!Launch
<1>3. GenRead' /\ GenCounted'
  BY DEF GenTypeOK, GenRead, GenCounted, G!Launch
<1>4. GenDecided'
  BY DEF GenTypeOK, GenDecided, G!Launch
<1> QED
  BY <1>1, <1>2, <1>3, <1>4 DEF GenInv

\* Whoever leaves the watch has still to end the group.
LEMMA GenWatch == ASSUME GenInv, G!Watch PROVE GenInv'
<1> USE DEF GenInv, G!At, G!Command, G!Group, G!InGroup, G!HoldsPipes, G!Total, Early, Working,
   Cleaned
<1>1. GenTypeOK'
  BY DEF GenTypeOK, G!Watch, G!Poll
<1>2. GenProcesses' /\ GenCleaned'
  BY DEF GenTypeOK, GenProcesses, GenCleaned, G!Watch, G!Poll
<1>3. GenRead' /\ GenCounted'
  BY DEF GenTypeOK, GenRead, GenCounted, G!Watch, G!Poll
<1>4. GenDecided'
  BY DEF GenTypeOK, GenDecided, G!Watch, G!Poll
<1> QED
  BY <1>1, <1>2, <1>3, <1>4 DEF GenInv

\* Terminated at once: there is no group any more.
LEMMA GenTerminate == ASSUME GenInv, G!Terminate PROVE GenInv'
<1> USE DEF GenInv, G!At, G!Command, G!Group, G!InGroup, G!HoldsPipes, G!Total, Early, Working,
   Cleaned
<1>1. GenTypeOK'
  BY ZenonT(40) DEF GenTypeOK, G!Terminate, G!Cleaned
<1>2. GenProcesses' /\ GenCleaned'
  BY ZenonT(40) DEF GenTypeOK, GenProcesses, GenCleaned, G!Terminate, G!Cleaned
<1>3. GenRead' /\ GenCounted'
  BY ZenonT(40) DEF GenTypeOK, GenRead, GenCounted, G!Terminate, G!Cleaned
<1>4. GenDecided'
  BY DEF GenTypeOK, GenDecided, G!Terminate, G!Cleaned
<1> QED
  BY <1>1, <1>2, <1>3, <1>4 DEF GenInv

\* Terminated: the group was seen empty.
LEMMA GenGrace == ASSUME GenInv, G!Grace PROVE GenInv'
<1> USE DEF GenInv, G!At, G!Command, G!Group, G!InGroup, G!HoldsPipes, G!Total, Early, Working,
   Cleaned
<1>1. GenTypeOK'
  BY DEF GenTypeOK, G!Grace, G!Poll, G!Cleaned
<1>2. GenProcesses' /\ GenCleaned'
  BY DEF GenTypeOK, GenProcesses, GenCleaned, G!Grace, G!Poll, G!Cleaned
<1>3. GenRead' /\ GenCounted'
  BY ZenonT(40) DEF GenTypeOK, GenRead, GenCounted, G!Grace, G!Poll, G!Cleaned
<1>4. GenDecided'
  BY DEF GenTypeOK, GenDecided, G!Grace, G!Poll, G!Cleaned
<1> QED
  BY <1>1, <1>2, <1>3, <1>4 DEF GenInv

\* Killed or given up: only the first says the group is empty.
LEMMA GenKill == ASSUME GenInv, G!Kill PROVE GenInv'
<1> USE DEF GenInv, G!At, G!Command, G!Group, G!InGroup, G!HoldsPipes, G!Total, Early, Working,
   Cleaned
<1>1. GenTypeOK'
  BY DEF GenTypeOK, G!Kill, G!Poll, G!Cleaned
<1>2. GenProcesses' /\ GenCleaned'
  BY ZenonT(40) DEF GenTypeOK, GenProcesses, GenCleaned, G!Kill, G!Poll, G!Cleaned
<1>3. GenRead' /\ GenCounted'
  <2>1. UNCHANGED <<pipe, got, over>> /\ gen'.at \in {"kill", "wait"}
    BY DEF GenTypeOK, G!Kill, G!Cleaned
  <2>2. GenRead'
    BY <2>1 DEF GenTypeOK, GenRead, G!Kill, G!Poll
  <2> QED
    BY <2>1, <2>2 DEF GenCounted
<1>4. GenDecided'
  BY DEF GenTypeOK, GenDecided, G!Kill, G!Poll, G!Cleaned
<1> QED
  BY <1>1, <1>2, <1>3, <1>4 DEF GenInv

\* The exit is read after the group has been ended.
LEMMA GenWaitExit == ASSUME GenInv, G!WaitExit PROVE GenInv'
<1> USE DEF GenInv, G!At, G!Command, G!Group, G!InGroup, G!HoldsPipes, G!Total, Early, Working,
   Cleaned
<1>1. GenTypeOK'
  BY DEF GenTypeOK, G!WaitExit, G!Poll
<1>2. GenProcesses' /\ GenCleaned'
  BY DEF GenTypeOK, GenProcesses, GenCleaned, G!WaitExit, G!Poll
<1>3. GenRead' /\ GenCounted'
  BY ZenonT(40) DEF GenTypeOK, GenRead, GenCounted, G!WaitExit, G!Poll
<1>4. GenDecided'
  BY DEF GenTypeOK, GenDecided, G!WaitExit, G!Poll
<1> QED
  BY <1>1, <1>2, <1>3, <1>4 DEF GenInv

\* Whoever goes on to decide has both threads' last words, or has failed.
LEMMA GenJoin == ASSUME GenInv, G!Join PROVE GenInv'
<1> USE DEF GenInv, G!At, G!Command, G!Group, G!InGroup, G!HoldsPipes, G!Total, Early, Working,
   Cleaned
<1>1. GenTypeOK'
  BY DEF GenTypeOK, G!Join
<1>2. GenProcesses' /\ GenCleaned'
  BY DEF GenTypeOK, GenProcesses, GenCleaned, G!Join
<1>3. GenRead' /\ GenCounted'
  BY DEF GenTypeOK, GenRead, GenCounted, G!Join
<1>4. GenDecided'
  BY DEF GenTypeOK, GenDecided, G!Join
<1> QED
  BY <1>1, <1>2, <1>3, <1>4 DEF GenInv

\* A proposal needs everything that was written, and within the limits.
LEMMA GenDecide == ASSUME GenInv, G!Decide PROVE GenInv'
<1> USE DEF GenInv, G!At, G!Command, G!Group, G!InGroup, G!HoldsPipes, G!Total, Early, Working,
   Cleaned
<1>1. GenTypeOK'
  BY DEF GenTypeOK, G!Decide
<1>2. GenProcesses' /\ GenCleaned'
  BY DEF GenTypeOK, GenProcesses, GenCleaned, G!Decide
<1>3. GenRead' /\ GenCounted'
  BY DEF GenTypeOK, GenRead, GenCounted, G!Decide
<1>4. GenDecided'
  <2>1. gen'.at = "remove" /\ UNCHANGED <<pipe, got, over>>
    BY DEF GenTypeOK, G!Decide
  <2>2. gen'.tree = gen.tree /\ gen'.exit = gen.exit
    BY DEF GenTypeOK, G!Decide
  <2>3. CASE gen.tree = "failed"
    <3>1. gen'.status = "cleanup_failed"
      BY <2>3 DEF GenTypeOK, G!Decide
    <3> QED
      BY <2>1, <3>1 DEF GenDecided
  <2>4. CASE gen.tree # "failed"
    <3>1. gen.tree \in Cleaned
      BY <2>4 DEF GenTypeOK, GenCleaned, G!Decide
    <3>2. \A s \in G!Stream : got[s].done
      BY <2>4 DEF GenRead, G!Decide
    <3>3. gen'.status = "succeeded" => ~over /\ gen'.exit = "zero" /\ gen'.usage = "within"
      BY <2>4 DEF GenTypeOK, G!Decide
    <3> QED
      BY <2>1, <2>2, <3>1, <3>2, <3>3 DEF GenDecided
  <2> QED
    BY <2>3, <2>4
<1> QED
  BY <1>1, <1>2, <1>3, <1>4 DEF GenInv

\* The directory goes last; a status may only get worse.
LEMMA GenRemove == ASSUME GenInv, G!Remove PROVE GenInv'
<1> USE DEF GenInv, G!At, G!Command, G!Group, G!InGroup, G!HoldsPipes, G!Total, Early, Working,
   Cleaned
<1>1. GenTypeOK'
  BY DEF GenTypeOK, G!Remove
<1>2. GenProcesses' /\ GenCleaned'
  BY ZenonT(40) DEF GenTypeOK, GenProcesses, GenCleaned, G!Remove
<1>3. GenRead' /\ GenCounted'
  BY ZenonT(40) DEF GenTypeOK, GenRead, GenCounted, G!Remove
<1>4. GenDecided'
  BY DEF GenTypeOK, GenDecided, G!Remove
<1> QED
  BY <1>1, <1>2, <1>3, <1>4 DEF GenInv

\* Processes end, fork and leave their group; none enters one that is empty.
LEMMA GenLives == ASSUME GenInv, G!Lives PROVE GenInv'
<1> USE DEF GenInv, G!At, G!Command, G!Group, G!InGroup, G!HoldsPipes, G!Total, Early, Working,
   Cleaned
<1>1. GenTypeOK'
  BY DEF GenTypeOK, G!Lives
<1>2. GenProcesses' /\ GenCleaned'
  BY DEF GenTypeOK, GenProcesses, GenCleaned, G!Lives
<1>3. GenRead' /\ GenCounted'
  BY DEF GenTypeOK, GenRead, GenCounted, G!Lives
<1>4. GenDecided'
  BY DEF GenTypeOK, GenDecided, G!Lives
<1> QED
  BY <1>1, <1>2, <1>3, <1>4 DEF GenInv

\* Only who holds a pipe writes, so nobody after a thread's end.
LEMMA GenWrites == ASSUME GenInv, NEW s \in G!Stream, G!Writes(s) PROVE GenInv'
<1> USE DEF GenInv, G!At, G!Command, G!Group, G!InGroup, G!HoldsPipes, G!Total, G!Stream,
   Early, Working, Cleaned
<1>1. GenTypeOK'
  BY DEF GenTypeOK, G!Writes
<1>2. GenProcesses' /\ GenCleaned'
  BY DEF GenTypeOK, GenProcesses, GenCleaned, G!Writes
<1>3. GenRead' /\ GenCounted'
  BY DEF GenTypeOK, GenRead, GenCounted, G!Writes
<1>4. GenDecided'
  BY DEF GenTypeOK, GenDecided, G!Writes
<1> QED
  BY <1>1, <1>2, <1>3, <1>4 DEF GenInv

\* What is read is counted, and found too much as soon as it is.
LEMMA GenCapture == ASSUME GenInv, NEW s \in G!Stream, G!Capture(s) PROVE GenInv'
<1> USE DEF GenInv, G!At, G!Command, G!Group, G!InGroup, G!HoldsPipes, G!Total, G!Stream,
   Early, Working, Cleaned
<1>1. GenTypeOK'
  BY DEF GenTypeOK, G!Capture
<1>2. GenProcesses' /\ GenCleaned'
  BY DEF GenTypeOK, GenProcesses, GenCleaned, G!Capture
<1>3. GenRead'
  BY DEF GenTypeOK, GenRead, G!Capture
<1>5. GenCounted'
  <2>1. CASE UNCHANGED over /\ got' = [got EXCEPT ![s].done = TRUE]
    BY <2>1 DEF GenTypeOK, GenCounted
  <2>2. CASE /\ got' = [got EXCEPT ![s].bytes = @ + 1]
             /\ over' = (over \/ got'[s].bytes > StreamLimit \/ G!Total + 1 > TotalLimit)
    <3> SUFFICES ASSUME ~over'
                 PROVE  (\A r \in G!Stream : got'[r].bytes <= StreamLimit) /\ G!Total' <= TotalLimit
      BY DEF GenCounted
    <3>1. ~over /\ ~(got'[s].bytes > StreamLimit) /\ ~(G!Total + 1 > TotalLimit)
      BY <2>2
    <3>2. got'[s].bytes = got[s].bytes + 1 /\ \A r \in G!Stream \ {s} : got'[r] = got[r]
      BY <2>2 DEF GenTypeOK
    <3>3. \A r \in G!Stream : got'[r].bytes <= StreamLimit
      BY <3>1, <3>2, MeasurementAssumption DEF GenTypeOK, GenCounted
    <3>4. G!Total' = G!Total + 1
      BY <3>2 DEF GenTypeOK
    <3> QED
      BY <3>1, <3>3, <3>4, MeasurementAssumption DEF GenTypeOK
  <2> QED
    BY <2>1, <2>2 DEF G!Capture
<1>4. GenDecided'
  BY DEF GenTypeOK, GenDecided, G!Capture
<1> QED
  BY <1>1, <1>2, <1>3, <1>4, <1>5 DEF GenInv

\* Every step of an attempt.
LEMMA GenNext == ASSUME GenInv, G!GeneratorNext PROVE GenInv'
BY GenPreflight, GenPrepareAttempt, GenLaunch, GenWatch, GenTerminate, GenGrace, GenKill,
   GenWaitExit, GenJoin, GenDecide, GenRemove, GenLives, GenWrites, GenCapture
DEF G!GeneratorNext, G!AttemptStep

\* Another part moves.
LEMMA GenStays == ASSUME GenInv, UNCHANGED onlyG PROVE GenInv'
BY DEF onlyG, GenInv, GenTypeOK, GenProcesses, GenCleaned, GenRead, GenCounted, GenDecided,
       G!Group, G!InGroup, G!HoldsPipes, G!Total

\* What the invariant says of an attempt that is over.
LEMMA GenMeans == ASSUME GenInv PROVE G!AttemptLeavesNothing /\ G!ProposalIsWhole
<1>1. G!AttemptLeavesNothing
  BY DEF GenInv, GenTypeOK, GenCleaned, GenRead, GenDecided, G!AttemptLeavesNothing, G!At,
     G!Stream
<1>2. G!ProposalIsWhole
  BY MeasurementAssumption DEF GenInv, GenTypeOK, GenRead, GenCounted, GenDecided,
     G!ProposalIsWhole,
     G!At, G!Stream, G!Kept, G!Min2, G!Total
<1> QED
  BY <1>1, <1>2

-----------------------------------------------------------------------------
(* The server's run.                                                       *)

Unstarted == {"check", "cache", "launch"}
Serving == {"started", "ready", "attest", "ask", "alive"}
Stopping == {"stop", "term", "grace", "kill", "last"}
Closing == {"finish", "drop", "report", "over"}

ServerTypeOK ==
  /\ kind \in {"smoke", "formal", "endpoint"}
  /\ DOMAIN tree = S!Process
  /\ \A p \in S!Process : tree[p] \in {"none", "up", "dead", "gone"}
  /\ keep \in {"none", "begun", "spawned", "published", "watching", "reaped", "noted", "crashed"}
  /\ DOMAIN serve = {"at", "group", "err", "mute", "answers", "sent", "stop", "cache", "result"}
  /\ serve.at \in Unstarted \cup {"identify", "sorry", "killed"} \cup Serving \cup Stopping
                    \cup Closing
  /\ serve.group \in {"none", "process", "server"}
  /\ serve.cache \in {"none", "made", "unknown"}
  /\ serve.stop \in {"none", "clean", "failed"}

\* What has been started is known to the runner, and what the keeper has done is
\* told by where it is.
KeeperTells ==
  /\ serve.group = "none" => \A p \in S!Process : tree[p] = "none"
  /\ serve.group = "none" <=> keep = "none" /\ tree["server"] = "none"
  /\ ~S!Kept => keep = "none" /\ tree["keeper"] = "none" /\ serve.group # "server" /\ files = {}
  /\ keep \in {"begun", "spawned", "published", "watching", "reaped"} => tree["keeper"] = "up"
  /\ keep = "crashed" => tree["keeper"] \in {"dead", "gone"}
  /\ S!Kept => /\ keep \in {"none", "begun"} => tree["server"] = "none"
               /\ keep \in {"spawned", "published", "watching"} => tree["server"] \in {"up", "dead"}
               /\ keep \in {"reaped", "noted"} => tree["server"] = "gone"
               /\ keep = "noted" => "process-exit" \in files
  /\ "process-start" \in files => tree["server"] # "none"
  /\ serve.group = "server" => "process-start" \in files
  /\ tree["server"] = "none" => tree["child"] = "none"

\* Where the runner is.
RunnerIs ==
  /\ serve.at \in Unstarted => serve.group = "none"
  /\ serve.at \in Serving \cup {"identify"} => serve.group # "none"
  /\ serve.at \notin Closing \cup {"killed"} => serve.stop = "none"
  /\ serve.at \in Unstarted \cup Serving \cup {"identify", "sorry", "stop", "term"} =>
       serve.sent = "none"
  /\ serve.at = "cache" => kind = "endpoint"
  /\ kind # "endpoint" => serve.cache = "none"

\* What a runner without an error has behind it.
RunnerKnows ==
  /\ serve.at = "sorry" => serve.err
  /\ serve.at \in Serving \cup Stopping \cup Closing /\ ~serve.err => ~S!Unidentified
  /\ serve.cache = "unknown" => serve.err
  /\ serve.at \in {"report", "over"} /\ ~serve.err => serve.cache = "none"

NobodyUp == tree["server"] # "up" /\ tree["child"] # "up"

\* A group that has been seen empty stays empty, and one that may not be has been
\* sent SIGKILL. The keeper has noted the end, crashed, or has yet to note it.
GroupStopped ==
  /\ serve.stop = "clean" /\ ~S!Unidentified =>
       /\ NobodyUp
       /\ S!Kept => \/ keep \in {"noted", "crashed"}
                    \/ keep = "reaped" /\ serve.sent = "none"
  /\ serve.at \in {"last"} \cup Closing /\ ~S!Unidentified => NobodyUp \/ serve.sent = "kill"

ResultTold ==
  serve.result.filed =>
    /\ serve.at = "over"
    /\ serve.result.clean => serve.stop = "clean"
    /\ serve.result.ok => serve.result.clean /\ ~serve.err /\ serve.answers = S!Asked

ServerInv == ServerTypeOK /\ KeeperTells /\ RunnerIs /\ RunnerKnows /\ GroupStopped /\ ResultTold

\* Nothing has been started.
LEMMA ServerInit == ASSUME S!ServerInit PROVE ServerInv
<1> USE DEF S!ServerInit, S!Process, S!Kept, S!Unidentified, Unstarted, Serving, Stopping,
   Closing
<1>1. ServerTypeOK
  BY DEF ServerTypeOK
<1>2. KeeperTells
  BY DEF KeeperTells
<1>3. RunnerIs
  BY DEF RunnerIs
<1>4. RunnerKnows
  BY DEF RunnerKnows
<1>5. GroupStopped
  BY DEF GroupStopped
<1>6. ResultTold
  BY DEF ResultTold
<1> QED
  BY <1>1, <1>2, <1>3, <1>4, <1>5, <1>6 DEF ServerInv

\* poll and the sweep of a subreaper: what is dead may be reaped, the server only
\* when the keeper is not there to do so.
Harvest ==
  /\ DOMAIN tree' = S!Process
  /\ \A p \in S!Process : tree'[p] = tree[p] \/ (tree[p] = "dead" /\ tree'[p] = "gone")
  /\ tree'["server"] # tree["server"] => ~S!Kept \/ tree'["keeper"] # "up"

\* poll only harvests.
LEMMA PollHarvests == ASSUME ServerTypeOK, tree' = S!Poll(tree) PROVE Harvest
BY DEF ServerTypeOK, Harvest, S!Poll, S!Started, S!Process, S!Kept

\* What the runner reaps as a subreaper is harvested, too.
LEMMA SweepHarvests == ASSUME ServerTypeOK, tree' = S!Sweep(tree) PROVE Harvest
<1> DEFINE mine == S!Poll(tree)
<1>1. /\ DOMAIN mine = S!Process
      /\ \A p \in S!Process : mine[p] = tree[p] \/ (tree[p] = "dead" /\ mine[p] = "gone")
      /\ mine["server"] # tree["server"] => ~S!Kept
  BY DEF ServerTypeOK, S!Poll, S!Started, S!Process, S!Kept
<1>2. /\ DOMAIN tree' = S!Process
      /\ \A p \in S!Process : tree'[p] = mine[p] \/ (mine[p] = "dead" /\ tree'[p] = "gone" /\ S!Orphan(mine, p))
  BY DEF S!Sweep
<1> HIDE DEF mine
<1>3. tree'["server"] # tree["server"] => ~S!Kept \/ tree'["keeper"] # "up"
  BY <1>1, <1>2 DEF S!Orphan, S!Process
<1> QED
  BY <1>1, <1>2, <1>3 DEF Harvest

\* A harvest revives no process and leaves the keeper's record true.
LEMMA HarvestKeeps ==
  ASSUME ServerTypeOK, KeeperTells, Harvest, UNCHANGED <<kind, keep, files>>,
         serve'.group = serve.group
  PROVE  /\ \A p \in S!Process : tree'[p] \in {"none", "up", "dead", "gone"}
         /\ KeeperTells'
         /\ NobodyUp => NobodyUp'
BY DEF ServerTypeOK, KeeperTells, Harvest, NobodyUp, S!Process, S!Kept

\* A refused specification starts nothing.
LEMMA ServerCheckSpec == ASSUME ServerInv, S!CheckSpec PROVE ServerInv'
<1> USE DEF ServerInv, S!At, S!Go, S!Process, S!Kept, S!Unidentified, NobodyUp, Unstarted,
   Serving, Stopping, Closing
<1>1. ServerTypeOK'
  BY DEF ServerTypeOK, S!CheckSpec, S!Raise
<1>2. KeeperTells'
  BY DEF ServerTypeOK, KeeperTells, RunnerIs, S!CheckSpec, S!Raise
<1>3. RunnerIs'
  BY ZenonT(40) DEF ServerTypeOK, RunnerIs, S!CheckSpec, S!Raise
<1>4. RunnerKnows'
  BY ZenonT(40) DEF ServerTypeOK, RunnerKnows, S!CheckSpec, S!Raise
<1>5. GroupStopped'
  BY DEF ServerTypeOK, GroupStopped, KeeperTells, RunnerIs, S!CheckSpec, S!Raise
<1>6. ResultTold'
  BY DEF ServerTypeOK, ResultTold, RunnerIs, S!Asked, S!CheckSpec, S!Raise
<1> QED
  BY <1>1, <1>2, <1>3, <1>4, <1>5, <1>6 DEF ServerInv

\* The record of the start fails, or the server is waited for.
LEMMA ServerRecordStart == ASSUME ServerInv, S!RecordStart PROVE ServerInv'
<1> USE DEF ServerInv, S!At, S!Go, S!Process, S!Kept, S!Unidentified, NobodyUp, Unstarted,
   Serving, Stopping, Closing
<1>1. ServerTypeOK'
  BY DEF ServerTypeOK, S!RecordStart, S!Raise
<1>2. KeeperTells'
  BY ZenonT(40) DEF ServerTypeOK, KeeperTells, RunnerIs, S!RecordStart, S!Raise
<1>3. RunnerIs'
  BY ZenonT(40) DEF ServerTypeOK, RunnerIs, S!RecordStart, S!Raise
<1>4. RunnerKnows'
  BY DEF ServerTypeOK, RunnerKnows, S!RecordStart, S!Raise
<1>5. GroupStopped'
  BY ZenonT(40) DEF ServerTypeOK, GroupStopped, KeeperTells, RunnerIs, S!RecordStart, S!Raise
<1>6. ResultTold'
  BY DEF ServerTypeOK, ResultTold, RunnerIs, S!Asked, S!RecordStart, S!Raise
<1> QED
  BY <1>1, <1>2, <1>3, <1>4, <1>5, <1>6 DEF ServerInv

\* Attestation fails or the run goes on.
LEMMA ServerAttest == ASSUME ServerInv, S!Attest PROVE ServerInv'
<1> USE DEF ServerInv, S!At, S!Go, S!Process, S!Kept, S!Unidentified, NobodyUp, Unstarted,
   Serving, Stopping, Closing
<1>1. ServerTypeOK'
  BY DEF ServerTypeOK, S!Attest, S!Raise
<1>2. KeeperTells'
  BY DEF ServerTypeOK, KeeperTells, RunnerIs, S!Attest, S!Raise
<1>3. RunnerIs'
  BY ZenonT(40) DEF ServerTypeOK, RunnerIs, S!Attest, S!Raise
<1>4. RunnerKnows'
  BY DEF ServerTypeOK, RunnerKnows, S!Attest, S!Raise
<1>5. GroupStopped'
  BY ZenonT(40) DEF ServerTypeOK, GroupStopped, KeeperTells, RunnerIs, S!Attest, S!Raise
<1>6. ResultTold'
  BY DEF ServerTypeOK, ResultTold, RunnerIs, S!Asked, S!Attest, S!Raise
<1> QED
  BY <1>1, <1>2, <1>3, <1>4, <1>5, <1>6 DEF ServerInv

\* The requests of an acquisition.
LEMMA ServerGenerate == ASSUME ServerInv, S!Generate PROVE ServerInv'
<1> USE DEF ServerInv, S!At, S!Go, S!Process, S!Kept, S!Unidentified, NobodyUp, Unstarted,
   Serving, Stopping, Closing
<1>1. ServerTypeOK'
  BY DEF ServerTypeOK, S!Generate, S!Raise
<1>2. KeeperTells'
  BY DEF ServerTypeOK, KeeperTells, RunnerIs, S!Generate, S!Raise
<1>3. RunnerIs'
  BY ZenonT(40) DEF ServerTypeOK, RunnerIs, S!Generate, S!Raise
<1>4. RunnerKnows'
  BY DEF ServerTypeOK, RunnerKnows, S!Generate, S!Raise
<1>5. GroupStopped'
  BY DEF ServerTypeOK, GroupStopped, KeeperTells, RunnerIs, S!Generate, S!Raise
<1>6. ResultTold'
  BY DEF ServerTypeOK, ResultTold, RunnerIs, S!Asked, S!Generate, S!Raise
<1> QED
  BY <1>1, <1>2, <1>3, <1>4, <1>5, <1>6 DEF ServerInv

\* A request that fails is an error that stays.
LEMMA ServerRunRequest == ASSUME ServerInv, S!RunRequest PROVE ServerInv'
<1> USE DEF ServerInv, S!At, S!Go, S!Process, S!Kept, S!Unidentified, NobodyUp, Unstarted,
   Serving, Stopping, Closing
<1>1. ServerTypeOK'
  BY ZenonT(40) DEF ServerTypeOK, S!RunRequest, S!Raise
<1>2. KeeperTells'
  BY ZenonT(40) DEF ServerTypeOK, KeeperTells, RunnerIs, S!RunRequest, S!Raise
<1>3. RunnerIs'
  BY ZenonT(40) DEF ServerTypeOK, RunnerIs, S!RunRequest, S!Raise
<1>4. RunnerKnows'
  BY ZenonT(40) DEF ServerTypeOK, RunnerKnows, S!RunRequest, S!Raise
<1>5. GroupStopped'
  BY ZenonT(40) DEF ServerTypeOK, GroupStopped, KeeperTells, RunnerIs, S!RunRequest, S!Raise
<1>6. ResultTold'
  BY DEF ServerTypeOK, ResultTold, RunnerIs, S!Asked, S!RunRequest, S!Raise
<1> QED
  BY <1>1, <1>2, <1>3, <1>4, <1>5, <1>6 DEF ServerInv

\* Only an endpoint's run has a cache.
LEMMA ServerPrepareCache == ASSUME ServerInv, S!PrepareCache PROVE ServerInv'
<1> USE DEF ServerInv, S!At, S!Go, S!Process, S!Kept, S!Unidentified, NobodyUp, Unstarted,
   Serving, Stopping, Closing
<1>1. ServerTypeOK'
  BY ZenonT(40) DEF ServerTypeOK, S!PrepareCache
<1>2. KeeperTells'
  BY ZenonT(40) DEF ServerTypeOK, KeeperTells, RunnerIs, S!PrepareCache
<1>3. RunnerIs'
  <2>1. /\ UNCHANGED kind /\ serve.at = "cache" /\ serve'.group = serve.group
        /\ serve'.stop = serve.stop /\ serve'.sent = serve.sent
        /\ serve'.at \in {"launch", "sorry"}
    BY DEF ServerTypeOK, S!PrepareCache
  <2> QED
    BY <2>1 DEF RunnerIs
<1>4. RunnerKnows'
  <2>1. /\ kind' = kind /\ serve.at = "cache" /\ kind = "endpoint"
        /\ \/ serve'.err = serve.err /\ serve'.at = "launch" /\ serve'.cache = "made"
           \/ serve'.err = TRUE /\ serve'.at = "sorry"
    BY DEF ServerTypeOK, RunnerIs, S!PrepareCache
  <2> QED
    BY <2>1 DEF ServerTypeOK, RunnerKnows
<1>5. GroupStopped'
  BY DEF ServerTypeOK, GroupStopped, KeeperTells, RunnerIs, S!PrepareCache
<1>6. ResultTold'
  BY DEF ServerTypeOK, ResultTold, RunnerIs, S!Asked, S!PrepareCache
<1> QED
  BY <1>1, <1>2, <1>3, <1>4, <1>5, <1>6 DEF ServerInv

\* What is started is the group's leader.
LEMMA ServerLaunch == ASSUME ServerInv, S!Launch PROVE ServerInv'
<1> USE DEF ServerInv, S!At, S!Go, S!Process, S!Kept, S!Unidentified, NobodyUp, Unstarted,
   Serving, Stopping, Closing
<1>1. ServerTypeOK'
  BY ZenonT(40) DEF ServerTypeOK, S!Launch, S!Raise, S!Started
<1>2. KeeperTells'
  BY ZenonT(40) DEF ServerTypeOK, KeeperTells, RunnerIs, S!Launch, S!Raise, S!Started
<1>3. RunnerIs'
  BY ZenonT(40) DEF ServerTypeOK, RunnerIs, S!Launch, S!Raise, S!Started
<1>4. RunnerKnows'
  <2>1. /\ kind' = kind /\ serve'.cache = serve.cache /\ serve.at = "launch"
        /\ \/ serve'.err = serve.err /\ serve'.at = "identify"
           \/ serve'.err = serve.err /\ serve'.at = "started" /\ ~S!Kept
           \/ serve'.err = TRUE /\ serve'.at = "sorry"
    BY DEF ServerTypeOK, S!Launch, S!Raise
  <2> QED
    BY <2>1 DEF ServerTypeOK, RunnerKnows
<1>5. GroupStopped'
  BY ZenonT(40) DEF ServerTypeOK, GroupStopped, KeeperTells, RunnerIs, S!Launch, S!Raise, S!Started
<1>6. ResultTold'
  BY DEF ServerTypeOK, ResultTold, RunnerIs, S!Asked, S!Launch, S!Raise, S!Started
<1> QED
  BY <1>1, <1>2, <1>3, <1>4, <1>5, <1>6 DEF ServerInv

\* The server may have died before it was ready.
LEMMA ServerWaitReady == ASSUME ServerInv, S!WaitReady PROVE ServerInv'
<1> USE DEF ServerInv, S!At, S!Go, S!Process, S!Kept, S!Unidentified, NobodyUp, Unstarted,
   Serving, Stopping, Closing
<1>a. Harvest
  BY PollHarvests DEF S!WaitReady
<1>b. UNCHANGED <<kind, keep, files, sig>> /\ serve'.group = serve.group
  BY DEF ServerTypeOK, S!WaitReady, S!Raise
<1>c. /\ \A p \in S!Process : tree'[p] \in {"none", "up", "dead", "gone"}
      /\ KeeperTells'
      /\ NobodyUp => NobodyUp'
  BY <1>a, <1>b, HarvestKeeps
<1>1. ServerTypeOK'
  BY ZenonT(40), <1>a, <1>b, <1>c DEF ServerTypeOK, Harvest, S!WaitReady, S!Raise
<1>2. KeeperTells'
  BY <1>c
<1>3. RunnerIs'
  BY ZenonT(40), <1>b, <1>c DEF ServerTypeOK, RunnerIs, S!WaitReady, S!Raise
<1>4. RunnerKnows'
  BY ZenonT(40), <1>b, <1>c DEF ServerTypeOK, RunnerKnows, S!WaitReady, S!Raise
<1>5. GroupStopped'
  BY ZenonT(40), <1>b, <1>c
    DEF ServerTypeOK, GroupStopped, KeeperTells, RunnerIs, S!WaitReady, S!Raise
<1>6. ResultTold'
  BY <1>b, <1>c DEF ServerTypeOK, ResultTold, RunnerIs, S!Asked, S!WaitReady, S!Raise
<1> QED
  BY <1>1, <1>2, <1>3, <1>4, <1>5, <1>6 DEF ServerInv

\* The server may have died after its last answer.
LEMMA ServerStillAlive == ASSUME ServerInv, S!StillAlive PROVE ServerInv'
<1> USE DEF ServerInv, S!At, S!Go, S!Process, S!Kept, S!Unidentified, NobodyUp, Unstarted,
   Serving, Stopping, Closing
<1>a. Harvest
  BY PollHarvests DEF S!StillAlive
<1>b. UNCHANGED <<kind, keep, files, sig>> /\ serve'.group = serve.group
  BY DEF ServerTypeOK, S!StillAlive, S!Raise
<1>c. /\ \A p \in S!Process : tree'[p] \in {"none", "up", "dead", "gone"}
      /\ KeeperTells'
      /\ NobodyUp => NobodyUp'
  BY <1>a, <1>b, HarvestKeeps
<1>d. /\ serve.at \in Serving \cup Stopping
      /\ serve'.stop = serve.stop
      /\ serve'.at \notin {"last"} \cup Closing
  BY DEF ServerTypeOK, S!StillAlive, S!Raise
<1>1. ServerTypeOK'
  BY ZenonT(40), <1>a, <1>b, <1>c DEF ServerTypeOK, Harvest, S!StillAlive, S!Raise
<1>2. KeeperTells'
  BY <1>c
<1>3. RunnerIs'
  BY ZenonT(40), <1>b, <1>c DEF ServerTypeOK, RunnerIs, S!StillAlive, S!Raise
<1>4. RunnerKnows'
  BY ZenonT(40), <1>b, <1>c DEF ServerTypeOK, RunnerKnows, S!StillAlive, S!Raise
<1>5. GroupStopped'
  <2>1. serve'.stop = "none"
    BY <1>d DEF RunnerIs
  <2> QED
    BY <1>d, <2>1 DEF GroupStopped
<1>6. ResultTold'
  BY <1>b, <1>c DEF ServerTypeOK, ResultTold, RunnerIs, S!Asked, S!StillAlive, S!Raise
<1> QED
  BY <1>1, <1>2, <1>3, <1>4, <1>5, <1>6 DEF ServerInv

\* A group that is still there is sent SIGKILL.
LEMMA ServerKill == ASSUME ServerInv, S!Kill PROVE ServerInv'
<1> USE DEF ServerInv, S!At, S!Go, S!Process, S!Kept, S!Unidentified, NobodyUp, Unstarted,
   Serving, Stopping, Closing
<1>a. Harvest
  BY PollHarvests DEF S!Kill
<1>b. UNCHANGED <<kind, keep, files, sig>> /\ serve'.group = serve.group
  BY DEF ServerTypeOK, S!Kill
<1>c. /\ \A p \in S!Process : tree'[p] \in {"none", "up", "dead", "gone"}
      /\ KeeperTells'
      /\ NobodyUp => NobodyUp'
  BY <1>a, <1>b, HarvestKeeps
<1>d. /\ serve.at \in Serving \cup Stopping
      /\ serve'.stop = serve.stop
      /\ serve'.at \notin Closing
      /\ S!Exists(tree', serve.group) => serve'.sent = "kill"
  BY DEF ServerTypeOK, S!Kill
<1>1. ServerTypeOK'
  BY <1>a, <1>b, <1>c DEF ServerTypeOK, Harvest, S!Kill
<1>2. KeeperTells'
  BY <1>c
<1>3. RunnerIs'
  BY <1>b, <1>c DEF ServerTypeOK, RunnerIs, S!Kill
<1>4. RunnerKnows'
  BY <1>b, <1>c DEF ServerTypeOK, RunnerKnows, S!Kill
<1>5. GroupStopped'
  <2>1. ~S!Unidentified /\ ~S!Exists(tree', serve.group) => NobodyUp'
    BY <1>b, <1>c DEF ServerTypeOK, KeeperTells, S!Exists, S!Members
  <2>2. serve'.stop = "none"
    BY <1>d DEF RunnerIs
  <2> QED
    BY <1>b, <1>d, <2>1, <2>2 DEF GroupStopped
<1>6. ResultTold'
  BY <1>b, <1>c DEF ServerTypeOK, ResultTold, RunnerIs, S!Asked, S!Kill
<1> QED
  BY <1>1, <1>2, <1>3, <1>4, <1>5, <1>6 DEF ServerInv

\* A group is taken for the server's only from the keeper's file.
LEMMA ServerIdentify == ASSUME ServerInv, S!Identify PROVE ServerInv'
<1> USE DEF ServerInv, S!At, S!Go, S!Process, S!Kept, S!Unidentified, NobodyUp, Unstarted,
   Serving, Stopping, Closing
<1>a. /\ serve.at = "identify" /\ UNCHANGED <<kind, keep, files, sig>>
      /\ \/ /\ "process-start" \in files /\ UNCHANGED tree
            /\ serve' = [serve EXCEPT !.at = "started", !.group = "server"]
         \/ /\ tree' = S!Poll(tree)
            /\ serve' = [serve EXCEPT !.at = "sorry", !.err = TRUE]
  BY DEF S!Identify, S!Raise
<1>b. Harvest
  <2>1. CASE UNCHANGED tree
    BY <2>1 DEF ServerTypeOK, Harvest
  <2> QED
    BY <1>a, <2>1, PollHarvests
<1>c. /\ \A p \in S!Process : tree'[p] \in {"none", "up", "dead", "gone"}
      /\ serve'.group = serve.group => KeeperTells'
  <2>1. UNCHANGED <<kind, keep, files>>
    BY <1>a
  <2>2. \A p \in S!Process : tree'[p] \in {"none", "up", "dead", "gone"}
    BY <1>b DEF ServerTypeOK, Harvest
  <2> QED
    BY <1>b, <2>1, <2>2, HarvestKeeps
<1>d. serve'.group # serve.group => "process-start" \in files /\ UNCHANGED tree
      /\ serve'.group = "server" /\ serve.group # "none"
  BY <1>a DEF ServerTypeOK, RunnerIs
<1>1. ServerTypeOK'
  BY <1>a, <1>b, <1>c DEF ServerTypeOK, Harvest
<1>2. KeeperTells'
  <2>1. CASE serve'.group = serve.group
    BY <1>c, <2>1
  <2>2. CASE serve'.group # serve.group
    <3>1. /\ UNCHANGED <<kind, tree, keep, files>> /\ serve'.group = "server"
          /\ serve.group # "none" /\ "process-start" \in files
      BY <1>a, <1>d, <2>2
    <3> QED
      BY <3>1 DEF KeeperTells
  <2> QED
    BY <2>1, <2>2
<1>3. RunnerIs'
  BY ZenonT(40), <1>a DEF ServerTypeOK, RunnerIs
<1>4. RunnerKnows'
  BY ZenonT(40), <1>a DEF ServerTypeOK, RunnerKnows
<1>5. GroupStopped'
  <2>1. serve'.stop = "none" /\ serve'.at \notin {"last"} \cup Closing
    BY ZenonT(40), <1>a DEF ServerTypeOK, RunnerIs
  <2> QED
    BY <2>1 DEF GroupStopped
<1>6. ResultTold'
  BY <1>a DEF ServerTypeOK, RunnerIs, ResultTold
<1> QED
  BY <1>1, <1>2, <1>3, <1>4, <1>5, <1>6 DEF ServerInv

\* The group is looked at first: it may be gone already.
LEMMA ServerStopGroup == ASSUME ServerInv, S!StopGroup PROVE ServerInv'
<1> USE DEF ServerInv, S!At, S!Go, S!Process, S!Kept, S!Unidentified, NobodyUp, Unstarted,
   Serving, Stopping, Closing
<1>a. Harvest
  BY SweepHarvests DEF S!StopGroup
<1>b. UNCHANGED <<kind, keep, files, sig>> /\ serve'.group = serve.group
  BY DEF ServerTypeOK, S!StopGroup, S!Stopped, S!Exists, S!Members, S!Exited, S!Started
<1>c. /\ \A p \in S!Process : tree'[p] \in {"none", "up", "dead", "gone"}
      /\ KeeperTells'
      /\ NobodyUp => NobodyUp'
  BY <1>a, <1>b, HarvestKeeps
<1>d. /\ serve.at = "stop"
      /\ \/ \E how \in {"clean", "failed"} :
              serve' = [serve EXCEPT !.at = "finish", !.stop = how]
         \/ serve' = [serve EXCEPT !.at = "term"]
  BY DEF S!StopGroup, S!Stopped
<1>e. serve'.stop = "clean" /\ serve.stop # "clean" =>
          \/ serve.group = "none"
          \/ ~S!Exists(tree', serve.group) /\ S!Exited(tree')
  BY DEF ServerTypeOK, S!StopGroup, S!Stopped, S!AllGone
<1>f. serve'.stop = "failed" => ~S!Exists(tree', serve.group)
  BY DEF ServerTypeOK, RunnerIs, S!StopGroup, S!Stopped
<1>1. ServerTypeOK'
  BY ZenonT(40), <1>a, <1>b, <1>c, <1>d DEF ServerTypeOK, Harvest
<1>2. KeeperTells'
  BY <1>c
<1>3. RunnerIs'
  BY ZenonT(40), <1>b, <1>d DEF ServerTypeOK, RunnerIs
<1>4. RunnerKnows'
  BY ZenonT(40), <1>b, <1>d DEF ServerTypeOK, RunnerKnows
<1>5. GroupStopped'
  <2>1. serve.group # "none" /\ ~S!Unidentified /\ ~S!Exists(tree', serve.group) => NobodyUp'
    BY <1>b DEF ServerTypeOK, S!Exists, S!Members
  <2>2. serve.group # "none" /\ S!Kept /\ S!Exited(tree') => keep' \in {"noted", "crashed"}
    BY <1>b, <1>c DEF ServerTypeOK, KeeperTells, S!Exited, S!Started
  <2>3. serve.group = "none" => NobodyUp' /\ (S!Unidentified \/ ~S!Kept)
    BY <1>b, <1>c DEF ServerTypeOK, KeeperTells
  <2>4. serve'.group = serve.group /\ S!Unidentified' = S!Unidentified /\ S!Kept' = S!Kept
    BY <1>b
  <2>5. serve.stop = "none" /\ serve'.sent = serve.sent
    BY <1>d DEF ServerTypeOK, RunnerIs
  <2>6. serve.at = "last" /\ ~S!Unidentified => NobodyUp \/ serve.sent = "kill"
    BY DEF GroupStopped
  <2>7. /\ serve'.stop \in {"none", "clean", "failed"}
        /\ (serve'.stop = "none" => serve'.at \notin {"last"} \cup Closing)
    BY <1>d DEF ServerTypeOK, RunnerIs
  <2> QED
    BY <1>c, <1>d, <1>e, <2>6, <2>7, <1>f, <2>1, <2>2, <2>3, <2>4, <2>5
       DEF ServerTypeOK, GroupStopped
<1>6. ResultTold'
  BY <1>b, <1>d DEF ServerTypeOK, RunnerIs, ResultTold, S!Asked
<1> QED
  BY <1>1, <1>2, <1>3, <1>4, <1>5, <1>6 DEF ServerInv

\* Stopped cleanly: the group was seen empty.
LEMMA ServerGrace == ASSUME ServerInv, S!Grace PROVE ServerInv'
<1> USE DEF ServerInv, S!At, S!Go, S!Process, S!Kept, S!Unidentified, NobodyUp, Unstarted,
   Serving, Stopping, Closing
<1>a. Harvest
  BY SweepHarvests DEF S!Grace
<1>b. UNCHANGED <<kind, keep, files, sig>> /\ serve'.group = serve.group
  BY DEF ServerTypeOK, S!Grace, S!Stopped, S!AllGone, S!Exists, S!Members, S!Exited, S!Started
<1>c. /\ \A p \in S!Process : tree'[p] \in {"none", "up", "dead", "gone"}
      /\ KeeperTells'
      /\ NobodyUp => NobodyUp'
  BY <1>a, <1>b, HarvestKeeps
<1>d. /\ serve.at = "grace"
      /\ \/ serve' = [serve EXCEPT !.at = "finish", !.stop = "clean"]
         \/ serve' = [serve EXCEPT !.at = "kill"]
  BY DEF S!Grace, S!Stopped
<1>e. serve'.stop = "clean" /\ serve.stop # "clean" =>
          \/ serve.group = "none"
          \/ ~S!Exists(tree', serve.group) /\ S!Exited(tree')
  BY DEF ServerTypeOK, S!Grace, S!Stopped, S!AllGone
<1>1. ServerTypeOK'
  BY <1>a, <1>b, <1>c, <1>d DEF ServerTypeOK, Harvest
<1>2. KeeperTells'
  BY <1>c
<1>3. RunnerIs'
  <2>1. /\ serve.at = "grace" /\ serve'.cache = serve.cache
        /\ serve'.at \in {"finish", "kill"}
        /\ serve'.at = "kill" => serve'.stop = serve.stop
    BY <1>d DEF ServerTypeOK
  <2> QED
    BY <1>b, <2>1 DEF RunnerIs
<1>4. RunnerKnows'
  BY ZenonT(40), <1>b, <1>d DEF ServerTypeOK, RunnerKnows
<1>5. GroupStopped'
  <2>1. serve.group # "none" /\ ~S!Unidentified /\ ~S!Exists(tree', serve.group) => NobodyUp'
    BY <1>b DEF ServerTypeOK, S!Exists, S!Members
  <2>2. serve.group # "none" /\ S!Kept /\ S!Exited(tree') => keep' \in {"noted", "crashed"}
    BY <1>b, <1>c DEF ServerTypeOK, KeeperTells, S!Exited, S!Started
  <2>3. serve.group = "none" => NobodyUp' /\ (S!Unidentified \/ ~S!Kept)
    BY <1>b, <1>c DEF ServerTypeOK, KeeperTells
  <2>4. serve'.group = serve.group /\ S!Unidentified' = S!Unidentified /\ S!Kept' = S!Kept
    BY <1>b
  <2>5. serve.stop = "none" /\ serve'.sent = serve.sent
    BY <1>d DEF ServerTypeOK, RunnerIs
  <2>6. serve.at = "last" /\ ~S!Unidentified => NobodyUp \/ serve.sent = "kill"
    BY DEF GroupStopped
  <2>7. /\ serve'.stop \in {"none", "clean"}
        /\ (serve'.stop = "none" => serve'.at \notin {"last"} \cup Closing)
    BY <1>d DEF ServerTypeOK, RunnerIs
  <2> QED
    BY <1>c, <1>d, <1>e, <2>6, <2>7, <2>1, <2>2, <2>3, <2>4, <2>5 DEF ServerTypeOK, GroupStopped
<1>6. ResultTold'
  BY <1>b, <1>d DEF ServerTypeOK, RunnerIs, ResultTold, S!Asked
<1> QED
  BY <1>1, <1>2, <1>3, <1>4, <1>5, <1>6 DEF ServerInv

\* After SIGKILL the group is looked at once more.
LEMMA ServerLastWait == ASSUME ServerInv, S!LastWait PROVE ServerInv'
<1> USE DEF ServerInv, S!At, S!Go, S!Process, S!Kept, S!Unidentified, NobodyUp, Unstarted,
   Serving, Stopping, Closing
<1>a. Harvest
  BY SweepHarvests DEF S!LastWait
<1>b. UNCHANGED <<kind, keep, files, sig>> /\ serve'.group = serve.group
  BY DEF ServerTypeOK, S!LastWait, S!Stopped, S!AllGone, S!Exists, S!Members, S!Exited,
     S!Started
<1>c. /\ \A p \in S!Process : tree'[p] \in {"none", "up", "dead", "gone"}
      /\ KeeperTells'
      /\ NobodyUp => NobodyUp'
  BY <1>a, <1>b, HarvestKeeps
<1>d. /\ serve.at = "last"
      /\ \E how \in {"clean", "failed"} :
           serve' = [serve EXCEPT !.at = "finish", !.stop = how]
  BY DEF S!LastWait, S!Stopped
<1>e. serve'.stop = "clean" /\ serve.stop # "clean" =>
          \/ serve.group = "none"
          \/ ~S!Exists(tree', serve.group) /\ S!Exited(tree')
  BY DEF ServerTypeOK, S!LastWait, S!Stopped, S!AllGone
<1>1. ServerTypeOK'
  BY <1>a, <1>b, <1>c, <1>d DEF ServerTypeOK, Harvest
<1>2. KeeperTells'
  BY <1>c
<1>3. RunnerIs'
  <2>1. serve'.cache = serve.cache /\ serve'.at = "finish"
    BY <1>d DEF ServerTypeOK
  <2> QED
    BY <1>b, <2>1 DEF RunnerIs
<1>4. RunnerKnows'
  BY <1>b, <1>d DEF ServerTypeOK, RunnerKnows
<1>5. GroupStopped'
  <2>1. serve.group # "none" /\ ~S!Unidentified /\ ~S!Exists(tree', serve.group) => NobodyUp'
    BY <1>b DEF ServerTypeOK, S!Exists, S!Members
  <2>2. serve.group # "none" /\ S!Kept /\ S!Exited(tree') => keep' \in {"noted", "crashed"}
    BY <1>b, <1>c DEF ServerTypeOK, KeeperTells, S!Exited, S!Started
  <2>3. serve.group = "none" => NobodyUp' /\ (S!Unidentified \/ ~S!Kept)
    BY <1>b, <1>c DEF ServerTypeOK, KeeperTells
  <2>4. serve'.group = serve.group /\ S!Unidentified' = S!Unidentified /\ S!Kept' = S!Kept
    BY <1>b
  <2>5. serve.stop = "none" /\ serve'.sent = serve.sent
    BY <1>d DEF ServerTypeOK, RunnerIs
  <2>6. serve.at = "last" /\ ~S!Unidentified => NobodyUp \/ serve.sent = "kill"
    BY DEF GroupStopped
  <2>7. /\ serve'.stop \in {"none", "clean", "failed"}
        /\ (serve'.stop = "none" => serve'.at \notin {"last"} \cup Closing)
    BY <1>d DEF ServerTypeOK, RunnerIs
  <2> QED
    BY <1>c, <1>d, <1>e, <2>6, <2>7, <2>1, <2>2, <2>3, <2>4, <2>5 DEF ServerTypeOK, GroupStopped
<1>6. ResultTold'
  BY <1>b, <1>d DEF ServerTypeOK, RunnerIs, ResultTold, S!Asked
<1> QED
  BY <1>1, <1>2, <1>3, <1>4, <1>5, <1>6 DEF ServerInv

\* A runner on its way out has an error.
LEMMA ServerSorry == ASSUME ServerInv, S!Sorry PROVE ServerInv'
<1> USE DEF ServerInv, S!At, S!Go, S!Process, S!Kept, S!Unidentified, NobodyUp, Unstarted,
   Serving, Stopping, Closing
<1>1. ServerTypeOK'
  BY DEF ServerTypeOK, S!Sorry
<1>2. KeeperTells'
  BY ZenonT(40) DEF ServerTypeOK, KeeperTells, RunnerIs, S!Sorry
<1>3. RunnerIs'
  BY ZenonT(40) DEF ServerTypeOK, RunnerIs, S!Sorry
<1>4. RunnerKnows'
  BY DEF ServerTypeOK, RunnerKnows, S!Sorry
<1>5. GroupStopped'
  BY ZenonT(40) DEF ServerTypeOK, GroupStopped, KeeperTells, RunnerIs, S!Sorry
<1>6. ResultTold'
  BY DEF ServerTypeOK, ResultTold, RunnerIs, S!Asked, S!Sorry
<1> QED
  BY <1>1, <1>2, <1>3, <1>4, <1>5, <1>6 DEF ServerInv

\* A group that is gone by now counts as stopped.
LEMMA ServerTerminate == ASSUME ServerInv, S!Terminate PROVE ServerInv'
<1> USE DEF ServerInv, S!At, S!Go, S!Process, S!Kept, S!Unidentified, NobodyUp, Unstarted,
   Serving, Stopping, Closing
<1> DEFINE hit == "keeper" \in S!Members(serve.group) /\ tree.keeper = "up" /\ keep # "watching"
<1>a. /\ serve.at = "term" /\ UNCHANGED <<kind, files, sig>>
      /\ \/ /\ serve' = [serve EXCEPT !.at = "grace", !.sent = "term"]
            /\ hit /\ tree' = [tree EXCEPT !.keeper = "dead"] /\ keep' = "crashed"
         \/ /\ serve' = [serve EXCEPT !.at = "grace", !.sent = "term"]
            /\ tree' = S!Poll(tree) /\ UNCHANGED keep
         \/ /\ serve' = [serve EXCEPT !.at = "finish", !.stop = "clean"]
            /\ tree' = S!Poll(tree) /\ UNCHANGED keep
            /\ ~S!Exists(S!Poll(tree), serve.group)
  BY DEF S!Terminate, S!Stopped
<1>b. hit => S!Kept /\ tree["keeper"] = "up"
  BY DEF S!Members
<1> HIDE DEF hit
<1>g. serve'.group = serve.group /\ S!Unidentified' = S!Unidentified /\ S!Kept' = S!Kept
  BY <1>a DEF ServerTypeOK
<1> DEFINE TreeOK == /\ DOMAIN tree' = S!Process
                      /\ \A p \in S!Process : tree'[p] \in {"none", "up", "dead", "gone"}
                      /\ KeeperTells'
<1>c. ASSUME hit, tree' = [tree EXCEPT !.keeper = "dead"], keep' = "crashed" PROVE TreeOK
  <2>1. /\ DOMAIN tree' = S!Process /\ tree'["keeper"] = "dead"
        /\ tree'["server"] = tree["server"] /\ tree'["child"] = tree["child"]
    BY <1>c DEF ServerTypeOK
  <2>2. serve.group # "none"
    BY <1>b, <1>c DEF ServerTypeOK, KeeperTells
  <2>3. \A p \in S!Process : tree'[p] \in {"none", "up", "dead", "gone"}
    BY <2>1 DEF ServerTypeOK
  <2>4. KeeperTells'
    BY <1>a, <1>b, <1>c, <1>g, <2>1, <2>2 DEF ServerTypeOK, KeeperTells
  <2> QED
    BY <2>1, <2>3, <2>4
<1>d. ASSUME tree' = S!Poll(tree), UNCHANGED keep PROVE TreeOK
  BY <1>a, <1>d, <1>g, PollHarvests, HarvestKeeps DEF Harvest
<1>e. TreeOK
  BY <1>a, <1>c, <1>d
<1>1. ServerTypeOK'
  BY ZenonT(40), <1>a, <1>e DEF ServerTypeOK
<1>2. KeeperTells'
  BY <1>e
<1>3. RunnerIs'
  <2>1. /\ UNCHANGED kind /\ serve'.cache = serve.cache
        /\ serve'.at \in {"grace", "finish"}
        /\ serve'.at = "grace" => serve'.stop = serve.stop
    BY <1>a DEF ServerTypeOK
  <2> QED
    BY <1>a, <2>1 DEF RunnerIs
<1>4. RunnerKnows'
  BY ZenonT(40), <1>a DEF ServerTypeOK, RunnerKnows
<1>5. GroupStopped'
  <2>1. CASE serve'.at = "grace" /\ serve'.stop = serve.stop
    BY <1>a, <2>1 DEF ServerTypeOK, RunnerIs, GroupStopped
  <2>2. CASE /\ serve' = [serve EXCEPT !.at = "finish", !.stop = "clean"]
             /\ tree' = S!Poll(tree) /\ UNCHANGED keep
             /\ ~S!Exists(S!Poll(tree), serve.group)
    <3> SUFFICES ASSUME ~S!Unidentified
                 PROVE  NobodyUp' /\ (S!Kept => keep' \in {"reaped", "noted", "crashed"})
                        /\ serve'.sent = "none"
      BY <1>g, <2>2 DEF ServerTypeOK, GroupStopped
    <3>1. tree'["server"] \notin {"up", "dead"} /\ tree'["child"] \notin {"up", "dead"}
      BY <2>2 DEF ServerTypeOK, S!Exists, S!Members
    <3>2. serve'.sent = "none"
      BY <1>a, <2>2 DEF ServerTypeOK, RunnerIs
    <3>3. S!Kept => keep' \in {"reaped", "noted", "crashed"}
      BY <1>e, <1>g, <2>2, <3>1 DEF ServerTypeOK, KeeperTells
    <3> QED
      BY <3>1, <3>2, <3>3
  <2> QED
    BY <1>a, <2>1, <2>2 DEF ServerTypeOK
<1>6. ResultTold'
  BY <1>a DEF ServerTypeOK, RunnerIs, ResultTold
<1> QED
  BY <1>1, <1>2, <1>3, <1>4, <1>5, <1>6 DEF ServerInv

\* A record that cannot be written is an error.
LEMMA ServerFinish == ASSUME ServerInv, S!Finish PROVE ServerInv'
<1> USE DEF ServerInv, S!At, S!Go, S!Process, S!Kept, S!Unidentified, NobodyUp, Unstarted,
   Serving, Stopping, Closing
<1>1. ServerTypeOK'
  BY DEF ServerTypeOK, S!Finish
<1>2. KeeperTells'
  BY DEF ServerTypeOK, KeeperTells, RunnerIs, S!Finish
<1>3. RunnerIs'
  BY DEF ServerTypeOK, RunnerIs, S!Finish
<1>4. RunnerKnows'
  <2>1. /\ kind' = kind /\ serve'.cache = serve.cache /\ serve'.group = serve.group
        /\ serve.at = "finish"
        /\ serve'.at = IF kind = "endpoint" THEN "drop" ELSE "report"
    BY DEF ServerTypeOK, S!Finish
  <2>2. serve.err => serve'.err
    BY DEF ServerTypeOK, S!Finish
  <2> QED
    BY <2>1, <2>2 DEF ServerTypeOK, RunnerIs, RunnerKnows
<1>5. GroupStopped'
  BY DEF ServerTypeOK, GroupStopped, KeeperTells, RunnerIs, S!Finish
<1>6. ResultTold'
  BY DEF ServerTypeOK, ResultTold, RunnerIs, S!Asked, S!Finish
<1> QED
  BY <1>1, <1>2, <1>3, <1>4, <1>5, <1>6 DEF ServerInv

\* A cache that cannot be dropped is an error.
LEMMA ServerDropCache == ASSUME ServerInv, S!DropCache PROVE ServerInv'
<1> USE DEF ServerInv, S!At, S!Go, S!Process, S!Kept, S!Unidentified, NobodyUp, Unstarted,
   Serving, Stopping, Closing
<1>1. ServerTypeOK'
  BY ZenonT(40) DEF ServerTypeOK, S!DropCache
<1>2. KeeperTells'
  BY ZenonT(40) DEF ServerTypeOK, KeeperTells, RunnerIs, S!DropCache
<1>3. RunnerIs'
  BY ZenonT(40) DEF ServerTypeOK, RunnerIs, S!DropCache
<1>4. RunnerKnows'
  BY DEF ServerTypeOK, RunnerKnows, S!DropCache
<1>5. GroupStopped'
  BY ZenonT(40) DEF ServerTypeOK, GroupStopped, KeeperTells, RunnerIs, S!DropCache
<1>6. ResultTold'
  BY DEF ServerTypeOK, ResultTold, RunnerIs, S!Asked, S!DropCache
<1> QED
  BY <1>1, <1>2, <1>3, <1>4, <1>5, <1>6 DEF ServerInv

\* A run is ok only without an error and with all answers.
LEMMA ServerReport == ASSUME ServerInv, S!Report PROVE ServerInv'
<1> USE DEF ServerInv, S!At, S!Go, S!Process, S!Kept, S!Unidentified, NobodyUp, Unstarted,
   Serving, Stopping, Closing
<1>1. ServerTypeOK'
  BY DEF ServerTypeOK, S!Report, S!Result, S!Complete
<1>2. KeeperTells'
  BY ZenonT(40) DEF ServerTypeOK, KeeperTells, RunnerIs, S!Report, S!Result, S!Complete
<1>3. RunnerIs'
  BY ZenonT(40) DEF ServerTypeOK, RunnerIs, S!Report, S!Result, S!Complete
<1>4. RunnerKnows'
  BY ZenonT(40) DEF ServerTypeOK, RunnerKnows, S!Report, S!Result, S!Complete
<1>5. GroupStopped'
  BY ZenonT(40)
    DEF ServerTypeOK, GroupStopped, KeeperTells, RunnerIs, S!Report, S!Result, S!Complete
<1>6. ResultTold'
  <2>1. CASE serve' = [serve EXCEPT !.at = "over"]
    BY <2>1 DEF ServerTypeOK, ResultTold, RunnerIs, S!Report, S!Asked
  <2>2. CASE serve' = [serve EXCEPT !.at = "over",
                        !.result = S!Result(S!Complete /\ serve.stop = "clean")]
    <3>1. serve'.at = "over" /\ serve'.err = serve.err /\ serve'.answers = serve.answers
          /\ serve'.stop = serve.stop /\ kind' = kind
      BY <2>2 DEF ServerTypeOK, S!Report
    <3>2. serve'.result = S!Result(S!Complete /\ serve.stop = "clean")
      BY <2>2 DEF ServerTypeOK
    <3>3. /\ serve'.result.clean = (serve.stop = "clean")
          /\ serve'.result.ok = (S!Complete /\ serve.stop = "clean")
      BY <3>2 DEF S!Result
    <3>4. S!Complete => ~serve.err /\ serve.answers = S!Asked
      BY DEF S!Complete
    <3>5. S!Asked' = S!Asked
      BY <3>1 DEF S!Asked
    <3> QED
      BY <3>1, <3>3, <3>4, <3>5 DEF ResultTold
  <2> QED
    BY <2>1, <2>2 DEF S!Report
<1> QED
  BY <1>1, <1>2, <1>3, <1>4, <1>5, <1>6 DEF ServerInv

\* The same, of an acquisition.
LEMMA ServerReportAcquisition == ASSUME ServerInv, S!ReportAcquisition PROVE ServerInv'
<1> USE DEF ServerInv, S!At, S!Go, S!Process, S!Kept, S!Unidentified, NobodyUp, Unstarted,
   Serving, Stopping, Closing
<1>1. ServerTypeOK'
  BY DEF ServerTypeOK, S!ReportAcquisition, S!Result, S!Complete
<1>2. KeeperTells'
  BY DEF ServerTypeOK, KeeperTells, RunnerIs, S!ReportAcquisition, S!Result, S!Complete
<1>3. RunnerIs'
  BY ZenonT(40) DEF ServerTypeOK, RunnerIs, S!ReportAcquisition, S!Result, S!Complete
<1>4. RunnerKnows'
  BY ZenonT(40) DEF ServerTypeOK, RunnerKnows, S!ReportAcquisition, S!Result, S!Complete
<1>5. GroupStopped'
  BY ZenonT(40)
    DEF ServerTypeOK, GroupStopped, KeeperTells, RunnerIs, S!ReportAcquisition, S!Result,
     S!Complete
<1>6. ResultTold'
  <2>1. CASE serve' = [serve EXCEPT !.at = "over"]
    BY <2>1 DEF ServerTypeOK, ResultTold, RunnerIs, S!ReportAcquisition, S!Asked
  <2>2. CASE serve' = [serve EXCEPT !.at = "over",
                        !.result = S!Result(S!Complete /\ serve.stop = "clean")]
    <3>1. serve'.at = "over" /\ serve'.err = serve.err /\ serve'.answers = serve.answers
          /\ serve'.stop = serve.stop /\ kind' = kind
      BY <2>2 DEF ServerTypeOK, S!ReportAcquisition
    <3>2. serve'.result = S!Result(S!Complete /\ serve.stop = "clean")
      BY <2>2 DEF ServerTypeOK
    <3>3. /\ serve'.result.clean = (serve.stop = "clean")
          /\ serve'.result.ok = (S!Complete /\ serve.stop = "clean")
      BY <3>2 DEF S!Result
    <3>4. S!Complete => ~serve.err /\ serve.answers = S!Asked
      BY DEF S!Complete
    <3>5. S!Asked' = S!Asked
      BY <3>1 DEF S!Asked
    <3> QED
      BY <3>1, <3>3, <3>4, <3>5 DEF ResultTold
  <2> QED
    BY <2>1, <2>2 DEF S!ReportAcquisition
<1> QED
  BY <1>1, <1>2, <1>3, <1>4, <1>5, <1>6 DEF ServerInv

\* The keeper starts the server, watches it, and notes its end.
LEMMA ServerKeeper == ASSUME ServerInv, S!Keeper PROVE ServerInv'
<1> USE DEF ServerInv, S!At, S!Go, S!Process, S!Kept, S!Unidentified, NobodyUp, Unstarted,
   Serving, Stopping, Closing
<1>1. ServerTypeOK'
  BY DEF ServerTypeOK, S!Keeper
<1>2. KeeperTells'
  BY DEF ServerTypeOK, KeeperTells, RunnerIs, S!Keeper
<1>3. RunnerIs'
  BY DEF ServerTypeOK, RunnerIs, S!Keeper
<1>4. RunnerKnows'
  BY DEF ServerTypeOK, RunnerKnows, S!Keeper
<1>5. GroupStopped'
  BY DEF ServerTypeOK, GroupStopped, KeeperTells, RunnerIs, S!Keeper
<1>6. ResultTold'
  BY DEF ServerTypeOK, ResultTold, RunnerIs, S!Asked, S!Keeper
<1> QED
  BY <1>1, <1>2, <1>3, <1>4, <1>5, <1>6 DEF ServerInv

\* Only a server that is up forks.
LEMMA ServerForks == ASSUME ServerInv, S!Forks PROVE ServerInv'
<1> USE DEF ServerInv, S!At, S!Go, S!Process, S!Kept, S!Unidentified, NobodyUp, Unstarted,
   Serving, Stopping, Closing
<1>1. ServerTypeOK'
  BY DEF ServerTypeOK, S!Forks
<1>2. KeeperTells'
  BY DEF ServerTypeOK, KeeperTells, RunnerIs, S!Forks
<1>3. RunnerIs'
  BY DEF ServerTypeOK, RunnerIs, S!Forks
<1>4. RunnerKnows'
  BY DEF ServerTypeOK, RunnerKnows, S!Forks
<1>5. GroupStopped'
  BY DEF ServerTypeOK, GroupStopped, KeeperTells, RunnerIs, S!Forks
<1>6. ResultTold'
  BY DEF ServerTypeOK, ResultTold, RunnerIs, S!Asked, S!Forks
<1> QED
  BY <1>1, <1>2, <1>3, <1>4, <1>5, <1>6 DEF ServerInv

\* A signal comes.
LEMMA ServerSignal == ASSUME ServerInv, S!Signal PROVE ServerInv'
<1> USE DEF ServerInv, S!At, S!Go, S!Process, S!Kept, S!Unidentified, NobodyUp, Unstarted,
   Serving, Stopping, Closing
<1>1. ServerTypeOK'
  BY DEF ServerTypeOK, S!Signal
<1>2. KeeperTells'
  BY DEF ServerTypeOK, KeeperTells, RunnerIs, S!Signal
<1>3. RunnerIs'
  BY DEF ServerTypeOK, RunnerIs, S!Signal
<1>4. RunnerKnows'
  BY DEF ServerTypeOK, RunnerKnows, S!Signal
<1>5. GroupStopped'
  BY DEF ServerTypeOK, GroupStopped, KeeperTells, RunnerIs, S!Signal
<1>6. ResultTold'
  BY DEF ServerTypeOK, ResultTold, RunnerIs, S!Asked, S!Signal
<1> QED
  BY <1>1, <1>2, <1>3, <1>4, <1>5, <1>6 DEF ServerInv

\* A signal raises in the runner.
LEMMA ServerRelay == ASSUME ServerInv, S!Relay PROVE ServerInv'
<1> USE DEF ServerInv, S!At, S!Go, S!Process, S!Kept, S!Unidentified, NobodyUp, Unstarted,
   Serving, Stopping, Closing
<1>1. ServerTypeOK'
  BY ZenonT(40) DEF ServerTypeOK, S!Relay, S!Raise
<1>2. KeeperTells'
  BY ZenonT(40) DEF ServerTypeOK, KeeperTells, RunnerIs, S!Relay, S!Raise
<1>3. RunnerIs'
  BY ZenonT(40) DEF ServerTypeOK, RunnerIs, S!Relay, S!Raise
<1>4. RunnerKnows'
  BY DEF ServerTypeOK, RunnerKnows, S!Relay, S!Raise
<1>5. GroupStopped'
  BY ZenonT(40) DEF ServerTypeOK, GroupStopped, KeeperTells, RunnerIs, S!Relay, S!Raise
<1>6. ResultTold'
  BY DEF ServerTypeOK, ResultTold, RunnerIs, S!Asked, S!Relay, S!Raise
<1> QED
  BY <1>1, <1>2, <1>3, <1>4, <1>5, <1>6 DEF ServerInv

\* A runner that dies files nothing.
LEMMA ServerRunnerDies == ASSUME ServerInv, S!RunnerDies PROVE ServerInv'
<1> USE DEF ServerInv, S!At, S!Go, S!Process, S!Kept, S!Unidentified, NobodyUp, Unstarted,
   Serving, Stopping, Closing
<1>1. ServerTypeOK'
  BY DEF ServerTypeOK, S!RunnerDies
<1>2. KeeperTells'
  BY DEF ServerTypeOK, KeeperTells, RunnerIs, S!RunnerDies
<1>3. RunnerIs'
  BY DEF ServerTypeOK, RunnerIs, S!RunnerDies
<1>4. RunnerKnows'
  BY DEF ServerTypeOK, RunnerKnows, S!RunnerDies
<1>5. GroupStopped'
  BY DEF ServerTypeOK, GroupStopped, KeeperTells, RunnerIs, S!RunnerDies
<1>6. ResultTold'
  BY DEF ServerTypeOK, ResultTold, RunnerIs, S!Asked, S!RunnerDies
<1> QED
  BY <1>1, <1>2, <1>3, <1>4, <1>5, <1>6 DEF ServerInv

\* A process ends by itself.
LEMMA ServerDies == ASSUME ServerInv, NEW p \in S!Process, S!Dies(p) PROVE ServerInv'
<1> USE DEF ServerInv, S!At, S!Go, S!Process, S!Kept, S!Unidentified, NobodyUp, Unstarted,
   Serving, Stopping, Closing
<1>1. ServerTypeOK'
  BY DEF ServerTypeOK, S!Dies, S!Orphan, S!Started
<1>2. KeeperTells'
  BY DEF ServerTypeOK, KeeperTells, RunnerIs, S!Dies, S!Orphan, S!Started
<1>3. RunnerIs'
  BY DEF ServerTypeOK, RunnerIs, S!Dies, S!Orphan, S!Started
<1>4. RunnerKnows'
  BY DEF ServerTypeOK, RunnerKnows, S!Dies, S!Orphan, S!Started
<1>5. GroupStopped'
  BY DEF ServerTypeOK, GroupStopped, KeeperTells, RunnerIs, S!Dies, S!Orphan, S!Started
<1>6. ResultTold'
  BY DEF ServerTypeOK, ResultTold, RunnerIs, S!Asked, S!Dies, S!Orphan, S!Started
<1> QED
  BY <1>1, <1>2, <1>3, <1>4, <1>5, <1>6 DEF ServerInv

\* A server reaps its child, init an orphan.
LEMMA ServerReaped == ASSUME ServerInv, NEW p \in S!Process, S!Reaped(p) PROVE ServerInv'
<1> USE DEF ServerInv, S!At, S!Go, S!Process, S!Kept, S!Unidentified, NobodyUp, Unstarted,
   Serving, Stopping, Closing
<1>1. ServerTypeOK'
  BY DEF ServerTypeOK, S!Reaped, S!Orphan, S!Started
<1>2. KeeperTells'
  BY DEF ServerTypeOK, KeeperTells, RunnerIs, S!Reaped, S!Orphan, S!Started
<1>3. RunnerIs'
  BY DEF ServerTypeOK, RunnerIs, S!Reaped, S!Orphan, S!Started
<1>4. RunnerKnows'
  BY DEF ServerTypeOK, RunnerKnows, S!Reaped, S!Orphan, S!Started
<1>5. GroupStopped'
  BY DEF ServerTypeOK, GroupStopped, KeeperTells, RunnerIs, S!Reaped, S!Orphan, S!Started
<1>6. ResultTold'
  BY DEF ServerTypeOK, ResultTold, RunnerIs, S!Asked, S!Reaped, S!Orphan, S!Started
<1> QED
  BY <1>1, <1>2, <1>3, <1>4, <1>5, <1>6 DEF ServerInv

\* Every step of a server's run.
LEMMA ServerNext == ASSUME ServerInv, S!ServerNext PROVE ServerInv'
BY ServerCheckSpec, ServerPrepareCache, ServerLaunch, ServerIdentify, ServerRecordStart,
   ServerWaitReady, ServerAttest, ServerGenerate, ServerRunRequest, ServerStillAlive,
   ServerSorry, ServerStopGroup, ServerTerminate, ServerGrace, ServerKill, ServerLastWait,
   ServerFinish, ServerDropCache, ServerReport, ServerReportAcquisition, ServerKeeper,
   ServerForks, ServerSignal, ServerRelay, ServerRunnerDies, ServerDies, ServerReaped
DEF S!ServerNext, S!RunnerStep

\* Another part moves.
LEMMA ServerStays == ASSUME ServerInv, UNCHANGED onlyS PROVE ServerInv'
BY DEF onlyS, ServerInv, ServerTypeOK, KeeperTells, RunnerIs, RunnerKnows, GroupStopped,
   ResultTold, NobodyUp,
       S!Kept, S!Unidentified, S!Asked

\* What the invariant says of a run that is over.
LEMMA ServerMeans == ASSUME ServerInv PROVE S!GroupAccounted /\ S!SuccessIsComplete
<1> USE DEF ServerInv, S!At, S!Kept, S!Unidentified, NobodyUp, Unstarted, Serving, Stopping,
   Closing
<1>1. S!GroupAccounted
  BY DEF ServerTypeOK, GroupStopped, ResultTold, S!GroupAccounted
<1>2. S!SuccessIsComplete
  BY DEF ServerTypeOK, KeeperTells, RunnerKnows, GroupStopped, ResultTold, S!SuccessIsComplete
<1> QED
  BY <1>1, <1>2

-----------------------------------------------------------------------------
(* The measurement job on nmz36.                                           *)

DockerMeasures == {"open", "starting", "kill", "unopened", "ask", "answer", "asked", "close",
                   "last", "next"}

DockerTypeOK ==
  /\ job \in {"stage0", "m1"}
  /\ DOMAIN cont = D!Session /\ DOMAIN proc = D!Session /\ DOMAIN owed = D!Session
  /\ \A s \in D!Session :
       /\ cont[s] \in {"none", "asked", "up", "gone"}
       /\ DOMAIN proc[s] = {"ready", "closed", "reaped"}
       /\ owed[s] \in Int
  /\ DOMAIN hand = {"at", "s", "then"} /\ hand.s \in D!Session
  /\ hand.at \in DockerMeasures \cup {"measured", "fence", "health", "timer", "settle", "over"}
  /\ hand.at = "kill" => hand.then \in {"unopened", "next"}
  /\ DOMAIN run = {"err", "asks", "round", "stale", "fenced", "file", "report"}

\* The processes are measured in order, and those to come have not been touched.
\* One that has reported ready has a container, or had one.
DockerReaped == \A s \in D!Session \ {0} : proc[s].reaped
InTurn ==
  hand.at \in DockerMeasures =>
    /\ \A s \in D!Session : s > hand.s => ~proc[s].ready /\ owed[s] = 0
    /\ \A s \in D!Session \ {0} : s < hand.s => proc[s].reaped
    /\ hand.at \in {"open", "starting"} => ~proc[hand.s].ready
ReadyRan == \A s \in D!Session : proc[s].ready => cont[s] \in {"up", "gone"}

\* Nothing is owed when a request is made, and one answer when it is read.
OwnAnswers ==
  /\ hand.at \in {"open", "starting", "ask"} => owed[hand.s] = 0
  /\ hand.at = "answer" => owed[hand.s] = 1
  /\ ~run.stale

\* What went wrong is not forgotten.
Remembered ==
  /\ hand.at \in {"unopened", "asked"} => run.err
  /\ hand.at = "kill" /\ hand.then = "unopened" => run.err
  /\ run.round = 2 => run.err

\* Only a run without an error is through with all processes.
DockerReapedInTurn ==
  /\ hand.at \notin DockerMeasures /\ ~run.err => DockerReaped
  /\ run.file = "evidence" => hand.at \notin DockerMeasures /\ DockerReaped

NoneReadyUp == \A s \in D!Session : proc[s].ready => cont[s] # "up"

DockerClean ==
  /\ hand.at \in {"timer", "settle"} /\ ~run.err => NoneReadyUp
  /\ run.report # "none" => hand.at = "over"
  /\ run.report = "clean" => NoneReadyUp

DockerInv ==
  /\ DockerTypeOK /\ InTurn /\ ReadyRan /\ OwnAnswers
  /\ Remembered /\ DockerReapedInTurn /\ DockerClean

\* Nothing has been started.
LEMMA DockerInit == ASSUME D!DockerInit PROVE DockerInv
<1> USE MeasurementAssumption DEF D!DockerInit, D!Session, D!Timer, DockerReaped, NoneReadyUp,
   DockerMeasures
<1>1. DockerTypeOK
  BY DEF DockerTypeOK
<1>2. InTurn
  BY DEF InTurn
<1>3. ReadyRan
  BY DEF ReadyRan
<1>4. OwnAnswers
  BY DEF OwnAnswers
<1>5. Remembered
  BY DEF Remembered
<1>6. DockerReapedInTurn
  BY DEF DockerReapedInTurn
<1>7. DockerClean
  BY DEF DockerClean
<1> QED
  BY <1>1, <1>2, <1>3, <1>4, <1>5, <1>6, <1>7 DEF DockerInv

\* A process is opened when those before it were reaped.
LEMMA DockerOpen == ASSUME DockerInv, D!Open PROVE DockerInv'
<1> USE MeasurementAssumption DEF DockerInv, D!At, D!Go, D!Session, D!Timer, DockerReaped,
   NoneReadyUp, DockerMeasures
<1>1. DockerTypeOK'
  BY ZenonT(40) DEF DockerTypeOK, D!Open, D!Raise
<1>2. InTurn'
  <2>1. /\ hand.at = "open" /\ UNCHANGED <<proc, owed>>
        /\ hand'.s = hand.s /\ hand'.at \in {"starting", "kill"}
    BY ZenonT(40) DEF DockerTypeOK, D!Open
  <2> QED
    BY <2>1 DEF InTurn
<1>3. ReadyRan'
  BY DEF DockerTypeOK, ReadyRan, InTurn, D!Open, D!Raise
<1>4. OwnAnswers'
  BY ZenonT(40) DEF DockerTypeOK, OwnAnswers, InTurn, Remembered, D!Open, D!Raise
<1>5. Remembered'
  BY DEF DockerTypeOK, Remembered, D!Open, D!Raise
<1>6. DockerReapedInTurn'
  BY DEF DockerTypeOK, DockerReapedInTurn, InTurn, Remembered, D!Open, D!Raise
<1>7. DockerClean'
  BY DEF DockerTypeOK, DockerClean, ReadyRan, Remembered, D!Open, D!Raise
<1> QED
  BY <1>1, <1>2, <1>3, <1>4, <1>5, <1>6, <1>7 DEF DockerInv

\* Ready means that the container was up.
LEMMA DockerStarted == ASSUME DockerInv, D!Started PROVE DockerInv'
<1> USE MeasurementAssumption DEF DockerInv, D!At, D!Go, D!Session, D!Timer, DockerReaped,
   NoneReadyUp, DockerMeasures
<1>1. DockerTypeOK'
  BY ZenonT(40) DEF DockerTypeOK, D!Started, D!Raise
<1>2. InTurn'
  <2>1. /\ hand.at = "starting" /\ UNCHANGED owed
        /\ hand'.s = hand.s /\ hand'.at \in {"ask", "kill"}
    BY ZenonT(40) DEF DockerTypeOK, D!Started
  <2>6. proc' = proc \/ proc' = [proc EXCEPT ![hand.s].ready = TRUE]
    BY DEF D!Started
  <2>2. \A s \in D!Session : proc'[s].reaped = proc[s].reaped
    BY <2>6 DEF DockerTypeOK
  <2>3. \A s \in D!Session : s # hand.s => proc'[s] = proc[s]
    BY <2>6 DEF DockerTypeOK
  <2>4. \A s \in D!Session : s > hand'.s => ~proc'[s].ready /\ owed'[s] = 0
    BY <2>1, <2>3 DEF DockerTypeOK, InTurn
  <2>5. \A s \in D!Session \ {0} : s < hand'.s => proc'[s].reaped
    BY <2>1, <2>2 DEF InTurn
  <2> QED
    BY <2>1, <2>4, <2>5 DEF InTurn
<1>3. ReadyRan'
  BY ZenonT(40) DEF DockerTypeOK, ReadyRan, InTurn, D!Started, D!Raise
<1>4. OwnAnswers'
  BY ZenonT(40) DEF DockerTypeOK, OwnAnswers, InTurn, Remembered, D!Started, D!Raise
<1>5. Remembered'
  BY DEF DockerTypeOK, Remembered, D!Started, D!Raise
<1>6. DockerReapedInTurn'
  BY DEF DockerTypeOK, DockerReapedInTurn, InTurn, Remembered, D!Started, D!Raise
<1>7. DockerClean'
  BY DEF DockerTypeOK, DockerClean, ReadyRan, Remembered, D!Started, D!Raise
<1> QED
  BY <1>1, <1>2, <1>3, <1>4, <1>5, <1>6, <1>7 DEF DockerInv

\* A container that is removed by force is gone, or still up.
LEMMA DockerKill == ASSUME DockerInv, D!Kill PROVE DockerInv'
<1> USE MeasurementAssumption DEF DockerInv, D!At, D!Go, D!Session, D!Timer, DockerReaped,
   NoneReadyUp, DockerMeasures
<1>1. DockerTypeOK'
  BY DEF DockerTypeOK, D!Kill, D!Raise
<1>2. InTurn'
  BY DEF DockerTypeOK, InTurn, DockerReapedInTurn, D!Kill, D!Raise
<1>3. ReadyRan'
  BY DEF DockerTypeOK, ReadyRan, InTurn, D!Kill, D!Raise
<1>4. OwnAnswers'
  BY DEF DockerTypeOK, OwnAnswers, InTurn, Remembered, D!Kill, D!Raise
<1>5. Remembered'
  BY DEF DockerTypeOK, Remembered, D!Kill, D!Raise
<1>6. DockerReapedInTurn'
  BY DEF DockerTypeOK, DockerReapedInTurn, InTurn, Remembered, D!Kill, D!Raise
<1>7. DockerClean'
  BY DEF DockerTypeOK, DockerClean, ReadyRan, Remembered, D!Kill, D!Raise
<1> QED
  BY <1>1, <1>2, <1>3, <1>4, <1>5, <1>6, <1>7 DEF DockerInv

\* The exception leaves the loop.
LEMMA DockerUnopened == ASSUME DockerInv, D!Unopened PROVE DockerInv'
<1> USE MeasurementAssumption DEF DockerInv, D!At, D!Go, D!Session, D!Timer, DockerReaped,
   NoneReadyUp, DockerMeasures
<1>1. DockerTypeOK'
  BY DEF DockerTypeOK, D!Unopened
<1>2. InTurn'
  BY DEF DockerTypeOK, InTurn, DockerReapedInTurn, D!Unopened
<1>3. ReadyRan'
  BY DEF DockerTypeOK, ReadyRan, InTurn, D!Unopened
<1>4. OwnAnswers'
  BY DEF DockerTypeOK, OwnAnswers, InTurn, Remembered, D!Unopened
<1>5. Remembered'
  BY DEF DockerTypeOK, Remembered, D!Unopened
<1>6. DockerReapedInTurn'
  BY DEF DockerTypeOK, DockerReapedInTurn, InTurn, Remembered, D!Unopened
<1>7. DockerClean'
  BY DEF DockerTypeOK, DockerClean, ReadyRan, Remembered, D!Unopened
<1> QED
  BY <1>1, <1>2, <1>3, <1>4, <1>5, <1>6, <1>7 DEF DockerInv

\* One answer is owed from now on.
LEMMA DockerAsk == ASSUME DockerInv, D!Ask PROVE DockerInv'
<1> USE MeasurementAssumption DEF DockerInv, D!At, D!Go, D!Session, D!Timer, DockerReaped,
   NoneReadyUp, DockerMeasures
<1>1. DockerTypeOK'
  BY DEF DockerTypeOK, D!Ask, D!Raise
<1>2. InTurn'
  BY DEF DockerTypeOK, InTurn, DockerReapedInTurn, D!Ask, D!Raise
<1>3. ReadyRan'
  BY DEF DockerTypeOK, ReadyRan, InTurn, D!Ask, D!Raise
<1>4. OwnAnswers'
  BY DEF DockerTypeOK, OwnAnswers, InTurn, Remembered, D!Ask, D!Raise
<1>5. Remembered'
  BY DEF DockerTypeOK, Remembered, D!Ask, D!Raise
<1>6. DockerReapedInTurn'
  BY DEF DockerTypeOK, DockerReapedInTurn, InTurn, Remembered, D!Ask, D!Raise
<1>7. DockerClean'
  BY DEF DockerTypeOK, DockerClean, ReadyRan, Remembered, D!Ask, D!Raise
<1> QED
  BY <1>1, <1>2, <1>3, <1>4, <1>5, <1>6, <1>7 DEF DockerInv

\* What is read is the only answer owed.
LEMMA DockerAnswer == ASSUME DockerInv, D!Answer PROVE DockerInv'
<1> USE MeasurementAssumption DEF DockerInv, D!At, D!Go, D!Session, D!Timer, DockerReaped,
   NoneReadyUp, DockerMeasures
<1>a. /\ hand.at = "answer" /\ UNCHANGED <<job, cont, proc, beat, lost>>
      /\ \/ /\ hand' = [hand EXCEPT !.at = "ask"]
            /\ owed' = [owed EXCEPT ![hand.s] = @ - 1]
            /\ run' = [run EXCEPT !.stale = @ \/ owed[hand.s] > 1, !.asks = @ + 1]
         \/ /\ hand' = [hand EXCEPT !.at = "asked"]
            /\ run' = [run EXCEPT !.err = TRUE] /\ UNCHANGED owed
  BY DEF D!Answer, D!Read, D!Raise
<1>f. /\ hand'.s = hand.s /\ hand'.then = hand.then /\ hand'.at \in {"ask", "asked"}
      /\ DOMAIN hand' = DOMAIN hand /\ DOMAIN run' = DOMAIN run
  <2>1. \/ hand' = [hand EXCEPT !.at = "ask"]
        \/ hand' = [hand EXCEPT !.at = "asked"]
    BY <1>a
  <2>2. /\ hand'.s = hand.s /\ hand'.then = hand.then /\ hand'.at \in {"ask", "asked"}
        /\ DOMAIN hand' = DOMAIN hand
    BY <2>1 DEF DockerTypeOK
  <2>3. DOMAIN run' = DOMAIN run
    BY <1>a
  <2> QED
    BY <2>2, <2>3
<1>b. /\ DOMAIN owed' = DOMAIN owed
      /\ \A s \in D!Session \ {hand.s} : owed'[s] = owed[s]
      /\ owed'[hand.s] \in {owed[hand.s], owed[hand.s] - 1}
      /\ hand'.at = "ask" => owed'[hand.s] = owed[hand.s] - 1
  BY <1>a DEF DockerTypeOK
<1>c. owed[hand.s] = 1
  BY <1>a DEF OwnAnswers
<1>d. run'.file = run.file /\ run'.round = run.round /\ (hand'.at = "asked" => run'.err)
  BY ZenonT(40), <1>a DEF DockerTypeOK
<1>e. ~run'.stale
  <2>1. CASE run' = [run EXCEPT !.err = TRUE]
    BY <2>1 DEF DockerTypeOK, OwnAnswers
  <2>2. CASE run' = [run EXCEPT !.stale = @ \/ owed[hand.s] > 1, !.asks = @ + 1]
    <3>1. run'.stale = (run.stale \/ owed[hand.s] > 1)
      BY <2>2 DEF DockerTypeOK
    <3>2. ~(owed[hand.s] > 1)
      BY <1>c
    <3> QED
      BY <3>1, <3>2 DEF OwnAnswers
  <2> QED
    BY <1>a, <2>1, <2>2
<1>1. DockerTypeOK'
  BY <1>f, <1>a, <1>b DEF DockerTypeOK
<1>2. InTurn'
  BY DEF DockerTypeOK, InTurn, DockerReapedInTurn, D!Answer, D!Raise, D!Read
<1>3. ReadyRan'
  BY DEF DockerTypeOK, ReadyRan, InTurn, D!Answer, D!Raise, D!Read
<1>4. OwnAnswers'
  BY <1>f, <1>b, <1>c, <1>e DEF DockerTypeOK, OwnAnswers
<1>5. Remembered'
  BY ZenonT(40) DEF DockerTypeOK, Remembered, D!Answer, D!Raise, D!Read
<1>6. DockerReapedInTurn'
  BY <1>f, <1>a, <1>b, <1>d DEF DockerReapedInTurn
<1>7. DockerClean'
  BY ZenonT(40) DEF DockerTypeOK, DockerClean, ReadyRan, Remembered, D!Answer, D!Raise, D!Read
<1> QED
  BY <1>1, <1>2, <1>3, <1>4, <1>5, <1>6, <1>7 DEF DockerInv

\* Main is through with a process; the timer's successor is untouched.
LEMMA DockerEnough == ASSUME DockerInv, D!Enough PROVE DockerInv'
<1> USE MeasurementAssumption DEF DockerInv, D!At, D!Go, D!Session, D!Timer, DockerReaped,
   NoneReadyUp, DockerMeasures
<1>a. /\ hand.at \in {"ask", "asked"} /\ UNCHANGED <<job, cont, owed, beat, lost, run>>
      /\ hand.at = "asked" => run.err
  BY DEF D!Enough, Remembered
<1>d. \/ /\ hand.s = 0
         /\ hand' = [hand EXCEPT !.at = IF run.err THEN "measured" ELSE "open", !.s = 1]
      \/ hand' = [hand EXCEPT !.at = "kill", !.then = "next"]
      \/ hand' = [hand EXCEPT !.at = "close"]
  BY DEF D!Enough
<1>b. /\ DOMAIN hand' = DOMAIN hand /\ hand'.s \in D!Session
      /\ \/ hand.s = 0 /\ hand'.s = 1 /\ hand'.at = IF run.err THEN "measured" ELSE "open"
         \/ hand'.s = hand.s /\ hand'.at = "kill" /\ hand'.then = "next"
         \/ hand'.s = hand.s /\ hand'.at = "close"
  <2>0. 1 \in D!Session
    OBVIOUS
  <2>1. CASE hand.s = 0 /\ hand' = [hand EXCEPT !.at = IF run.err THEN "measured" ELSE "open", !.s = 1]
    <3>1. hand'.at = (IF run.err THEN "measured" ELSE "open") /\ hand'.s = 1 /\ DOMAIN hand' = DOMAIN hand
      BY <2>1 DEF DockerTypeOK
    <3> QED
      BY <2>0, <2>1, <3>1
  <2>2. CASE hand' = [hand EXCEPT !.at = "kill", !.then = "next"]
    <3>1. /\ hand'.at = "kill" /\ hand'.then = "next" /\ hand'.s = hand.s
          /\ DOMAIN hand' = DOMAIN hand
      BY <2>2 DEF DockerTypeOK
    <3> QED
      BY <3>1 DEF DockerTypeOK
  <2>3. CASE hand' = [hand EXCEPT !.at = "close"]
    <3>1. hand'.at = "close" /\ hand'.s = hand.s /\ DOMAIN hand' = DOMAIN hand
      BY <2>3 DEF DockerTypeOK
    <3> QED
      BY <3>1 DEF DockerTypeOK
  <2> QED
    BY <1>d, <2>1, <2>2, <2>3
<1>c. /\ DOMAIN proc' = D!Session
      /\ \A s \in D!Session : /\ DOMAIN proc'[s] = DOMAIN proc[s]
                              /\ proc'[s].ready = proc[s].ready
                              /\ proc'[s].reaped = proc[s].reaped
  BY DEF DockerTypeOK, D!Enough
<1>1. DockerTypeOK'
  BY <1>a, <1>b, <1>c DEF DockerTypeOK
<1>2. InTurn'
  BY <1>a, <1>b, <1>c DEF DockerTypeOK, InTurn
<1>3. ReadyRan'
  BY DEF DockerTypeOK, ReadyRan, InTurn, D!Enough
<1>4. OwnAnswers'
  BY <1>a, <1>b DEF DockerTypeOK, InTurn, OwnAnswers
<1>5. Remembered'
  BY ZenonT(40) DEF DockerTypeOK, Remembered, D!Enough
<1>6. DockerReapedInTurn'
  BY DEF DockerTypeOK, DockerReapedInTurn, InTurn, Remembered, D!Enough
<1>7. DockerClean'
  BY ZenonT(40) DEF DockerTypeOK, DockerClean, ReadyRan, Remembered, D!Enough
<1> QED
  BY <1>1, <1>2, <1>3, <1>4, <1>5, <1>6, <1>7 DEF DockerInv

\* An exception before the requests.
LEMMA DockerAbandon == ASSUME DockerInv, D!Abandon PROVE DockerInv'
<1> USE MeasurementAssumption DEF DockerInv, D!At, D!Go, D!Session, D!Timer, DockerReaped,
   NoneReadyUp, DockerMeasures
<1>1. DockerTypeOK'
  BY DEF DockerTypeOK, D!Abandon, D!Raise
<1>2. InTurn'
  BY DEF DockerTypeOK, InTurn, DockerReapedInTurn, D!Abandon, D!Raise
<1>3. ReadyRan'
  BY DEF DockerTypeOK, ReadyRan, InTurn, D!Abandon, D!Raise
<1>4. OwnAnswers'
  BY DEF DockerTypeOK, OwnAnswers, InTurn, Remembered, D!Abandon, D!Raise
<1>5. Remembered'
  BY DEF DockerTypeOK, Remembered, D!Abandon, D!Raise
<1>6. DockerReapedInTurn'
  BY DEF DockerTypeOK, DockerReapedInTurn, InTurn, Remembered, D!Abandon, D!Raise
<1>7. DockerClean'
  BY DEF DockerTypeOK, DockerClean, ReadyRan, Remembered, D!Abandon, D!Raise
<1> QED
  BY <1>1, <1>2, <1>3, <1>4, <1>5, <1>6, <1>7 DEF DockerInv

\* The closing request, or a container removed by force.
LEMMA DockerClose == ASSUME DockerInv, D!Close PROVE DockerInv'
<1> USE MeasurementAssumption DEF DockerInv, D!At, D!Go, D!Session, D!Timer, DockerReaped,
   NoneReadyUp, DockerMeasures
<1>a. /\ hand.at = "close" /\ UNCHANGED <<job, cont, beat, lost>>
      /\ \/ run' = run \/ run' = [run EXCEPT !.err = TRUE]
      /\ DOMAIN hand' = DOMAIN hand /\ hand'.s = hand.s
      /\ \/ hand'.at = "kill" /\ hand'.then = "next"
         \/ hand'.at = "last"
  BY ZenonT(40) DEF DockerTypeOK, D!Close, D!Raise
<1>b. /\ DOMAIN proc' = D!Session
      /\ \A s \in D!Session : /\ DOMAIN proc'[s] = DOMAIN proc[s]
                              /\ proc'[s].ready = proc[s].ready
                              /\ proc'[s].reaped = proc[s].reaped
  BY DEF DockerTypeOK, D!Close
<1>c. /\ DOMAIN owed' = D!Session
      /\ \A s \in D!Session : owed'[s] \in Int /\ (s # hand.s => owed'[s] = owed[s])
  BY DEF DockerTypeOK, D!Close
<1>1. DockerTypeOK'
  BY <1>a, <1>b, <1>c DEF DockerTypeOK
<1>2. InTurn'
  BY <1>a, <1>b, <1>c DEF DockerTypeOK, InTurn
<1>3. ReadyRan'
  BY DEF DockerTypeOK, ReadyRan, InTurn, D!Close, D!Raise
<1>4. OwnAnswers'
  BY <1>a DEF DockerTypeOK, OwnAnswers
<1>5. Remembered'
  BY DEF DockerTypeOK, Remembered, D!Close, D!Raise
<1>6. DockerReapedInTurn'
  BY DEF DockerTypeOK, DockerReapedInTurn, InTurn, Remembered, D!Close, D!Raise
<1>7. DockerClean'
  BY DEF DockerTypeOK, DockerClean, ReadyRan, Remembered, D!Close, D!Raise
<1> QED
  BY <1>1, <1>2, <1>3, <1>4, <1>5, <1>6, <1>7 DEF DockerInv

\* Reaped by its own closing answer, or not at all.
LEMMA DockerReap == ASSUME DockerInv, D!Reap PROVE DockerInv'
<1> USE MeasurementAssumption DEF DockerInv, D!At, D!Go, D!Session, D!Timer, DockerReaped,
   NoneReadyUp, DockerMeasures
<1>a. /\ hand.at = "last" /\ UNCHANGED <<job, owed, beat, lost>>
      /\ \/ run' = run \/ run' = [run EXCEPT !.err = TRUE]
      /\ DOMAIN hand' = DOMAIN hand /\ hand'.s = hand.s
      /\ \/ hand'.at = "kill" /\ hand'.then = "next"
         \/ hand'.at = "next"
  BY ZenonT(40) DEF DockerTypeOK, D!Reap, D!Raise
<1>b. /\ DOMAIN proc' = D!Session
      /\ \A s \in D!Session : /\ DOMAIN proc'[s] = DOMAIN proc[s]
                              /\ proc'[s].ready = proc[s].ready
                              /\ s # hand.s => proc'[s].reaped = proc[s].reaped
  BY DEF DockerTypeOK, D!Reap
<1>c. /\ DOMAIN cont' = D!Session
      /\ \A s \in D!Session : cont'[s] = cont[s] \/ cont'[s] = "gone"
  BY DEF DockerTypeOK, D!Reap
<1>1. DockerTypeOK'
  BY <1>a, <1>b, <1>c DEF DockerTypeOK
<1>2. InTurn'
  BY <1>a, <1>b DEF DockerTypeOK, InTurn
<1>3. ReadyRan'
  BY ZenonT(40) DEF DockerTypeOK, ReadyRan, InTurn, D!Reap, D!Raise
<1>4. OwnAnswers'
  BY <1>a DEF DockerTypeOK, OwnAnswers
<1>5. Remembered'
  BY DEF DockerTypeOK, Remembered, D!Reap, D!Raise
<1>6. DockerReapedInTurn'
  BY DEF DockerTypeOK, DockerReapedInTurn, InTurn, Remembered, D!Reap, D!Raise
<1>7. DockerClean'
  BY DEF DockerTypeOK, DockerClean, ReadyRan, Remembered, D!Reap, D!Raise
<1> QED
  BY <1>1, <1>2, <1>3, <1>4, <1>5, <1>6, <1>7 DEF DockerInv

\* Only a process that was reaped has a successor.
LEMMA DockerNextProcess == ASSUME DockerInv, D!NextProcess PROVE DockerInv'
<1> USE MeasurementAssumption DEF DockerInv, D!At, D!Go, D!Session, D!Timer, DockerReaped,
   NoneReadyUp, DockerMeasures
<1>1. DockerTypeOK'
  BY DEF DockerTypeOK, D!NextProcess
<1>2. InTurn'
  BY DEF DockerTypeOK, InTurn, DockerReapedInTurn, D!NextProcess
<1>3. ReadyRan'
  BY DEF DockerTypeOK, ReadyRan, InTurn, D!NextProcess
<1>4. OwnAnswers'
  BY DEF DockerTypeOK, OwnAnswers, InTurn, Remembered, D!NextProcess
<1>5. Remembered'
  BY DEF DockerTypeOK, Remembered, D!NextProcess
<1>6. DockerReapedInTurn'
  <2>1. /\ UNCHANGED proc /\ hand.at = "next" /\ run'.file = run.file
        /\ hand'.at \in {"open", "measured"}
    BY DEF DockerTypeOK, D!NextProcess
  <2>2. run.file # "evidence"
    BY <2>1 DEF DockerReapedInTurn
  <2>3. hand'.at = "measured" /\ ~run'.err =>
          ~(hand.s < Workloads) /\ (hand.s = 0 \/ proc[hand.s].reaped)
    BY DEF DockerTypeOK, D!NextProcess
  <2>4. hand'.at = "measured" /\ ~run'.err => DockerReaped
    BY <2>1, <2>3 DEF DockerTypeOK, InTurn
  <2> QED
    BY <2>1, <2>2, <2>4 DEF DockerReapedInTurn
<1>7. DockerClean'
  BY DEF DockerTypeOK, DockerClean, ReadyRan, Remembered, D!NextProcess
<1> QED
  BY <1>1, <1>2, <1>3, <1>4, <1>5, <1>6, <1>7 DEF DockerInv

\* Main leaves the processes: all reaped, or an error.
LEMMA DockerMeasured == ASSUME DockerInv, D!Measured PROVE DockerInv'
<1> USE MeasurementAssumption DEF DockerInv, D!At, D!Go, D!Session, D!Timer, DockerReaped,
   NoneReadyUp, DockerMeasures
<1>1. DockerTypeOK'
  BY DEF DockerTypeOK, D!Measured
<1>2. InTurn'
  BY DEF DockerTypeOK, InTurn, DockerReapedInTurn, D!Measured
<1>3. ReadyRan'
  BY DEF DockerTypeOK, ReadyRan, InTurn, D!Measured
<1>4. OwnAnswers'
  BY DEF DockerTypeOK, OwnAnswers, InTurn, Remembered, D!Measured
<1>5. Remembered'
  BY DEF DockerTypeOK, Remembered, D!Measured
<1>6. DockerReapedInTurn'
  BY DEF DockerTypeOK, DockerReapedInTurn, InTurn, Remembered, D!Measured
<1>7. DockerClean'
  BY DEF DockerTypeOK, DockerClean, ReadyRan, Remembered, D!Measured
<1> QED
  BY <1>1, <1>2, <1>3, <1>4, <1>5, <1>6, <1>7 DEF DockerInv

\* Main fences what is listed.
LEMMA DockerMainFence == ASSUME DockerInv, D!MainFence PROVE DockerInv'
<1> USE MeasurementAssumption DEF DockerInv, D!At, D!Go, D!Session, D!Timer, DockerReaped,
   NoneReadyUp, DockerMeasures
<1>1. DockerTypeOK'
  BY DEF DockerTypeOK, D!MainFence, D!Fence, D!Listings
<1>2. InTurn'
  BY DEF DockerTypeOK, InTurn, DockerReapedInTurn, D!MainFence, D!Fence, D!Listings
<1>3. ReadyRan'
  BY DEF DockerTypeOK, ReadyRan, InTurn, D!MainFence, D!Fence, D!Listings
<1>4. OwnAnswers'
  BY DEF DockerTypeOK, OwnAnswers, InTurn, Remembered, D!MainFence, D!Fence, D!Listings
<1>5. Remembered'
  BY DEF DockerTypeOK, Remembered, D!MainFence, D!Fence, D!Listings
<1>6. DockerReapedInTurn'
  BY DEF DockerTypeOK, DockerReapedInTurn, InTurn, Remembered, D!MainFence, D!Fence, D!Listings
<1>7. DockerClean'
  BY DEF DockerTypeOK, DockerClean, ReadyRan, Remembered, D!MainFence, D!Fence, D!Listings
<1> QED
  BY <1>1, <1>2, <1>3, <1>4, <1>5, <1>6, <1>7 DEF DockerInv

\* Healthy only when no container is listed.
LEMMA DockerHealth == ASSUME DockerInv, D!Health PROVE DockerInv'
<1> USE MeasurementAssumption DEF DockerInv, D!At, D!Go, D!Session, D!Timer, DockerReaped,
   NoneReadyUp, DockerMeasures
<1> DEFINE seen == {s \in D!Session : cont[s] = "up"}
<1>a. PICK l \in D!Listings : \E healthy \in {FALSE, l.known /\ l.ids = {}} :
        LET ok == run.fenced /\ healthy
            good == ok /\ ~run.err
        IN IF run.round = 2
           THEN /\ run' = [run EXCEPT !.report = IF ok THEN "clean" ELSE "dirty"]
                /\ hand' = [hand EXCEPT !.at = "over"]
           ELSE /\ run' = [run EXCEPT !.err = ~good,
                                      !.file = IF job = "m1" /\ good THEN "evidence" ELSE @]
                /\ hand' = [hand EXCEPT !.at = IF job = "stage0" THEN "timer" ELSE "settle"]
  BY ZenonT(40) DEF D!Health
<1>b. l.known /\ l.ids = {} => NoneReadyUp
  BY DEF D!Listings
<1>f. hand.at = "health" /\ UNCHANGED <<job, cont, proc, owed, beat, lost>>
  BY DEF D!Health
<1>c. /\ DOMAIN hand' = DOMAIN hand /\ hand'.s = hand.s /\ hand'.then = hand.then
      /\ hand'.at \in {"over", "timer", "settle"}
  BY <1>a DEF DockerTypeOK
<1>g. DOMAIN run' = DOMAIN run /\ run'.round = run.round /\ run'.stale = run.stale
  BY ZenonT(40), <1>a DEF DockerTypeOK
<1>d. CASE run.round = 2
  <2>1. run'.err = run.err /\ run'.file = run.file /\ hand'.at = "over"
    BY <1>a, <1>d DEF DockerTypeOK
  <2>2. run'.report = "clean" => NoneReadyUp
    BY <1>a, <1>b, <1>d DEF DockerTypeOK
  <2> QED
    BY <1>c, <1>f, <1>g, <2>1, <2>2 DEF DockerTypeOK, InTurn, ReadyRan, OwnAnswers, Remembered,
       DockerReapedInTurn, DockerClean
<1>e. CASE run.round # 2
  <2>1. run'.report = run.report /\ hand'.at \in {"timer", "settle"}
    BY ZenonT(40), <1>a, <1>e DEF DockerTypeOK
  <2>5. PICK healthy \in {FALSE, l.known /\ l.ids = {}} :
          run' = [run EXCEPT !.err = ~((run.fenced /\ healthy) /\ ~run.err),
                            !.file = IF job = "m1" /\ ((run.fenced /\ healthy) /\ ~run.err)
                                     THEN "evidence" ELSE @]
    BY <1>a, <1>e
  <2>6. run'.err = ~((run.fenced /\ healthy) /\ ~run.err)
    BY <2>5 DEF DockerTypeOK
  <2>7. healthy => NoneReadyUp
    BY <1>b
  <2>2. ~run'.err => NoneReadyUp /\ ~run.err
    BY <2>6, <2>7
  <2>8. run'.file = IF job = "m1" /\ ((run.fenced /\ healthy) /\ ~run.err) THEN "evidence" ELSE run.file
    BY <2>5 DEF DockerTypeOK
  <2>3. run'.file = "evidence" => run.file = "evidence" \/ ~run.err
    BY <2>8
  <2>4. run.report = "none"
    BY <1>f DEF DockerClean
  <2> QED
    BY <1>c, <1>e, <1>f, <1>g, <2>1, <2>2, <2>3, <2>4 DEF DockerTypeOK, InTurn, ReadyRan,
       OwnAnswers, Remembered, DockerReapedInTurn, DockerClean
<1> QED
  BY <1>d, <1>e

\* The timer's session ends after the health check.
LEMMA DockerCloseTimer == ASSUME DockerInv, D!CloseTimer PROVE DockerInv'
<1> USE MeasurementAssumption DEF DockerInv, D!At, D!Go, D!Session, D!Timer, DockerReaped,
   NoneReadyUp, DockerMeasures
<1>1. DockerTypeOK'
  BY DEF DockerTypeOK, D!CloseTimer, D!Raise
<1>2. InTurn'
  BY DEF DockerTypeOK, InTurn, DockerReapedInTurn, D!CloseTimer, D!Raise
<1>3. ReadyRan'
  BY DEF DockerTypeOK, ReadyRan, InTurn, D!CloseTimer, D!Raise
<1>4. OwnAnswers'
  BY DEF DockerTypeOK, OwnAnswers, InTurn, Remembered, D!CloseTimer, D!Raise
<1>5. Remembered'
  BY DEF DockerTypeOK, Remembered, D!CloseTimer, D!Raise
<1>6. DockerReapedInTurn'
  BY DEF DockerTypeOK, DockerReapedInTurn, InTurn, Remembered, D!CloseTimer, D!Raise
<1>7. DockerClean'
  BY DEF DockerTypeOK, DockerClean, ReadyRan, Remembered, D!CloseTimer, D!Raise
<1> QED
  BY <1>1, <1>2, <1>3, <1>4, <1>5, <1>6, <1>7 DEF DockerInv

\* Reported clean only without an error.
LEMMA DockerSettle == ASSUME DockerInv, D!Settle PROVE DockerInv'
<1> USE MeasurementAssumption DEF DockerInv, D!At, D!Go, D!Session, D!Timer, DockerReaped,
   NoneReadyUp, DockerMeasures
<1>1. DockerTypeOK'
  BY DEF DockerTypeOK, D!Settle
<1>2. InTurn'
  BY DEF DockerTypeOK, InTurn, DockerReapedInTurn, D!Settle
<1>3. ReadyRan'
  BY DEF DockerTypeOK, ReadyRan, InTurn, D!Settle
<1>4. OwnAnswers'
  BY DEF DockerTypeOK, OwnAnswers, InTurn, Remembered, D!Settle
<1>5. Remembered'
  BY DEF DockerTypeOK, Remembered, D!Settle
<1>6. DockerReapedInTurn'
  BY DEF DockerTypeOK, DockerReapedInTurn, InTurn, Remembered, D!Settle
<1>7. DockerClean'
  BY DEF DockerTypeOK, DockerClean, ReadyRan, Remembered, D!Settle
<1> QED
  BY <1>1, <1>2, <1>3, <1>4, <1>5, <1>6, <1>7 DEF DockerInv

\* Losing the lease moves no process.
LEMMA DockerLoseLease == ASSUME DockerInv, D!LoseLease PROVE DockerInv'
<1> USE MeasurementAssumption DEF DockerInv, D!At, D!Go, D!Session, D!Timer, DockerReaped,
   NoneReadyUp, DockerMeasures
<1>1. DockerTypeOK'
  BY DEF DockerTypeOK, D!LoseLease
<1>2. InTurn'
  BY DEF DockerTypeOK, InTurn, DockerReapedInTurn, D!LoseLease
<1>3. ReadyRan'
  BY DEF DockerTypeOK, ReadyRan, InTurn, D!LoseLease
<1>4. OwnAnswers'
  BY DEF DockerTypeOK, OwnAnswers, InTurn, Remembered, D!LoseLease
<1>5. Remembered'
  BY DEF DockerTypeOK, Remembered, D!LoseLease
<1>6. DockerReapedInTurn'
  BY DEF DockerTypeOK, DockerReapedInTurn, InTurn, Remembered, D!LoseLease
<1>7. DockerClean'
  BY DEF DockerTypeOK, DockerClean, ReadyRan, Remembered, D!LoseLease
<1> QED
  BY <1>1, <1>2, <1>3, <1>4, <1>5, <1>6, <1>7 DEF DockerInv

\* The heartbeat's fence stops containers and starts none.
LEMMA DockerBeatFence == ASSUME DockerInv, D!BeatFence PROVE DockerInv'
<1> USE MeasurementAssumption DEF DockerInv, D!At, D!Go, D!Session, D!Timer, DockerReaped,
   NoneReadyUp, DockerMeasures
<1>1. DockerTypeOK'
  BY DEF DockerTypeOK, D!BeatFence, D!Fence, D!Listings
<1>2. InTurn'
  BY DEF DockerTypeOK, InTurn, DockerReapedInTurn, D!BeatFence, D!Fence, D!Listings
<1>3. ReadyRan'
  BY DEF DockerTypeOK, ReadyRan, InTurn, D!BeatFence, D!Fence, D!Listings
<1>4. OwnAnswers'
  BY DEF DockerTypeOK, OwnAnswers, InTurn, Remembered, D!BeatFence, D!Fence, D!Listings
<1>5. Remembered'
  BY DEF DockerTypeOK, Remembered, D!BeatFence, D!Fence, D!Listings
<1>6. DockerReapedInTurn'
  BY DEF DockerTypeOK, DockerReapedInTurn, InTurn, Remembered, D!BeatFence, D!Fence, D!Listings
<1>7. DockerClean'
  BY DEF DockerTypeOK, DockerClean, ReadyRan, Remembered, D!BeatFence, D!Fence, D!Listings
<1> QED
  BY <1>1, <1>2, <1>3, <1>4, <1>5, <1>6, <1>7 DEF DockerInv

\* A container that has taken part only goes down.
LEMMA DockerBoxMoves == ASSUME DockerInv, NEW s \in D!Session, D!BoxMoves(s) PROVE DockerInv'
<1> USE MeasurementAssumption DEF DockerInv, D!At, D!Go, D!Session, D!Timer, DockerReaped,
   NoneReadyUp, DockerMeasures
<1>1. DockerTypeOK'
  BY DEF DockerTypeOK, D!BoxMoves
<1>2. InTurn'
  BY DEF DockerTypeOK, InTurn, DockerReapedInTurn, D!BoxMoves
<1>3. ReadyRan'
  BY DEF DockerTypeOK, ReadyRan, InTurn, D!BoxMoves
<1>4. OwnAnswers'
  BY DEF DockerTypeOK, OwnAnswers, InTurn, Remembered, D!BoxMoves
<1>5. Remembered'
  BY DEF DockerTypeOK, Remembered, D!BoxMoves
<1>6. DockerReapedInTurn'
  BY DEF DockerTypeOK, DockerReapedInTurn, InTurn, Remembered, D!BoxMoves
<1>7. DockerClean'
  BY DEF DockerTypeOK, DockerClean, ReadyRan, Remembered, D!BoxMoves
<1> QED
  BY <1>1, <1>2, <1>3, <1>4, <1>5, <1>6, <1>7 DEF DockerInv

\* Every step of a job on nmz36.
LEMMA DockerNext == ASSUME DockerInv, D!DockerNext PROVE DockerInv'
BY DockerOpen, DockerStarted, DockerKill, DockerUnopened, DockerAsk, DockerAnswer,
   DockerEnough, DockerAbandon, DockerClose, DockerReap, DockerNextProcess, DockerMeasured,
   DockerMainFence, DockerHealth, DockerCloseTimer, DockerSettle, DockerLoseLease,
   DockerBeatFence, DockerBoxMoves DEF D!DockerNext

\* Another part moves.
LEMMA DockerStays == ASSUME DockerInv, UNCHANGED <<common, onlyD>> PROVE DockerInv'
BY DEF common, onlyD, DockerInv, DockerTypeOK, InTurn, ReadyRan, OwnAnswers, Remembered,
   DockerReapedInTurn,
       DockerClean, DockerReaped, NoneReadyUp

\* What the invariant says of reports and of evidence.
LEMMA DockerMeans == ASSUME DockerInv PROVE D!PartakersGone /\ D!OwnAnswersOnly
BY DEF DockerInv, OwnAnswers, DockerReapedInTurn, DockerReaped, DockerClean, NoneReadyUp,
       D!PartakersGone, D!OwnAnswersOnly, D!Timer

-----------------------------------------------------------------------------
(* The measurement job on BW20.                                            *)

Place ==
  {"idle", "build", "building", "open", "attempt", "create", "startup", "ready", "unopened",
   "ask", "answer", "asked", "close", "last", "shut", "sweep", "next", "measured", "judged",
   "over", "adapter", "finish", "pass", "sweeps", "fenced", "health"}
Follows == {"none", "unopened", "asked", "next", "pass", "sweeps"}

BoxTypes ==
  /\ DOMAIN box = T!Session
  /\ \A s \in T!Session : box[s] \in {"none", "asked", "made", "up", "gone"}
SessTypes ==
  /\ DOMAIN sess = T!Session
  /\ \A s \in T!Session :
       DOMAIN sess[s] = {"listed", "closed", "tried", "known", "ready", "reaped", "clean"}
LineTypes ==
  /\ DOMAIN line = T!Session
  /\ \A s \in T!Session :
       /\ DOMAIN line[s] = {"chan", "busy", "owed"}
       /\ line[s].chan \in {"none", "open", "cut"} /\ line[s].owed \in Int
ThreadTypes ==
  /\ DOMAIN th = T!Thread
  /\ \A t \in T!Thread :
       /\ DOMAIN th[t] = {"at", "s", "then", "todo", "ok"}
       /\ th[t].at \in Place /\ th[t].then \in Follows
       /\ th[t].s \in T!Session /\ th[t].todo \subseteq T!Session
OtherTypes ==
  /\ job \in {"stage0", "m1"}
  /\ DOMAIN own = {"lock", "closing", "fenced", "gate", "built", "cache"}
  /\ DOMAIN run = {"err", "asks", "round", "stale", "file", "report"}
TimingTypeOK == BoxTypes /\ SessTypes /\ LineTypes /\ ThreadTypes /\ OtherTypes

Subroutine == {"close", "last", "shut", "sweep"}
Returns == {"unopened", "asked", "next"}

\* Is the thread cleaning up, with every session refused that is not listed yet?
Passing(t) == \/ th[t].at \in {"pass", "sweeps"}
              \/ th[t].at \in Subroutine /\ th[t].then \in {"pass", "sweeps"}

\* Is main still with the process of its own session?
Measures ==
  \/ th["main"].at \in {"open", "attempt", "create", "startup", "ready", "unopened", "ask",
                        "answer", "asked", "next"}
  \/ th["main"].at \in Subroutine /\ th["main"].then \in Returns

Threads ==
  /\ th["main"].at # "idle"
  /\ th["beat"].at \in {"idle", "adapter", "finish", "pass", "sweeps", "fenced", "health",
                        "judged", "over"} \cup Subroutine
  /\ th["beat"].at # "idle" => lost
  /\ th["beat"].at # "last"
  /\ \A t \in T!Thread : th[t].at \in Subroutine => th[t].then # "none"
  /\ th["beat"].at \in Subroutine => th["beat"].then \in {"pass", "sweeps"}
  /\ \A t \in T!Thread : Passing(t) => own.closing
  /\ \A t \in T!Thread : th[t].at = "sweep" => sess[th[t].s].closed

\* Sessions are opened in order; one that has not been tried has no container, and
\* at most once is one made for it.
Opened ==
  /\ Measures \/ th["main"].at \in {"build", "building"} =>
       \A s \in T!Session : s > th["main"].s => ~sess[s].listed
  /\ th["main"].at \in {"build", "building"} => th["main"].s = 0
  /\ th["main"].at \in {"build", "building", "open"} => ~sess[th["main"].s].listed
  /\ th["main"].at \in {"attempt", "create", "startup"} => sess[th["main"].s].listed
  /\ th["main"].at = "attempt" => ~sess[th["main"].s].tried
  /\ th["main"].at \in {"attempt", "create"} => ~sess[th["main"].s].known
  /\ th["main"].at \in {"attempt", "create", "startup"} => line[th["main"].s].chan = "none"
  /\ th["main"].at = "create" => sess[th["main"].s].tried
  /\ th["main"].at \in {"answer", "last"} => line[th["main"].s].chan # "none"
  /\ \A s \in T!Session :
       /\ ~sess[s].listed => ~sess[s].tried /\ line[s].chan = "none"
       /\ ~sess[s].tried => ~sess[s].known /\ box[s] = "none"

\* No container, and never one: the session is closed, and either nothing was
\* asked for or what was made is gone.
Final(s) ==
  /\ sess[s].closed
  /\ ~sess[s].tried \/ (sess[s].known /\ box[s] = "gone")
Quiet(s) == Final(s) \/ (own.closing /\ ~sess[s].listed)
AllQuiet == \A s \in T!Session : Quiet(s)

CleanIsFinal ==
  /\ \A s \in T!Session : sess[s].clean => Final(s)
  /\ \A t \in T!Thread : th[t].at \in {"fenced", "judged"} /\ th[t].ok => AllQuiet
  /\ own.fenced => AllQuiet
  /\ own.cache = "clean" => AllQuiet
  /\ run.report = "clean" => AllQuiet

\* An open channel owes an answer exactly while main waits for one.
Owes(s) == th["main"].at \in {"answer", "last"} /\ th["main"].s = s
LineCounted ==
  /\ \A s \in T!Session : line[s].chan # "cut" => line[s].owed = IF Owes(s) THEN 1 ELSE 0
  /\ ~run.stale

ReapedTo(n) == \A s \in T!Session \ {0} : s < n => sess[s].reaped
TimingReaped == \A s \in T!Session \ {0} : sess[s].reaped

TimingReapedInTurn ==
  /\ Measures => ReapedTo(th["main"].s)
  /\ ~Measures /\ th["main"].at \notin {"build", "building"} /\ ~run.err => TimingReaped
  /\ run.file = "evidence" => TimingReaped
  /\ run.file = "evidence" /\ job = "m1" => run.report = "clean" /\ th["main"].at = "over"

TimingInv ==
  /\ TimingTypeOK /\ Threads /\ Opened
  /\ CleanIsFinal /\ LineCounted /\ TimingReapedInTurn

\* How a thread moves: alone, with its session and its list, on to a place, or
\* into the force_close of its session with an exception.
OnlyMoves(t) ==
  /\ DOMAIN th' = T!Thread /\ DOMAIN th'[t] = DOMAIN th[t]
  /\ \A u \in T!Thread \ {t} : th'[u] = th[u]
Keeps(t) == OnlyMoves(t) /\ th'[t].s = th[t].s /\ th'[t].todo = th[t].todo
Goes(t, at) ==
  /\ Keeps(t) /\ th'[t].at = at
  /\ th'[t].then = th[t].then /\ th'[t].ok = th[t].ok
Fails(t, then) == Keeps(t) /\ th'[t].at = "shut" /\ th'[t].then = then /\ ~th'[t].ok

\* What the threads tell each other, and what main has filed, stays as it is.
OwnStays ==
  /\ DOMAIN own' = DOMAIN own
  /\ own'.closing = own.closing /\ own'.fenced = own.fenced /\ own'.cache = own.cache
RunStays ==
  /\ DOMAIN run' = DOMAIN run
  /\ run'.file = run.file /\ run'.report = run.report /\ (run'.stale => run.stale)

\* Only session s, or its channel, or its container, changes.
SessOnly(s) ==
  /\ DOMAIN sess' = T!Session /\ DOMAIN sess'[s] = DOMAIN sess[s]
  /\ \A r \in T!Session \ {s} : sess'[r] = sess[r]
LineOnly(s) ==
  /\ DOMAIN line' = T!Session /\ DOMAIN line'[s] = DOMAIN line[s]
  /\ \A r \in T!Session \ {s} : line'[r] = line[r]
BoxOnly(s) ==
  /\ DOMAIN box' = T!Session
  /\ \A r \in T!Session \ {s} : box'[r] = box[r]

\* What makes a session final stays.
Kept ==
  /\ own.closing => own'.closing
  /\ \A s \in T!Session :
       /\ sess[s].closed => sess'[s].closed
       /\ sess[s].closed /\ ~sess[s].tried => ~sess'[s].tried
       /\ sess[s].known => sess'[s].known
       /\ sess[s].known /\ box[s] = "gone" => box'[s] = "gone"
       /\ own.closing /\ ~sess[s].listed => ~sess'[s].listed

\* What is called clean in a step was, or rests on what is final.
Founded ==
  /\ \A s \in T!Session : sess'[s].clean => sess[s].clean \/ Final(s)'
  /\ \A t \in T!Thread : th'[t].at \in {"fenced", "judged"} /\ th'[t].ok =>
       AllQuiet \/ (th[t].at \in {"fenced", "judged"} /\ th[t].ok)
  /\ own'.fenced => own.fenced \/ AllQuiet
  /\ own'.cache = "clean" => own.cache = "clean" \/ AllQuiet
  /\ run'.report = "clean" => run.report = "clean" \/ AllQuiet

\* force_close and the cleaner's verdicts are not undone.
LEMMA CleanStays == ASSUME CleanIsFinal, Kept, Founded PROVE CleanIsFinal'
<1>1. \A s \in T!Session : Final(s) => Final(s)'
  BY DEF Kept, Final
<1>2. AllQuiet => AllQuiet'
  BY <1>1 DEF AllQuiet, Quiet, Kept
<1> HIDE DEF Final, AllQuiet
<1> QED
  BY <1>1, <1>2 DEF CleanIsFinal, Founded


\* Types need to be looked at only where something changes.
LEMMA BoxTyped ==
  ASSUME BoxTypes, NEW s \in T!Session, BoxOnly(s),
         box'[s] \in {"none", "asked", "made", "up", "gone"}
  PROVE  BoxTypes'
BY DEF BoxTypes, BoxOnly, T!Session

\* The same, for a session,
LEMMA SessTyped == ASSUME SessTypes, NEW s \in T!Session, SessOnly(s) PROVE SessTypes'
BY DEF SessTypes, SessOnly, T!Session

\* for a channel,
LEMMA LineTyped ==
  ASSUME LineTypes, NEW s \in T!Session, LineOnly(s),
         line'[s].chan \in {"none", "open", "cut"}, line'[s].owed \in Int
  PROVE  LineTypes'
BY DEF LineTypes, LineOnly, T!Session

\* for a thread,
LEMMA ThreadTyped ==
  ASSUME ThreadTypes, NEW t \in T!Thread, OnlyMoves(t), th'[t].at \in Place,
         th'[t].then \in Follows, th'[t].s \in T!Session, th'[t].todo \subseteq T!Session
  PROVE  ThreadTypes'
<1> HIDE DEF Place, Follows
<1> QED
  BY DEF ThreadTypes, OnlyMoves, T!Thread, T!Session

\* and for what is not a function.
LEMMA OtherTyped ==
  ASSUME OtherTypes, UNCHANGED job, OwnStays, RunStays PROVE OtherTypes'
BY DEF OtherTypes, OwnStays, RunStays

\* Go and Fail, field by field.
LEMMA ThreadGoes ==
  ASSUME ThreadTypes, NEW t \in T!Thread, NEW at, T!Go(t, at) PROVE Goes(t, at)
<1> USE DEF ThreadTypes, T!Go
<1>1. OnlyMoves(t)
  BY DEF OnlyMoves
<1>2. /\ th'[t].s = th[t].s /\ th'[t].todo = th[t].todo /\ th'[t].at = at
      /\ th'[t].then = th[t].then /\ th'[t].ok = th[t].ok
  OBVIOUS
<1> QED
  BY <1>1, <1>2 DEF Goes, Keeps

\* The same, for a session that fails.
LEMMA ThreadFails ==
  ASSUME ThreadTypes, NEW t \in T!Thread, NEW then, T!Fail(t, then) PROVE Fails(t, then)
<1> USE DEF ThreadTypes, T!Fail
<1>1. OnlyMoves(t)
  BY DEF OnlyMoves
<1>2. th'[t].s = th[t].s /\ th'[t].todo = th[t].todo /\ th'[t].at = "shut"
  OBVIOUS
<1>3. th'[t].then = then
  OBVIOUS
<1>4. th'[t].ok = FALSE
  OBVIOUS
<1> QED
  BY <1>1, <1>2, <1>3, <1>4 DEF Fails, Keeps

\* A thread that goes on to a place ...
LEMMA GoesTyped ==
  ASSUME ThreadTypes, NEW t \in T!Thread, NEW at \in Place, Goes(t, at) PROVE ThreadTypes'
<1>1. /\ OnlyMoves(t) /\ th'[t].at \in Place /\ th'[t].then \in Follows
      /\ th'[t].s \in T!Session /\ th'[t].todo \subseteq T!Session
  <2> HIDE DEF Place, Follows
  <2> QED
    BY DEF ThreadTypes, Goes, Keeps
<1> QED
  BY <1>1, ThreadTyped

\* ... or fails is where its type says.
LEMMA FailsTyped ==
  ASSUME ThreadTypes, NEW t \in T!Thread, NEW then \in Follows, Fails(t, then)
  PROVE  ThreadTypes'
<1>1. /\ OnlyMoves(t) /\ th'[t].at \in Place /\ th'[t].then \in Follows
      /\ th'[t].s \in T!Session /\ th'[t].todo \subseteq T!Session
  <2>1. "shut" \in Place
    BY DEF Place
  <2> HIDE DEF Place, Follows
  <2> QED
    BY <2>1 DEF ThreadTypes, Fails, Keeps
<1> QED
  BY <1>1, ThreadTyped

\* A job already stopped builds no harness, and has an error.
LEMMA TimingBeginBuild == ASSUME TimingInv, T!BeginBuild PROVE TimingInv'
<1> USE DEF T!Session, T!Thread, T!Timer, T!S, T!At
<1>0. TimingTypeOK /\ Threads /\ Opened /\ CleanIsFinal /\ LineCounted /\ TimingReapedInTurn
  BY DEF TimingInv
<1>a. /\ th["main"].at = "build" /\ th["main"].s \in T!Session
      /\ UNCHANGED <<job, box, sess, line, lost>>
  BY <1>0 DEF T!BeginBuild, TimingTypeOK, ThreadTypes
<1>1. CASE T!Go("main", "adapter") /\ run' = [run EXCEPT !.err = TRUE, !.round = 2] /\ UNCHANGED own
  <2>t. Goes("main", "adapter")
    BY <1>0, <1>1, ThreadGoes DEF TimingTypeOK
  <2>o. OwnStays
    BY <1>0, <1>1 DEF TimingTypeOK, OtherTypes, OwnStays
  <2>r. RunStays /\ run'.err
    BY <1>0, <1>1 DEF TimingTypeOK, OtherTypes, RunStays
  <2>1. TimingTypeOK'
    <3>1. ThreadTypes'
      BY <1>0, <2>t, GoesTyped DEF TimingTypeOK, Place
    <3> QED
      BY <1>0, <3>1, <1>a, <2>o, <2>r, OtherTyped DEF TimingTypeOK, SessTypes, LineTypes,
         BoxTypes
  <2>2. Threads'
    BY <1>0, <1>a, <2>t, <2>o DEF TimingTypeOK, ThreadTypes, SessTypes, Threads, Subroutine,
       Returns, Measures, Passing, TimingReaped, ReapedTo, Owes, Goes, Keeps, OnlyMoves,
       OwnStays
  <2>3. Opened'
    BY <1>0, <1>a, <2>t DEF TimingTypeOK, BoxTypes, SessTypes, LineTypes, ThreadTypes, Opened,
       Threads, Subroutine, Returns, Measures, Passing, TimingReaped, ReapedTo, Owes, Goes,
       Keeps, OnlyMoves
  <2>k. Kept
    BY <1>0, <1>a, <2>o DEF Kept, TimingTypeOK, BoxTypes, SessTypes, ThreadTypes, Opened,
       Threads, OwnStays
  <2>n. Founded
    BY <1>0, <1>a, <2>t, <2>o, <2>r DEF Founded, CleanIsFinal, TimingTypeOK, ThreadTypes,
       SessTypes, Goes, Keeps, OnlyMoves, OwnStays, RunStays
  <2>4. CleanIsFinal'
    BY <1>0, <2>k, <2>n, CleanStays
  <2>5. LineCounted'
    BY <1>0, <1>a, <2>t, <2>r DEF TimingTypeOK, ThreadTypes, LineTypes, LineCounted, Opened,
       Threads, Owes, Goes, Keeps, OnlyMoves, RunStays
  <2>6. TimingReapedInTurn'
    BY <1>0, <1>a, <2>t, <2>r DEF TimingTypeOK, ThreadTypes, SessTypes, TimingReapedInTurn,
       Opened, Threads, Subroutine, Returns, Measures, Passing, TimingReaped, ReapedTo, Owes,
       Goes, Keeps, OnlyMoves, RunStays
  <2> QED
    BY <2>1, <2>2, <2>3, <2>4, <2>5, <2>6 DEF TimingInv
<1>2. CASE T!Go("main", "building") /\ own' = [own EXCEPT !.gate = "main"] /\ UNCHANGED run
  <2>t. Goes("main", "building")
    BY <1>0, <1>2, ThreadGoes DEF TimingTypeOK
  <2>o. OwnStays
    BY <1>0, <1>2 DEF TimingTypeOK, OtherTypes, OwnStays
  <2>r. RunStays /\ run'.err = run.err
    BY <1>2 DEF RunStays
  <2>1. TimingTypeOK'
    <3>1. ThreadTypes'
      BY <1>0, <2>t, GoesTyped DEF TimingTypeOK, Place
    <3> QED
      BY <1>0, <3>1, <1>a, <2>o, <2>r, OtherTyped DEF TimingTypeOK, SessTypes, LineTypes,
         BoxTypes
  <2>2. Threads'
    BY <1>0, <1>a, <2>t, <2>o DEF TimingTypeOK, ThreadTypes, SessTypes, Threads, Subroutine,
       Returns, Measures, Passing, TimingReaped, ReapedTo, Owes, Goes, Keeps, OnlyMoves,
       OwnStays
  <2>3. Opened'
    BY <1>0, <1>a, <2>t DEF TimingTypeOK, BoxTypes, SessTypes, LineTypes, ThreadTypes, Opened,
       Threads, Subroutine, Returns, Measures, Passing, TimingReaped, ReapedTo, Owes, Goes,
       Keeps, OnlyMoves
  <2>k. Kept
    BY <1>0, <1>a, <2>o DEF Kept, TimingTypeOK, BoxTypes, SessTypes, ThreadTypes, Opened,
       Threads, OwnStays
  <2>n. Founded
    BY <1>0, <1>a, <2>t, <2>o, <2>r DEF Founded, CleanIsFinal, TimingTypeOK, ThreadTypes,
       SessTypes, Goes, Keeps, OnlyMoves, OwnStays, RunStays
  <2>4. CleanIsFinal'
    BY <1>0, <2>k, <2>n, CleanStays
  <2>5. LineCounted'
    BY <1>0, <1>a, <2>t, <2>r DEF TimingTypeOK, ThreadTypes, LineTypes, LineCounted, Opened,
       Threads, Owes, Goes, Keeps, OnlyMoves, RunStays
  <2>6. TimingReapedInTurn'
    BY <1>0, <1>a, <2>t, <2>r DEF TimingTypeOK, ThreadTypes, SessTypes, TimingReapedInTurn,
       Opened, Threads, Subroutine, Returns, Measures, Passing, TimingReaped, ReapedTo, Owes,
       Goes, Keeps, OnlyMoves, RunStays
  <2> QED
    BY <2>1, <2>2, <2>3, <2>4, <2>5, <2>6 DEF TimingInv
<1> QED
  BY <1>1, <1>2 DEF T!BeginBuild

\* The first session is the timer's, and nothing is listed yet.
LEMMA TimingEndBuild == ASSUME TimingInv, T!EndBuild PROVE TimingInv'
<1> USE DEF T!Session, T!Thread, T!Timer, T!S, T!At
<1>0. TimingTypeOK /\ Threads /\ Opened /\ CleanIsFinal /\ LineCounted /\ TimingReapedInTurn
  BY DEF TimingInv
<1>a. /\ th["main"].at = "building" /\ th["main"].s \in T!Session
      /\ UNCHANGED <<job, box, sess, line, lost>>
  BY <1>0 DEF T!EndBuild, TimingTypeOK, ThreadTypes
<1>o. OwnStays
  BY <1>0 DEF TimingTypeOK, OtherTypes, OwnStays, T!EndBuild
<1>1. CASE T!Go("main", "adapter") /\ run' = [run EXCEPT !.err = TRUE, !.round = 2]
  <2>t. Goes("main", "adapter")
    BY <1>0, <1>1, ThreadGoes DEF TimingTypeOK
  <2>r. RunStays /\ run'.err
    BY <1>0, <1>1 DEF TimingTypeOK, OtherTypes, RunStays
  <2>1. TimingTypeOK'
    <3>1. ThreadTypes'
      BY <1>0, <2>t, GoesTyped DEF TimingTypeOK, Place
    <3> QED
      BY <1>0, <3>1, <1>a, <1>o, <2>r, OtherTyped DEF TimingTypeOK, SessTypes, LineTypes,
         BoxTypes
  <2>2. Threads'
    BY <1>0, <1>a, <2>t, <1>o DEF TimingTypeOK, ThreadTypes, SessTypes, Threads, Subroutine,
       Returns, Measures, Passing, TimingReaped, ReapedTo, Owes, Goes, Keeps, OnlyMoves,
       OwnStays
  <2>3. Opened'
    BY <1>0, <1>a, <2>t DEF TimingTypeOK, BoxTypes, SessTypes, LineTypes, ThreadTypes, Opened,
       Threads, Subroutine, Returns, Measures, Passing, TimingReaped, ReapedTo, Owes, Goes,
       Keeps, OnlyMoves
  <2>k. Kept
    BY <1>0, <1>a, <1>o DEF Kept, TimingTypeOK, BoxTypes, SessTypes, ThreadTypes, Opened,
       Threads, OwnStays
  <2>n. Founded
    BY <1>0, <1>a, <2>t, <1>o, <2>r DEF Founded, CleanIsFinal, TimingTypeOK, ThreadTypes,
       SessTypes, Goes, Keeps, OnlyMoves, OwnStays, RunStays
  <2>4. CleanIsFinal'
    BY <1>0, <2>k, <2>n, CleanStays
  <2>5. LineCounted'
    BY <1>0, <1>a, <2>t, <2>r DEF TimingTypeOK, ThreadTypes, LineTypes, LineCounted, Opened,
       Threads, Owes, Goes, Keeps, OnlyMoves, RunStays
  <2>6. TimingReapedInTurn'
    BY <1>0, <1>a, <2>t, <2>r DEF TimingTypeOK, ThreadTypes, SessTypes, TimingReapedInTurn,
       Opened, Threads, Subroutine, Returns, Measures, Passing, TimingReaped, ReapedTo, Owes,
       Goes, Keeps, OnlyMoves, RunStays
  <2> QED
    BY <2>1, <2>2, <2>3, <2>4, <2>5, <2>6 DEF TimingInv
<1>2. CASE T!Go("main", "open") /\ UNCHANGED run
  <2>t. Goes("main", "open")
    BY <1>0, <1>2, ThreadGoes DEF TimingTypeOK
  <2>r. RunStays /\ run'.err = run.err
    BY <1>2 DEF RunStays
  <2>1. TimingTypeOK'
    <3>1. ThreadTypes'
      BY <1>0, <2>t, GoesTyped DEF TimingTypeOK, Place
    <3> QED
      BY <1>0, <3>1, <1>a, <1>o, <2>r, OtherTyped DEF TimingTypeOK, SessTypes, LineTypes,
         BoxTypes
  <2>2. Threads'
    BY <1>0, <1>a, <2>t, <1>o DEF TimingTypeOK, ThreadTypes, SessTypes, Threads, Subroutine,
       Returns, Measures, Passing, TimingReaped, ReapedTo, Owes, Goes, Keeps, OnlyMoves,
       OwnStays
  <2>3. Opened'
    BY <1>0, <1>a, <2>t DEF TimingTypeOK, BoxTypes, SessTypes, LineTypes, ThreadTypes, Opened,
       Threads, Subroutine, Returns, Measures, Passing, TimingReaped, ReapedTo, Owes, Goes,
       Keeps, OnlyMoves
  <2>k. Kept
    BY <1>0, <1>a, <1>o DEF Kept, TimingTypeOK, BoxTypes, SessTypes, ThreadTypes, Opened,
       Threads, OwnStays
  <2>n. Founded
    BY <1>0, <1>a, <2>t, <1>o, <2>r DEF Founded, CleanIsFinal, TimingTypeOK, ThreadTypes,
       SessTypes, Goes, Keeps, OnlyMoves, OwnStays, RunStays
  <2>4. CleanIsFinal'
    BY <1>0, <2>k, <2>n, CleanStays
  <2>5. LineCounted'
    BY <1>0, <1>a, <2>t, <2>r DEF TimingTypeOK, ThreadTypes, LineTypes, LineCounted, Opened,
       Threads, Owes, Goes, Keeps, OnlyMoves, RunStays
  <2>6. TimingReapedInTurn'
    BY <1>0, <1>a, <2>t, <2>r DEF TimingTypeOK, ThreadTypes, SessTypes, TimingReapedInTurn,
       Opened, Threads, Subroutine, Returns, Measures, Passing, TimingReaped, ReapedTo, Owes,
       Goes, Keeps, OnlyMoves, RunStays
  <2> QED
    BY <2>1, <2>2, <2>3, <2>4, <2>5, <2>6 DEF TimingInv
<1> QED
  BY <1>1, <1>2 DEF T!EndBuild

\* Nobody is listed once the cleaner has begun.
LEMMA TimingEnter == ASSUME TimingInv, T!Enter PROVE TimingInv'
<1> USE DEF T!Session, T!Thread, T!Timer, T!S, T!At
<1>0. TimingTypeOK /\ Threads /\ Opened /\ CleanIsFinal /\ LineCounted /\ TimingReapedInTurn
  BY DEF TimingInv
<1>a. /\ th["main"].at = "open" /\ th["main"].s \in T!Session
      /\ UNCHANGED <<job, box, line, lost>>
  BY <1>0 DEF T!Enter, TimingTypeOK, ThreadTypes
<1>o. OwnStays
  BY <1>0 DEF TimingTypeOK, OtherTypes, OwnStays, T!Enter
<1>1. CASE T!Go("main", "attempt") /\ ~own.closing /\ UNCHANGED run
         /\ sess' = [sess EXCEPT ![th["main"].s].listed = TRUE]
  <2>t. Goes("main", "attempt")
    BY <1>0, <1>1, ThreadGoes DEF TimingTypeOK
  <2>s. /\ SessOnly(th["main"].s) /\ sess'[th["main"].s].listed
        /\ sess'[th["main"].s].closed = sess[th["main"].s].closed
        /\ sess'[th["main"].s].tried = sess[th["main"].s].tried
        /\ sess'[th["main"].s].known = sess[th["main"].s].known
        /\ sess'[th["main"].s].ready = sess[th["main"].s].ready
        /\ sess'[th["main"].s].reaped = sess[th["main"].s].reaped
        /\ sess'[th["main"].s].clean = sess[th["main"].s].clean
    BY <1>0, <1>1 DEF TimingTypeOK, SessTypes, ThreadTypes, SessOnly
  <2>r. RunStays /\ run'.err = run.err
    BY <1>1 DEF RunStays
  <2>g. ~own.closing
    BY <1>1
  <2>1. TimingTypeOK'
    <3>1. ThreadTypes'
      BY <1>0, <2>t, GoesTyped DEF TimingTypeOK, Place
    <3>2. SessTypes'
      BY <1>0, <2>s, <1>a, SessTyped DEF TimingTypeOK
    <3> QED
      BY <1>0, <3>1, <3>2, <2>g, <1>a, <1>o, <2>r, OtherTyped
         DEF TimingTypeOK, LineTypes, BoxTypes
  <2>2. Threads'
    BY <1>0, <2>g, <1>a, <2>t, <2>s, <1>o DEF TimingTypeOK, ThreadTypes, SessTypes, Threads,
       Subroutine, Returns, Measures, Passing, TimingReaped, ReapedTo, Owes, Goes, Keeps,
       OnlyMoves, OwnStays, SessOnly
  <2>3. Opened'
    BY <1>0, <2>g, <1>a, <2>t, <2>s DEF TimingTypeOK, BoxTypes, SessTypes, LineTypes,
       ThreadTypes, Opened, Threads, Subroutine, Returns, Measures, Passing, TimingReaped,
       ReapedTo, Owes, Goes, Keeps, OnlyMoves, SessOnly
  <2>k. Kept
    BY <1>0, <2>g, <1>a, <2>s, <1>o DEF Kept, TimingTypeOK, BoxTypes, SessTypes, ThreadTypes,
       Opened, Threads, OwnStays, SessOnly
  <2>n. Founded
    BY <1>0, <2>g, <1>a, <2>t, <2>s, <1>o, <2>r DEF Founded, CleanIsFinal, TimingTypeOK,
       ThreadTypes, SessTypes, Goes, Keeps, OnlyMoves, OwnStays, RunStays, SessOnly
  <2>4. CleanIsFinal'
    BY <1>0, <2>k, <2>n, CleanStays
  <2>5. LineCounted'
    BY <1>0, <2>g, <1>a, <2>t, <2>r DEF TimingTypeOK, ThreadTypes, LineTypes, LineCounted,
       Opened, Threads, Owes, Goes, Keeps, OnlyMoves, RunStays
  <2>6. TimingReapedInTurn'
    BY <1>0, <2>g, <1>a, <2>t, <2>s, <2>r DEF TimingTypeOK, ThreadTypes, SessTypes,
       TimingReapedInTurn, Opened, Threads, Subroutine, Returns, Measures, Passing,
       TimingReaped, ReapedTo, Owes, Goes, Keeps, OnlyMoves, RunStays, SessOnly
  <2> QED
    BY <2>1, <2>2, <2>3, <2>4, <2>5, <2>6 DEF TimingInv
<1>2. CASE T!Go("main", "measured") /\ T!Raise /\ UNCHANGED sess
  <2>t. Goes("main", "measured")
    BY <1>0, <1>2, ThreadGoes DEF TimingTypeOK
  <2>r. RunStays /\ run'.err
    BY <1>0, <1>2 DEF TimingTypeOK, OtherTypes, RunStays, T!Raise
  <2>s. UNCHANGED sess
    BY <1>2
  <2>1. TimingTypeOK'
    <3>1. ThreadTypes'
      BY <1>0, <2>t, GoesTyped DEF TimingTypeOK, Place
    <3> QED
      BY <1>0, <3>1, <1>a, <2>s, <1>o, <2>r, OtherTyped DEF TimingTypeOK, SessTypes, LineTypes,
         BoxTypes
  <2>2. Threads'
    BY <1>0, <1>a, <2>t, <2>s, <1>o DEF TimingTypeOK, ThreadTypes, SessTypes, Threads,
       Subroutine, Returns, Measures, Passing, TimingReaped, ReapedTo, Owes, Goes, Keeps,
       OnlyMoves, OwnStays
  <2>3. Opened'
    BY <1>0, <1>a, <2>t, <2>s DEF TimingTypeOK, BoxTypes, SessTypes, LineTypes, ThreadTypes,
       Opened, Threads, Subroutine, Returns, Measures, Passing, TimingReaped, ReapedTo, Owes,
       Goes, Keeps, OnlyMoves
  <2>k. Kept
    BY <1>0, <1>a, <2>s, <1>o DEF Kept, TimingTypeOK, BoxTypes, SessTypes, ThreadTypes, Opened,
       Threads, OwnStays
  <2>n. Founded
    BY <1>0, <1>a, <2>t, <2>s, <1>o, <2>r DEF Founded, CleanIsFinal, TimingTypeOK, ThreadTypes,
       SessTypes, Goes, Keeps, OnlyMoves, OwnStays, RunStays
  <2>4. CleanIsFinal'
    BY <1>0, <2>k, <2>n, CleanStays
  <2>5. LineCounted'
    BY <1>0, <1>a, <2>t, <2>r DEF TimingTypeOK, ThreadTypes, LineTypes, LineCounted, Opened,
       Threads, Owes, Goes, Keeps, OnlyMoves, RunStays
  <2>6. TimingReapedInTurn'
    BY <1>0, <1>a, <2>t, <2>s, <2>r DEF TimingTypeOK, ThreadTypes, SessTypes,
       TimingReapedInTurn, Opened, Threads, Subroutine, Returns, Measures, Passing,
       TimingReaped, ReapedTo, Owes, Goes, Keeps, OnlyMoves, RunStays
  <2> QED
    BY <2>1, <2>2, <2>3, <2>4, <2>5, <2>6 DEF TimingInv
<1> QED
  BY <1>1, <1>2 DEF T!Enter

\* The guard keeps a closed session from being tried.
LEMMA TimingAttempt == ASSUME TimingInv, T!Attempt PROVE TimingInv'
<1> USE DEF T!Session, T!Thread, T!Timer, T!S, T!At
<1>0. TimingTypeOK /\ Threads /\ Opened /\ CleanIsFinal /\ LineCounted /\ TimingReapedInTurn
  BY DEF TimingInv
<1>a. /\ th["main"].at = "attempt" /\ th["main"].s \in T!Session
      /\ UNCHANGED <<job, box, line, own, lost, run>>
  BY <1>0 DEF T!Attempt, TimingTypeOK, ThreadTypes
<1>o. OwnStays
  BY <1>0 DEF TimingTypeOK, OtherTypes, OwnStays, T!Attempt
<1>r. RunStays /\ run'.err = run.err
  BY <1>a DEF RunStays
<1>1. CASE T!Go("main", "create") /\ T!Guard(th["main"].s)
         /\ sess' = [sess EXCEPT ![th["main"].s].tried = TRUE]
  <2>t. Goes("main", "create")
    BY <1>0, <1>1, ThreadGoes DEF TimingTypeOK
  <2>s. /\ SessOnly(th["main"].s) /\ sess'[th["main"].s].tried
        /\ sess'[th["main"].s].listed = sess[th["main"].s].listed
        /\ sess'[th["main"].s].closed = sess[th["main"].s].closed
        /\ sess'[th["main"].s].known = sess[th["main"].s].known
        /\ sess'[th["main"].s].ready = sess[th["main"].s].ready
        /\ sess'[th["main"].s].reaped = sess[th["main"].s].reaped
        /\ sess'[th["main"].s].clean = sess[th["main"].s].clean
    BY <1>0, <1>1 DEF TimingTypeOK, SessTypes, ThreadTypes, SessOnly
  <2>g. ~sess[th["main"].s].closed
    BY <1>1 DEF T!Guard
  <2>1. TimingTypeOK'
    <3>1. ThreadTypes'
      BY <1>0, <2>t, GoesTyped DEF TimingTypeOK, Place
    <3>2. SessTypes'
      BY <1>0, <2>s, <1>a, SessTyped DEF TimingTypeOK
    <3> QED
      BY <1>0, <3>1, <3>2, <2>g, <1>a, <1>o, <1>r, OtherTyped
         DEF TimingTypeOK, LineTypes, BoxTypes
  <2>2. Threads'
    BY <1>0, <2>g, <1>a, <2>t, <2>s, <1>o DEF TimingTypeOK, ThreadTypes, SessTypes, Threads,
       Subroutine, Returns, Measures, Passing, TimingReaped, ReapedTo, Owes, Goes, Keeps,
       OnlyMoves, OwnStays, SessOnly
  <2>3. Opened'
    BY <1>0, <2>g, <1>a, <2>t, <2>s DEF TimingTypeOK, BoxTypes, SessTypes, LineTypes,
       ThreadTypes, Opened, Threads, Subroutine, Returns, Measures, Passing, TimingReaped,
       ReapedTo, Owes, Goes, Keeps, OnlyMoves, SessOnly
  <2>k. Kept
    BY <1>0, <2>g, <1>a, <2>s, <1>o DEF Kept, TimingTypeOK, BoxTypes, SessTypes, ThreadTypes,
       Opened, Threads, OwnStays, SessOnly
  <2>n. Founded
    BY <1>0, <2>g, <1>a, <2>t, <2>s, <1>o, <1>r DEF Founded, CleanIsFinal, TimingTypeOK,
       ThreadTypes, SessTypes, Goes, Keeps, OnlyMoves, OwnStays, RunStays, SessOnly
  <2>4. CleanIsFinal'
    BY <1>0, <2>k, <2>n, CleanStays
  <2>5. LineCounted'
    BY <1>0, <2>g, <1>a, <2>t, <1>r DEF TimingTypeOK, ThreadTypes, LineTypes, LineCounted,
       Opened, Threads, Owes, Goes, Keeps, OnlyMoves, RunStays
  <2>6. TimingReapedInTurn'
    BY <1>0, <2>g, <1>a, <2>t, <2>s, <1>r DEF TimingTypeOK, ThreadTypes, SessTypes,
       TimingReapedInTurn, Opened, Threads, Subroutine, Returns, Measures, Passing,
       TimingReaped, ReapedTo, Owes, Goes, Keeps, OnlyMoves, RunStays, SessOnly
  <2> QED
    BY <2>1, <2>2, <2>3, <2>4, <2>5, <2>6 DEF TimingInv
<1>2. CASE T!Fail("main", "unopened") /\ UNCHANGED sess
  <2>t. Fails("main", "unopened")
    BY <1>0, <1>2, ThreadFails DEF TimingTypeOK
  <2>s. UNCHANGED sess
    BY <1>2
  <2>1. TimingTypeOK'
    <3>1. ThreadTypes'
      BY <1>0, <2>t, FailsTyped DEF TimingTypeOK, ThreadTypes, Follows
    <3> QED
      BY <1>0, <3>1, <1>a, <2>s, <1>o, <1>r, OtherTyped DEF TimingTypeOK, SessTypes, LineTypes,
         BoxTypes
  <2>2. Threads'
    BY <1>0, <1>a, <2>t, <2>s, <1>o DEF TimingTypeOK, ThreadTypes, SessTypes, Threads,
       Subroutine, Returns, Measures, Passing, TimingReaped, ReapedTo, Owes, Fails, Keeps,
       OnlyMoves, OwnStays
  <2>3. Opened'
    BY <1>0, <1>a, <2>t, <2>s DEF TimingTypeOK, BoxTypes, SessTypes, LineTypes, ThreadTypes,
       Opened, Threads, Subroutine, Returns, Measures, Passing, TimingReaped, ReapedTo, Owes,
       Fails, Keeps, OnlyMoves
  <2>k. Kept
    BY <1>0, <1>a, <2>s, <1>o DEF Kept, TimingTypeOK, BoxTypes, SessTypes, ThreadTypes, Opened,
       Threads, OwnStays
  <2>n. Founded
    BY <1>0, <1>a, <2>t, <2>s, <1>o, <1>r DEF Founded, CleanIsFinal, TimingTypeOK, ThreadTypes,
       SessTypes, Fails, Keeps, OnlyMoves, OwnStays, RunStays
  <2>4. CleanIsFinal'
    BY <1>0, <2>k, <2>n, CleanStays
  <2>5. LineCounted'
    BY <1>0, <1>a, <2>t, <1>r DEF TimingTypeOK, ThreadTypes, LineTypes, LineCounted, Opened,
       Threads, Owes, Fails, Keeps, OnlyMoves, RunStays
  <2>6. TimingReapedInTurn'
    BY <1>0, <1>a, <2>t, <2>s, <1>r DEF TimingTypeOK, ThreadTypes, SessTypes,
       TimingReapedInTurn, Opened, Threads, Subroutine, Returns, Measures, Passing,
       TimingReaped, ReapedTo, Owes, Fails, Keeps, OnlyMoves, RunStays
  <2> QED
    BY <2>1, <2>2, <2>3, <2>4, <2>5, <2>6 DEF TimingInv
<1> QED
  BY <1>1, <1>2 DEF T!Attempt

\* The answer may be lost: then a container may exist that nobody knows.
LEMMA TimingCreate == ASSUME TimingInv, T!Create PROVE TimingInv'
<1> USE DEF T!Session, T!Thread, T!Timer, T!S, T!At
<1>0. TimingTypeOK /\ Threads /\ Opened /\ CleanIsFinal /\ LineCounted /\ TimingReapedInTurn
  BY DEF TimingInv
<1>a. /\ th["main"].at = "create" /\ th["main"].s \in T!Session
      /\ UNCHANGED <<job, line, own, lost, run>>
  BY <1>0 DEF T!Create, TimingTypeOK, ThreadTypes
<1>o. OwnStays
  BY <1>0 DEF TimingTypeOK, OtherTypes, OwnStays, T!Create
<1>r. RunStays /\ run'.err = run.err
  BY <1>a DEF RunStays
<1>1. CASE T!Go("main", "startup") /\ box' = [box EXCEPT ![th["main"].s] = "made"]
         /\ sess' = [sess EXCEPT ![th["main"].s].known = TRUE]
  <2>t. Goes("main", "startup")
    BY <1>0, <1>1, ThreadGoes DEF TimingTypeOK
  <2>s. /\ SessOnly(th["main"].s) /\ sess'[th["main"].s].known
        /\ sess'[th["main"].s].listed = sess[th["main"].s].listed
        /\ sess'[th["main"].s].closed = sess[th["main"].s].closed
        /\ sess'[th["main"].s].tried = sess[th["main"].s].tried
        /\ sess'[th["main"].s].ready = sess[th["main"].s].ready
        /\ sess'[th["main"].s].reaped = sess[th["main"].s].reaped
        /\ sess'[th["main"].s].clean = sess[th["main"].s].clean
    BY <1>0, <1>1 DEF TimingTypeOK, SessTypes, ThreadTypes, SessOnly
  <2>b. BoxOnly(th["main"].s) /\ box'[th["main"].s] \in {"made"}
    BY <1>0, <1>a, <1>1 DEF TimingTypeOK, BoxTypes, BoxOnly
  <2>1. TimingTypeOK'
    <3>1. ThreadTypes'
      BY <1>0, <2>t, GoesTyped DEF TimingTypeOK, Place
    <3>2. SessTypes'
      BY <1>0, <2>s, <1>a, SessTyped DEF TimingTypeOK
    <3>3. BoxTypes'
      BY <1>0, <1>a, <2>b, BoxTyped DEF TimingTypeOK
    <3> QED
      BY <1>0, <3>1, <3>2, <1>a, <3>3, <1>o, <1>r, OtherTyped DEF TimingTypeOK, LineTypes
  <2>2. Threads'
    BY <1>0, <1>a, <2>t, <2>s, <1>o DEF TimingTypeOK, ThreadTypes, SessTypes, Threads,
       Subroutine, Returns, Measures, Passing, TimingReaped, ReapedTo, Owes, Goes, Keeps,
       OnlyMoves, OwnStays, SessOnly
  <2>3. Opened'
    BY <1>0, <1>a, <2>t, <2>s, <2>b DEF TimingTypeOK, BoxTypes, SessTypes, LineTypes,
       ThreadTypes, Opened, Threads, Subroutine, Returns, Measures, Passing, TimingReaped,
       ReapedTo, Owes, Goes, Keeps, OnlyMoves, SessOnly, BoxOnly
  <2>k. Kept
    BY <1>0, <1>a, <2>s, <2>b, <1>o DEF Kept, TimingTypeOK, BoxTypes, SessTypes, ThreadTypes,
       Opened, Threads, OwnStays, SessOnly, BoxOnly
  <2>n. Founded
    BY <1>0, <1>a, <2>t, <2>s, <2>b, <1>o, <1>r DEF Founded, CleanIsFinal, TimingTypeOK,
       ThreadTypes, SessTypes, Goes, Keeps, OnlyMoves, OwnStays, RunStays, SessOnly
  <2>4. CleanIsFinal'
    BY <1>0, <2>k, <2>n, CleanStays
  <2>5. LineCounted'
    BY <1>0, <1>a, <2>t, <1>r DEF TimingTypeOK, ThreadTypes, LineTypes, LineCounted, Opened,
       Threads, Owes, Goes, Keeps, OnlyMoves, RunStays
  <2>6. TimingReapedInTurn'
    BY <1>0, <1>a, <2>t, <2>s, <1>r DEF TimingTypeOK, ThreadTypes, SessTypes,
       TimingReapedInTurn, Opened, Threads, Subroutine, Returns, Measures, Passing,
       TimingReaped, ReapedTo, Owes, Goes, Keeps, OnlyMoves, RunStays, SessOnly
  <2> QED
    BY <2>1, <2>2, <2>3, <2>4, <2>5, <2>6 DEF TimingInv
<1>2. CASE T!Fail("main", "unopened") /\ UNCHANGED sess
         /\ \E b \in {"none", "asked", "made"} : box' = [box EXCEPT ![th["main"].s] = b]
  <2>t. Fails("main", "unopened")
    BY <1>0, <1>2, ThreadFails DEF TimingTypeOK
  <2>s. UNCHANGED sess
    BY <1>2
  <2>b. BoxOnly(th["main"].s) /\ box'[th["main"].s] \in {"none", "asked", "made"}
    BY <1>0, <1>a, <1>2 DEF TimingTypeOK, BoxTypes, BoxOnly
  <2>1. TimingTypeOK'
    <3>1. ThreadTypes'
      BY <1>0, <2>t, FailsTyped DEF TimingTypeOK, ThreadTypes, Follows
    <3>2. BoxTypes'
      BY <1>0, <1>a, <2>b, BoxTyped DEF TimingTypeOK
    <3> QED
      BY <1>0, <3>1, <1>a, <2>s, <3>2, <1>o, <1>r, OtherTyped
         DEF TimingTypeOK, SessTypes, LineTypes
  <2>2. Threads'
    BY <1>0, <1>a, <2>t, <2>s, <1>o DEF TimingTypeOK, ThreadTypes, SessTypes, Threads,
       Subroutine, Returns, Measures, Passing, TimingReaped, ReapedTo, Owes, Fails, Keeps,
       OnlyMoves, OwnStays
  <2>3. Opened'
    BY <1>0, <1>a, <2>t, <2>s, <2>b DEF TimingTypeOK, BoxTypes, SessTypes, LineTypes,
       ThreadTypes, Opened, Threads, Subroutine, Returns, Measures, Passing, TimingReaped,
       ReapedTo, Owes, Fails, Keeps, OnlyMoves, BoxOnly
  <2>k. Kept
    BY <1>0, <1>a, <2>s, <2>b, <1>o DEF Kept, TimingTypeOK, BoxTypes, SessTypes, ThreadTypes,
       Opened, Threads, OwnStays, BoxOnly
  <2>n. Founded
    BY <1>0, <1>a, <2>t, <2>s, <2>b, <1>o, <1>r DEF Founded, CleanIsFinal, TimingTypeOK,
       ThreadTypes, SessTypes, Fails, Keeps, OnlyMoves, OwnStays, RunStays
  <2>4. CleanIsFinal'
    BY <1>0, <2>k, <2>n, CleanStays
  <2>5. LineCounted'
    BY <1>0, <1>a, <2>t, <1>r DEF TimingTypeOK, ThreadTypes, LineTypes, LineCounted, Opened,
       Threads, Owes, Fails, Keeps, OnlyMoves, RunStays
  <2>6. TimingReapedInTurn'
    BY <1>0, <1>a, <2>t, <2>s, <1>r DEF TimingTypeOK, ThreadTypes, SessTypes,
       TimingReapedInTurn, Opened, Threads, Subroutine, Returns, Measures, Passing,
       TimingReaped, ReapedTo, Owes, Fails, Keeps, OnlyMoves, RunStays
  <2> QED
    BY <2>1, <2>2, <2>3, <2>4, <2>5, <2>6 DEF TimingInv
<1> QED
  BY <1>1, <1>2 DEF T!Create

\* The channel is new, so it owes nothing.
LEMMA TimingStartUp == ASSUME TimingInv, T!StartUp PROVE TimingInv'
<1> USE DEF T!Session, T!Thread, T!Timer, T!S, T!At
<1>0. TimingTypeOK /\ Threads /\ Opened /\ CleanIsFinal /\ LineCounted /\ TimingReapedInTurn
  BY DEF TimingInv
<1>a. /\ th["main"].at = "startup" /\ th["main"].s \in T!Session
      /\ UNCHANGED <<job, sess, own, lost, run>>
  BY <1>0 DEF T!StartUp, TimingTypeOK, ThreadTypes
<1>o. OwnStays
  BY <1>0 DEF TimingTypeOK, OtherTypes, OwnStays, T!StartUp
<1>r. RunStays /\ run'.err = run.err
  BY <1>a DEF RunStays
<1>1. CASE T!Go("main", "ready")
         /\ box[th["main"].s] = "made" /\ box' = [box EXCEPT ![th["main"].s] = "up"]
         /\ line' = [line EXCEPT ![th["main"].s].chan = "open"]
  <2>t. Goes("main", "ready")
    BY <1>0, <1>1, ThreadGoes DEF TimingTypeOK
  <2>b. BoxOnly(th["main"].s) /\ box'[th["main"].s] \in {"up"}
    BY <1>0, <1>a, <1>1 DEF TimingTypeOK, BoxTypes, BoxOnly
  <2>l. /\ LineOnly(th["main"].s) /\ line'[th["main"].s].chan = "open"
        /\ line'[th["main"].s].owed = line[th["main"].s].owed
    BY <1>0, <1>a, <1>1 DEF TimingTypeOK, LineTypes, LineOnly
  <2>c. box[th["main"].s] = "made"
    BY <1>1
  <2>1. TimingTypeOK'
    <3>1. ThreadTypes'
      BY <1>0, <2>t, GoesTyped DEF TimingTypeOK, Place
    <3>2. LineTypes'
      BY <1>0, <1>a, <2>l, LineTyped DEF TimingTypeOK, LineTypes
    <3>3. BoxTypes'
      BY <1>0, <1>a, <2>b, BoxTyped DEF TimingTypeOK
    <3> QED
      BY <1>0, <3>1, <2>c, <1>a, <3>2, <3>3, <1>o, <1>r, OtherTyped DEF TimingTypeOK, SessTypes
  <2>2. Threads'
    BY <1>0, <2>c, <1>a, <2>t, <1>o DEF TimingTypeOK, ThreadTypes, SessTypes, Threads,
       Subroutine, Returns, Measures, Passing, TimingReaped, ReapedTo, Owes, Goes, Keeps,
       OnlyMoves, OwnStays
  <2>3. Opened'
    BY <1>0, <2>c, <1>a, <2>t, <2>l, <2>b DEF TimingTypeOK, BoxTypes, SessTypes, LineTypes,
       ThreadTypes, Opened, Threads, Subroutine, Returns, Measures, Passing, TimingReaped,
       ReapedTo, Owes, Goes, Keeps, OnlyMoves, LineOnly, BoxOnly
  <2>k. Kept
    BY <1>0, <2>c, <1>a, <2>b, <1>o DEF Kept, TimingTypeOK, BoxTypes, SessTypes, ThreadTypes,
       Opened, Threads, OwnStays, BoxOnly
  <2>n. Founded
    BY <1>0, <2>c, <1>a, <2>t, <2>b, <1>o, <1>r DEF Founded, CleanIsFinal, TimingTypeOK,
       ThreadTypes, SessTypes, Goes, Keeps, OnlyMoves, OwnStays, RunStays
  <2>4. CleanIsFinal'
    BY <1>0, <2>k, <2>n, CleanStays
  <2>5. LineCounted'
    BY <1>0, <2>c, <1>a, <2>t, <2>l, <1>r DEF TimingTypeOK, ThreadTypes, LineTypes,
       LineCounted, Opened, Threads, Owes, Goes, Keeps, OnlyMoves, RunStays, LineOnly
  <2>6. TimingReapedInTurn'
    BY <1>0, <2>c, <1>a, <2>t, <1>r DEF TimingTypeOK, ThreadTypes, SessTypes,
       TimingReapedInTurn, Opened, Threads, Subroutine, Returns, Measures, Passing,
       TimingReaped, ReapedTo, Owes, Goes, Keeps, OnlyMoves, RunStays
  <2> QED
    BY <2>1, <2>2, <2>3, <2>4, <2>5, <2>6 DEF TimingInv
<1>2. CASE T!Fail("main", "unopened") /\ UNCHANGED <<box, line>>
  <2>t. Fails("main", "unopened")
    BY <1>0, <1>2, ThreadFails DEF TimingTypeOK
  <2>l. UNCHANGED line
    BY <1>2
  <2>b. UNCHANGED box
    BY <1>2
  <2>1. TimingTypeOK'
    <3>1. ThreadTypes'
      BY <1>0, <2>t, FailsTyped DEF TimingTypeOK, ThreadTypes, Follows
    <3> QED
      BY <1>0, <3>1, <1>a, <2>l, <2>b, <1>o, <1>r, OtherTyped
         DEF TimingTypeOK, SessTypes, LineTypes, BoxTypes
  <2>2. Threads'
    BY <1>0, <1>a, <2>t, <1>o DEF TimingTypeOK, ThreadTypes, SessTypes, Threads, Subroutine,
       Returns, Measures, Passing, TimingReaped, ReapedTo, Owes, Fails, Keeps, OnlyMoves,
       OwnStays
  <2>3. Opened'
    BY <1>0, <1>a, <2>t, <2>l, <2>b DEF TimingTypeOK, BoxTypes, SessTypes, LineTypes,
       ThreadTypes, Opened, Threads, Subroutine, Returns, Measures, Passing, TimingReaped,
       ReapedTo, Owes, Fails, Keeps, OnlyMoves
  <2>k. Kept
    BY <1>0, <1>a, <2>b, <1>o DEF Kept, TimingTypeOK, BoxTypes, SessTypes, ThreadTypes, Opened,
       Threads, OwnStays
  <2>n. Founded
    BY <1>0, <1>a, <2>t, <2>b, <1>o, <1>r DEF Founded, CleanIsFinal, TimingTypeOK, ThreadTypes,
       SessTypes, Fails, Keeps, OnlyMoves, OwnStays, RunStays
  <2>4. CleanIsFinal'
    BY <1>0, <2>k, <2>n, CleanStays
  <2>5. LineCounted'
    BY <1>0, <1>a, <2>t, <2>l, <1>r DEF TimingTypeOK, ThreadTypes, LineTypes, LineCounted,
       Opened, Threads, Owes, Fails, Keeps, OnlyMoves, RunStays
  <2>6. TimingReapedInTurn'
    BY <1>0, <1>a, <2>t, <1>r DEF TimingTypeOK, ThreadTypes, SessTypes, TimingReapedInTurn,
       Opened, Threads, Subroutine, Returns, Measures, Passing, TimingReaped, ReapedTo, Owes,
       Fails, Keeps, OnlyMoves, RunStays
  <2> QED
    BY <2>1, <2>2, <2>3, <2>4, <2>5, <2>6 DEF TimingInv
<1>3. CASE T!Fail("main", "unopened") /\ UNCHANGED box
         /\ line' = [line EXCEPT ![th["main"].s].chan = "open"]
  <2>t. Fails("main", "unopened")
    BY <1>0, <1>3, ThreadFails DEF TimingTypeOK
  <2>l. /\ LineOnly(th["main"].s) /\ line'[th["main"].s].chan = "open"
        /\ line'[th["main"].s].owed = line[th["main"].s].owed
    BY <1>0, <1>a, <1>3 DEF TimingTypeOK, LineTypes, LineOnly
  <2>b. UNCHANGED box
    BY <1>3
  <2>1. TimingTypeOK'
    <3>1. ThreadTypes'
      BY <1>0, <2>t, FailsTyped DEF TimingTypeOK, ThreadTypes, Follows
    <3>2. LineTypes'
      BY <1>0, <1>a, <2>l, LineTyped DEF TimingTypeOK, LineTypes
    <3> QED
      BY <1>0, <3>1, <1>a, <3>2, <2>b, <1>o, <1>r, OtherTyped
         DEF TimingTypeOK, SessTypes, BoxTypes
  <2>2. Threads'
    BY <1>0, <1>a, <2>t, <1>o DEF TimingTypeOK, ThreadTypes, SessTypes, Threads, Subroutine,
       Returns, Measures, Passing, TimingReaped, ReapedTo, Owes, Fails, Keeps, OnlyMoves,
       OwnStays
  <2>3. Opened'
    BY <1>0, <1>a, <2>t, <2>l, <2>b DEF TimingTypeOK, BoxTypes, SessTypes, LineTypes,
       ThreadTypes, Opened, Threads, Subroutine, Returns, Measures, Passing, TimingReaped,
       ReapedTo, Owes, Fails, Keeps, OnlyMoves, LineOnly
  <2>k. Kept
    BY <1>0, <1>a, <2>b, <1>o DEF Kept, TimingTypeOK, BoxTypes, SessTypes, ThreadTypes, Opened,
       Threads, OwnStays
  <2>n. Founded
    BY <1>0, <1>a, <2>t, <2>b, <1>o, <1>r DEF Founded, CleanIsFinal, TimingTypeOK, ThreadTypes,
       SessTypes, Fails, Keeps, OnlyMoves, OwnStays, RunStays
  <2>4. CleanIsFinal'
    BY <1>0, <2>k, <2>n, CleanStays
  <2>5. LineCounted'
    BY <1>0, <1>a, <2>t, <2>l, <1>r DEF TimingTypeOK, ThreadTypes, LineTypes, LineCounted,
       Opened, Threads, Owes, Fails, Keeps, OnlyMoves, RunStays, LineOnly
  <2>6. TimingReapedInTurn'
    BY <1>0, <1>a, <2>t, <1>r DEF TimingTypeOK, ThreadTypes, SessTypes, TimingReapedInTurn,
       Opened, Threads, Subroutine, Returns, Measures, Passing, TimingReaped, ReapedTo, Owes,
       Fails, Keeps, OnlyMoves, RunStays
  <2> QED
    BY <2>1, <2>2, <2>3, <2>4, <2>5, <2>6 DEF TimingInv
<1> QED
  BY <1>1, <1>2, <1>3 DEF T!StartUp

\* The process is ready, or its session is closed.
LEMMA TimingReady == ASSUME TimingInv, T!Ready PROVE TimingInv'
<1> USE DEF T!Session, T!Thread, T!Timer, T!S, T!At
<1>0. TimingTypeOK /\ Threads /\ Opened /\ CleanIsFinal /\ LineCounted /\ TimingReapedInTurn
  BY DEF TimingInv
<1>a. /\ th["main"].at = "ready" /\ th["main"].s \in T!Session
      /\ UNCHANGED <<job, box, line, lost>>
  BY <1>0 DEF T!Ready, TimingTypeOK, ThreadTypes
<1>o. OwnStays
  BY <1>0 DEF TimingTypeOK, OtherTypes, OwnStays, T!Ready, T!Unlock
<1>1. CASE T!Go("main", "ask") /\ sess' = [sess EXCEPT ![th["main"].s].ready = TRUE]
         /\ run' = [run EXCEPT !.asks = 0]
  <2>t. Goes("main", "ask")
    BY <1>0, <1>1, ThreadGoes DEF TimingTypeOK
  <2>s. /\ SessOnly(th["main"].s) /\ sess'[th["main"].s].ready
        /\ sess'[th["main"].s].listed = sess[th["main"].s].listed
        /\ sess'[th["main"].s].closed = sess[th["main"].s].closed
        /\ sess'[th["main"].s].tried = sess[th["main"].s].tried
        /\ sess'[th["main"].s].known = sess[th["main"].s].known
        /\ sess'[th["main"].s].reaped = sess[th["main"].s].reaped
        /\ sess'[th["main"].s].clean = sess[th["main"].s].clean
    BY <1>0, <1>1 DEF TimingTypeOK, SessTypes, ThreadTypes, SessOnly
  <2>r. RunStays /\ run'.err = run.err
    BY <1>0, <1>1 DEF TimingTypeOK, OtherTypes, RunStays
  <2>1. TimingTypeOK'
    <3>1. ThreadTypes'
      BY <1>0, <2>t, GoesTyped DEF TimingTypeOK, Place
    <3>2. SessTypes'
      BY <1>0, <2>s, <1>a, SessTyped DEF TimingTypeOK
    <3> QED
      BY <1>0, <3>1, <3>2, <1>a, <1>o, <2>r, OtherTyped DEF TimingTypeOK, LineTypes, BoxTypes
  <2>2. Threads'
    BY <1>0, <1>a, <2>t, <2>s, <1>o DEF TimingTypeOK, ThreadTypes, SessTypes, Threads,
       Subroutine, Returns, Measures, Passing, TimingReaped, ReapedTo, Owes, Goes, Keeps,
       OnlyMoves, OwnStays, SessOnly
  <2>3. Opened'
    BY <1>0, <1>a, <2>t, <2>s DEF TimingTypeOK, BoxTypes, SessTypes, LineTypes, ThreadTypes,
       Opened, Threads, Subroutine, Returns, Measures, Passing, TimingReaped, ReapedTo, Owes,
       Goes, Keeps, OnlyMoves, SessOnly
  <2>k. Kept
    BY <1>0, <1>a, <2>s, <1>o DEF Kept, TimingTypeOK, BoxTypes, SessTypes, ThreadTypes, Opened,
       Threads, OwnStays, SessOnly
  <2>n. Founded
    BY <1>0, <1>a, <2>t, <2>s, <1>o, <2>r DEF Founded, CleanIsFinal, TimingTypeOK, ThreadTypes,
       SessTypes, Goes, Keeps, OnlyMoves, OwnStays, RunStays, SessOnly
  <2>4. CleanIsFinal'
    BY <1>0, <2>k, <2>n, CleanStays
  <2>5. LineCounted'
    BY <1>0, <1>a, <2>t, <2>r DEF TimingTypeOK, ThreadTypes, LineTypes, LineCounted, Opened,
       Threads, Owes, Goes, Keeps, OnlyMoves, RunStays
  <2>6. TimingReapedInTurn'
    BY <1>0, <1>a, <2>t, <2>s, <2>r DEF TimingTypeOK, ThreadTypes, SessTypes,
       TimingReapedInTurn, Opened, Threads, Subroutine, Returns, Measures, Passing,
       TimingReaped, ReapedTo, Owes, Goes, Keeps, OnlyMoves, RunStays, SessOnly
  <2> QED
    BY <2>1, <2>2, <2>3, <2>4, <2>5, <2>6 DEF TimingInv
<1>2. CASE T!Fail("main", "unopened") /\ UNCHANGED <<sess, run>>
  <2>t. Fails("main", "unopened")
    BY <1>0, <1>2, ThreadFails DEF TimingTypeOK
  <2>s. UNCHANGED sess
    BY <1>2
  <2>r. RunStays /\ run'.err = run.err
    BY <1>2 DEF RunStays
  <2>1. TimingTypeOK'
    <3>1. ThreadTypes'
      BY <1>0, <2>t, FailsTyped DEF TimingTypeOK, ThreadTypes, Follows
    <3> QED
      BY <1>0, <3>1, <1>a, <2>s, <1>o, <2>r, OtherTyped DEF TimingTypeOK, SessTypes, LineTypes,
         BoxTypes
  <2>2. Threads'
    BY <1>0, <1>a, <2>t, <2>s, <1>o DEF TimingTypeOK, ThreadTypes, SessTypes, Threads,
       Subroutine, Returns, Measures, Passing, TimingReaped, ReapedTo, Owes, Fails, Keeps,
       OnlyMoves, OwnStays
  <2>3. Opened'
    BY <1>0, <1>a, <2>t, <2>s DEF TimingTypeOK, BoxTypes, SessTypes, LineTypes, ThreadTypes,
       Opened, Threads, Subroutine, Returns, Measures, Passing, TimingReaped, ReapedTo, Owes,
       Fails, Keeps, OnlyMoves
  <2>k. Kept
    BY <1>0, <1>a, <2>s, <1>o DEF Kept, TimingTypeOK, BoxTypes, SessTypes, ThreadTypes, Opened,
       Threads, OwnStays
  <2>n. Founded
    BY <1>0, <1>a, <2>t, <2>s, <1>o, <2>r DEF Founded, CleanIsFinal, TimingTypeOK, ThreadTypes,
       SessTypes, Fails, Keeps, OnlyMoves, OwnStays, RunStays
  <2>4. CleanIsFinal'
    BY <1>0, <2>k, <2>n, CleanStays
  <2>5. LineCounted'
    BY <1>0, <1>a, <2>t, <2>r DEF TimingTypeOK, ThreadTypes, LineTypes, LineCounted, Opened,
       Threads, Owes, Fails, Keeps, OnlyMoves, RunStays
  <2>6. TimingReapedInTurn'
    BY <1>0, <1>a, <2>t, <2>s, <2>r DEF TimingTypeOK, ThreadTypes, SessTypes,
       TimingReapedInTurn, Opened, Threads, Subroutine, Returns, Measures, Passing,
       TimingReaped, ReapedTo, Owes, Fails, Keeps, OnlyMoves, RunStays
  <2> QED
    BY <2>1, <2>2, <2>3, <2>4, <2>5, <2>6 DEF TimingInv
<1> QED
  BY <1>1, <1>2 DEF T!Ready

\* The exception leaves the loop.
LEMMA TimingUnopened == ASSUME TimingInv, T!Unopened PROVE TimingInv'
<1> USE DEF T!Session, T!Thread, T!Timer, T!S, T!At
<1>0. TimingTypeOK /\ Threads /\ Opened /\ CleanIsFinal /\ LineCounted /\ TimingReapedInTurn
  BY DEF TimingInv
<1>a. /\ th["main"].at = "unopened" /\ th["main"].s \in T!Session
      /\ UNCHANGED <<job, box, sess, line, lost>>
  BY <1>0 DEF T!Unopened, TimingTypeOK, ThreadTypes
<1>x. T!Go("main", "measured") /\ T!Raise
  BY DEF T!Unopened
<1>o. OwnStays
  BY <1>0 DEF TimingTypeOK, OtherTypes, OwnStays, T!Unopened, T!Unlock
<1>t. Goes("main", "measured")
  BY <1>0, <1>x, ThreadGoes DEF TimingTypeOK
<1>r. RunStays /\ run'.err
  BY <1>0, <1>x DEF TimingTypeOK, OtherTypes, RunStays, T!Raise
<1>1. TimingTypeOK'
  <2>1. ThreadTypes'
    BY <1>0, <1>t, GoesTyped DEF TimingTypeOK, Place
  <2> QED
    BY <1>0, <2>1, <1>a, <1>o, <1>r, OtherTyped DEF TimingTypeOK, SessTypes, LineTypes, BoxTypes
<1>2. Threads'
  BY <1>0, <1>a, <1>t, <1>o DEF TimingTypeOK, ThreadTypes, SessTypes, Threads, Subroutine,
     Returns, Measures, Passing, TimingReaped, ReapedTo, Owes, Goes, Keeps, OnlyMoves, OwnStays
<1>3. Opened'
  BY <1>0, <1>a, <1>t DEF TimingTypeOK, BoxTypes, SessTypes, LineTypes, ThreadTypes, Opened,
     Threads, Subroutine, Returns, Measures, Passing, TimingReaped, ReapedTo, Owes, Goes,
     Keeps, OnlyMoves
<1>k. Kept
  BY <1>0, <1>a, <1>o DEF Kept, TimingTypeOK, BoxTypes, SessTypes, ThreadTypes, Opened,
     Threads, OwnStays
<1>n. Founded
  BY <1>0, <1>a, <1>t, <1>o, <1>r DEF Founded, CleanIsFinal, TimingTypeOK, ThreadTypes,
     SessTypes, Goes, Keeps, OnlyMoves, OwnStays, RunStays
<1>4. CleanIsFinal'
  BY <1>0, <1>k, <1>n, CleanStays
<1>5. LineCounted'
  BY <1>0, <1>a, <1>t, <1>r DEF TimingTypeOK, ThreadTypes, LineTypes, LineCounted, Opened,
     Threads, Owes, Goes, Keeps, OnlyMoves, RunStays
<1>6. TimingReapedInTurn'
  BY <1>0, <1>a, <1>t, <1>r DEF TimingTypeOK, ThreadTypes, SessTypes, TimingReapedInTurn,
     Opened, Threads, Subroutine, Returns, Measures, Passing, TimingReaped, ReapedTo, Owes,
     Goes, Keeps, OnlyMoves, RunStays
<1> QED
  BY <1>1, <1>2, <1>3, <1>4, <1>5, <1>6 DEF TimingInv

\* One answer is owed from now on.
LEMMA TimingAsk == ASSUME TimingInv, T!Ask PROVE TimingInv'
<1> USE DEF T!Session, T!Thread, T!Timer, T!S, T!At
<1>0. TimingTypeOK /\ Threads /\ Opened /\ CleanIsFinal /\ LineCounted /\ TimingReapedInTurn
  BY DEF TimingInv
<1>a. /\ th["main"].at = "ask" /\ th["main"].s \in T!Session
      /\ UNCHANGED <<job, box, sess, own, lost>>
  BY <1>0 DEF T!Ask, TimingTypeOK, ThreadTypes
<1>o. OwnStays
  BY <1>0 DEF TimingTypeOK, OtherTypes, OwnStays, T!Ask
<1>1. CASE T!Written("main", th["main"].s) /\ T!Go("main", "answer") /\ UNCHANGED run
  <2>t. Goes("main", "answer")
    BY <1>0, <1>1, ThreadGoes DEF TimingTypeOK
  <2>l. /\ LineOnly(th["main"].s) /\ line'[th["main"].s].chan = line[th["main"].s].chan
        /\ line[th["main"].s].chan = "open" /\ line'[th["main"].s].owed = line[th["main"].s].owed + 1
    BY <1>0, <1>a, <1>1 DEF TimingTypeOK, LineTypes, LineOnly, T!Written
  <2>r. RunStays /\ run'.err = run.err
    BY <1>1 DEF RunStays
  <2>1. TimingTypeOK'
    <3>1. ThreadTypes'
      BY <1>0, <2>t, GoesTyped DEF TimingTypeOK, Place
    <3>2. LineTypes'
      BY <1>0, <1>a, <2>l, LineTyped DEF TimingTypeOK, LineTypes
    <3> QED
      BY <1>0, <3>1, <1>a, <3>2, <1>o, <2>r, OtherTyped DEF TimingTypeOK, SessTypes, BoxTypes
  <2>2. Threads'
    BY <1>0, <1>a, <2>t, <1>o DEF TimingTypeOK, ThreadTypes, SessTypes, Threads, Subroutine,
       Returns, Measures, Passing, TimingReaped, ReapedTo, Owes, Goes, Keeps, OnlyMoves,
       OwnStays
  <2>3. Opened'
    BY <1>0, <1>a, <2>t, <2>l DEF TimingTypeOK, BoxTypes, SessTypes, LineTypes, ThreadTypes,
       Opened, Threads, Subroutine, Returns, Measures, Passing, TimingReaped, ReapedTo, Owes,
       Goes, Keeps, OnlyMoves, LineOnly
  <2>k. Kept
    BY <1>0, <1>a, <1>o DEF Kept, TimingTypeOK, BoxTypes, SessTypes, ThreadTypes, Opened,
       Threads, OwnStays
  <2>n. Founded
    BY <1>0, <1>a, <2>t, <1>o, <2>r DEF Founded, CleanIsFinal, TimingTypeOK, ThreadTypes,
       SessTypes, Goes, Keeps, OnlyMoves, OwnStays, RunStays
  <2>4. CleanIsFinal'
    BY <1>0, <2>k, <2>n, CleanStays
  <2>5. LineCounted'
    BY <1>0, <1>a, <2>t, <2>l, <2>r DEF TimingTypeOK, ThreadTypes, LineTypes, LineCounted,
       Opened, Threads, Owes, Goes, Keeps, OnlyMoves, RunStays, LineOnly
  <2>6. TimingReapedInTurn'
    BY <1>0, <1>a, <2>t, <2>r DEF TimingTypeOK, ThreadTypes, SessTypes, TimingReapedInTurn,
       Opened, Threads, Subroutine, Returns, Measures, Passing, TimingReaped, ReapedTo, Owes,
       Goes, Keeps, OnlyMoves, RunStays
  <2> QED
    BY <2>1, <2>2, <2>3, <2>4, <2>5, <2>6 DEF TimingInv
<1>2. CASE T!Fail("main", "asked") /\ T!Raise /\ UNCHANGED line
  <2>t. Fails("main", "asked")
    BY <1>0, <1>2, ThreadFails DEF TimingTypeOK
  <2>l. UNCHANGED line
    BY <1>2
  <2>r. RunStays /\ run'.err
    BY <1>0, <1>2 DEF TimingTypeOK, OtherTypes, RunStays, T!Raise
  <2>1. TimingTypeOK'
    <3>1. ThreadTypes'
      BY <1>0, <2>t, FailsTyped DEF TimingTypeOK, ThreadTypes, Follows
    <3> QED
      BY <1>0, <3>1, <1>a, <2>l, <1>o, <2>r, OtherTyped DEF TimingTypeOK, SessTypes, LineTypes,
         BoxTypes
  <2>2. Threads'
    BY <1>0, <1>a, <2>t, <1>o DEF TimingTypeOK, ThreadTypes, SessTypes, Threads, Subroutine,
       Returns, Measures, Passing, TimingReaped, ReapedTo, Owes, Fails, Keeps, OnlyMoves,
       OwnStays
  <2>3. Opened'
    BY <1>0, <1>a, <2>t, <2>l DEF TimingTypeOK, BoxTypes, SessTypes, LineTypes, ThreadTypes,
       Opened, Threads, Subroutine, Returns, Measures, Passing, TimingReaped, ReapedTo, Owes,
       Fails, Keeps, OnlyMoves
  <2>k. Kept
    BY <1>0, <1>a, <1>o DEF Kept, TimingTypeOK, BoxTypes, SessTypes, ThreadTypes, Opened,
       Threads, OwnStays
  <2>n. Founded
    BY <1>0, <1>a, <2>t, <1>o, <2>r DEF Founded, CleanIsFinal, TimingTypeOK, ThreadTypes,
       SessTypes, Fails, Keeps, OnlyMoves, OwnStays, RunStays
  <2>4. CleanIsFinal'
    BY <1>0, <2>k, <2>n, CleanStays
  <2>5. LineCounted'
    BY <1>0, <1>a, <2>t, <2>l, <2>r DEF TimingTypeOK, ThreadTypes, LineTypes, LineCounted,
       Opened, Threads, Owes, Fails, Keeps, OnlyMoves, RunStays
  <2>6. TimingReapedInTurn'
    BY <1>0, <1>a, <2>t, <2>r DEF TimingTypeOK, ThreadTypes, SessTypes, TimingReapedInTurn,
       Opened, Threads, Subroutine, Returns, Measures, Passing, TimingReaped, ReapedTo, Owes,
       Fails, Keeps, OnlyMoves, RunStays
  <2> QED
    BY <2>1, <2>2, <2>3, <2>4, <2>5, <2>6 DEF TimingInv
<1> QED
  BY <1>1, <1>2 DEF T!Ask

\* What is read is the only answer owed, or the channel is cut.
LEMMA TimingAnswer == ASSUME TimingInv, T!Answer PROVE TimingInv'
<1> USE DEF T!Session, T!Thread, T!Timer, T!S, T!At
<1>0. TimingTypeOK /\ Threads /\ Opened /\ CleanIsFinal /\ LineCounted /\ TimingReapedInTurn
  BY DEF TimingInv
<1>a. /\ th["main"].at = "answer" /\ th["main"].s \in T!Session
      /\ UNCHANGED <<job, box, sess, own, lost>>
  BY <1>0 DEF T!Answer, TimingTypeOK, ThreadTypes
<1>o. OwnStays
  BY <1>0 DEF TimingTypeOK, OtherTypes, OwnStays, T!Answer
<1>1. CASE T!Read(th["main"].s) /\ T!Go("main", "ask")
  <2>t. Goes("main", "ask")
    BY <1>0, <1>1, ThreadGoes DEF TimingTypeOK
  <2>xo. line[th["main"].s].owed = 1
    BY <1>0, <1>a, <1>1 DEF LineCounted, Owes, T!Read
  <2>xs. run'.stale = (run.stale \/ line[th["main"].s].owed > 1)
    BY <1>0, <1>1 DEF TimingTypeOK, OtherTypes, T!Read
  <2>xd. DOMAIN run' = DOMAIN run /\ run'.file = run.file /\ run'.report = run.report
    BY <1>0, <1>1 DEF TimingTypeOK, OtherTypes, T!Read
  <2>xe. run'.err = run.err
    BY <1>0, <1>1 DEF TimingTypeOK, OtherTypes, T!Read
  <2>xg. ~(line[th["main"].s].owed > 1)
    BY <2>xo
  <2>xf. run'.stale => run.stale
    BY <2>xg, <2>xs
  <2>l. /\ LineOnly(th["main"].s) /\ line'[th["main"].s].chan = line[th["main"].s].chan
        /\ line'[th["main"].s].owed = line[th["main"].s].owed - 1 /\ line[th["main"].s].owed = 1
    BY <1>0, <1>a, <2>xo, <1>1 DEF TimingTypeOK, LineTypes, LineOnly, T!Read
  <2>r. RunStays /\ run'.err = run.err
    BY <2>xd, <2>xe, <2>xf DEF RunStays
  <2>1. TimingTypeOK'
    <3>1. ThreadTypes'
      BY <1>0, <2>t, GoesTyped DEF TimingTypeOK, Place
    <3>2. LineTypes'
      BY <1>0, <1>a, <2>l, LineTyped DEF TimingTypeOK, LineTypes
    <3> QED
      BY <1>0, <3>1, <1>a, <3>2, <1>o, <2>r, OtherTyped DEF TimingTypeOK, SessTypes, BoxTypes
  <2>2. Threads'
    BY <1>0, <1>a, <2>t, <1>o DEF TimingTypeOK, ThreadTypes, SessTypes, Threads, Subroutine,
       Returns, Measures, Passing, TimingReaped, ReapedTo, Owes, Goes, Keeps, OnlyMoves,
       OwnStays
  <2>3. Opened'
    BY <1>0, <1>a, <2>t, <2>l DEF TimingTypeOK, BoxTypes, SessTypes, LineTypes, ThreadTypes,
       Opened, Threads, Subroutine, Returns, Measures, Passing, TimingReaped, ReapedTo, Owes,
       Goes, Keeps, OnlyMoves, LineOnly
  <2>k. Kept
    BY <1>0, <1>a, <1>o DEF Kept, TimingTypeOK, BoxTypes, SessTypes, ThreadTypes, Opened,
       Threads, OwnStays
  <2>n. Founded
    BY <1>0, <1>a, <2>t, <1>o, <2>r DEF Founded, CleanIsFinal, TimingTypeOK, ThreadTypes,
       SessTypes, Goes, Keeps, OnlyMoves, OwnStays, RunStays
  <2>4. CleanIsFinal'
    BY <1>0, <2>k, <2>n, CleanStays
  <2>5. LineCounted'
    BY <1>0, <1>a, <2>t, <2>l, <2>r DEF TimingTypeOK, ThreadTypes, LineTypes, LineCounted,
       Opened, Threads, Owes, Goes, Keeps, OnlyMoves, RunStays, LineOnly
  <2>6. TimingReapedInTurn'
    BY <1>0, <1>a, <2>t, <2>r DEF TimingTypeOK, ThreadTypes, SessTypes, TimingReapedInTurn,
       Opened, Threads, Subroutine, Returns, Measures, Passing, TimingReaped, ReapedTo, Owes,
       Goes, Keeps, OnlyMoves, RunStays
  <2> QED
    BY <2>1, <2>2, <2>3, <2>4, <2>5, <2>6 DEF TimingInv
<1>2. CASE T!Fail("main", "asked") /\ T!Raise
         /\ line' = [line EXCEPT ![th["main"].s].busy = "nobody", ![th["main"].s].chan = "cut"]
  <2>t. Fails("main", "asked")
    BY <1>0, <1>2, ThreadFails DEF TimingTypeOK
  <2>l. /\ LineOnly(th["main"].s) /\ line'[th["main"].s].chan = "cut"
        /\ line'[th["main"].s].owed = line[th["main"].s].owed
    BY <1>0, <1>a, <1>2 DEF TimingTypeOK, LineTypes, LineOnly
  <2>r. RunStays /\ run'.err
    BY <1>0, <1>2 DEF TimingTypeOK, OtherTypes, RunStays, T!Raise
  <2>1. TimingTypeOK'
    <3>1. ThreadTypes'
      BY <1>0, <2>t, FailsTyped DEF TimingTypeOK, ThreadTypes, Follows
    <3>2. LineTypes'
      BY <1>0, <1>a, <2>l, LineTyped DEF TimingTypeOK, LineTypes
    <3> QED
      BY <1>0, <3>1, <1>a, <3>2, <1>o, <2>r, OtherTyped DEF TimingTypeOK, SessTypes, BoxTypes
  <2>2. Threads'
    BY <1>0, <1>a, <2>t, <1>o DEF TimingTypeOK, ThreadTypes, SessTypes, Threads, Subroutine,
       Returns, Measures, Passing, TimingReaped, ReapedTo, Owes, Fails, Keeps, OnlyMoves,
       OwnStays
  <2>3. Opened'
    BY <1>0, <1>a, <2>t, <2>l DEF TimingTypeOK, BoxTypes, SessTypes, LineTypes, ThreadTypes,
       Opened, Threads, Subroutine, Returns, Measures, Passing, TimingReaped, ReapedTo, Owes,
       Fails, Keeps, OnlyMoves, LineOnly
  <2>k. Kept
    BY <1>0, <1>a, <1>o DEF Kept, TimingTypeOK, BoxTypes, SessTypes, ThreadTypes, Opened,
       Threads, OwnStays
  <2>n. Founded
    BY <1>0, <1>a, <2>t, <1>o, <2>r DEF Founded, CleanIsFinal, TimingTypeOK, ThreadTypes,
       SessTypes, Fails, Keeps, OnlyMoves, OwnStays, RunStays
  <2>4. CleanIsFinal'
    BY <1>0, <2>k, <2>n, CleanStays
  <2>5. LineCounted'
    BY <1>0, <1>a, <2>t, <2>l, <2>r DEF TimingTypeOK, ThreadTypes, LineTypes, LineCounted,
       Opened, Threads, Owes, Fails, Keeps, OnlyMoves, RunStays, LineOnly
  <2>6. TimingReapedInTurn'
    BY <1>0, <1>a, <2>t, <2>r DEF TimingTypeOK, ThreadTypes, SessTypes, TimingReapedInTurn,
       Opened, Threads, Subroutine, Returns, Measures, Passing, TimingReaped, ReapedTo, Owes,
       Fails, Keeps, OnlyMoves, RunStays
  <2> QED
    BY <2>1, <2>2, <2>3, <2>4, <2>5, <2>6 DEF TimingInv
<1> QED
  BY <1>1, <1>2 DEF T!Answer

\* Main goes on to the close of its session, or to the next one.
LEMMA TimingEnough == ASSUME TimingInv, T!Enough PROVE TimingInv'
<1> USE DEF T!Session, T!Thread, T!Timer, T!S, T!At
<1>0. TimingTypeOK /\ Threads /\ Opened /\ CleanIsFinal /\ LineCounted /\ TimingReapedInTurn
  BY DEF TimingInv
<1>a. /\ th["main"].at \in {"ask", "asked"} /\ th["main"].s \in T!Session
      /\ 1 \in T!Session /\ UNCHANGED <<job, box, sess, line, own, lost, run>>
  BY <1>0, MeasurementAssumption DEF T!Enough, TimingTypeOK, ThreadTypes
<1>o. OwnStays
  BY <1>0 DEF TimingTypeOK, OtherTypes, OwnStays, T!Enough
<1>r. RunStays /\ run'.err = run.err
  BY <1>a DEF RunStays
<1>1. CASE th["main"].s = 0 /\ job = "stage0"
         /\ th' = [th EXCEPT !["main"].at = IF run.err THEN "measured" ELSE "open", !["main"].s = 1]
  <2>t. /\ OnlyMoves("main") /\ th["main"].s = 0 /\ th'["main"].s = 1
        /\ th'["main"].at = (IF run.err THEN "measured" ELSE "open")
        /\ th'["main"].then = th["main"].then /\ th'["main"].todo = th["main"].todo
    BY <1>0, <1>1 DEF TimingTypeOK, ThreadTypes, OnlyMoves, Keeps
  <2>1. TimingTypeOK'
    <3>1. ThreadTypes'
      BY <1>0, <1>a, <2>t, ThreadTyped DEF TimingTypeOK, ThreadTypes, Place, Follows, Keeps
    <3> QED
      BY <1>0, <3>1, <1>a, <1>o, <1>r, OtherTyped DEF TimingTypeOK, SessTypes, LineTypes,
         BoxTypes
  <2>2. Threads'
    BY <1>0, <1>a, <2>t, <1>o DEF TimingTypeOK, ThreadTypes, SessTypes, Threads, Subroutine,
       Returns, Measures, Passing, TimingReaped, ReapedTo, Owes, OnlyMoves, OwnStays
  <2>3. Opened'
    BY <1>0, <1>a, <2>t DEF TimingTypeOK, BoxTypes, SessTypes, LineTypes, ThreadTypes, Opened,
       Threads, Subroutine, Returns, Measures, Passing, TimingReaped, ReapedTo, Owes, OnlyMoves
  <2>k. Kept
    BY <1>0, <1>a, <1>o DEF Kept, TimingTypeOK, BoxTypes, SessTypes, ThreadTypes, Opened,
       Threads, OwnStays
  <2>n. Founded
    BY <1>0, <1>a, <2>t, <1>o, <1>r DEF Founded, CleanIsFinal, TimingTypeOK, ThreadTypes,
       SessTypes, OnlyMoves, OwnStays, RunStays
  <2>4. CleanIsFinal'
    BY <1>0, <2>k, <2>n, CleanStays
  <2>5. LineCounted'
    BY <1>0, <1>a, <2>t, <1>r DEF TimingTypeOK, ThreadTypes, LineTypes, LineCounted, Opened,
       Threads, Owes, OnlyMoves, RunStays
  <2>6. TimingReapedInTurn'
    BY <1>0, <1>a, <2>t, <1>r DEF TimingTypeOK, ThreadTypes, SessTypes, TimingReapedInTurn,
       Opened, Threads, Subroutine, Returns, Measures, Passing, TimingReaped, ReapedTo, Owes,
       OnlyMoves, RunStays
  <2> QED
    BY <2>1, <2>2, <2>3, <2>4, <2>5, <2>6 DEF TimingInv
<1>2. CASE th["main"].s = 0 /\ th' = [th EXCEPT !["main"].at = "shut", !["main"].then = "next"]
  <2>t. Keeps("main") /\ th'["main"].at = "shut" /\ th'["main"].then = "next"
    BY <1>0, <1>2 DEF TimingTypeOK, ThreadTypes, OnlyMoves, Keeps
  <2>1. TimingTypeOK'
    <3>1. ThreadTypes'
      BY <1>0, <1>a, <2>t, ThreadTyped DEF TimingTypeOK, ThreadTypes, Place, Follows, Keeps
    <3> QED
      BY <1>0, <3>1, <1>a, <1>o, <1>r, OtherTyped DEF TimingTypeOK, SessTypes, LineTypes,
         BoxTypes
  <2>2. Threads'
    BY <1>0, <1>a, <2>t, <1>o DEF TimingTypeOK, ThreadTypes, SessTypes, Threads, Subroutine,
       Returns, Measures, Passing, TimingReaped, ReapedTo, Owes, Keeps, OnlyMoves, OwnStays
  <2>3. Opened'
    BY <1>0, <1>a, <2>t DEF TimingTypeOK, BoxTypes, SessTypes, LineTypes, ThreadTypes, Opened,
       Threads, Subroutine, Returns, Measures, Passing, TimingReaped, ReapedTo, Owes, Keeps,
       OnlyMoves
  <2>k. Kept
    BY <1>0, <1>a, <1>o DEF Kept, TimingTypeOK, BoxTypes, SessTypes, ThreadTypes, Opened,
       Threads, OwnStays
  <2>n. Founded
    BY <1>0, <1>a, <2>t, <1>o, <1>r DEF Founded, CleanIsFinal, TimingTypeOK, ThreadTypes,
       SessTypes, Keeps, OnlyMoves, OwnStays, RunStays
  <2>4. CleanIsFinal'
    BY <1>0, <2>k, <2>n, CleanStays
  <2>5. LineCounted'
    BY <1>0, <1>a, <2>t, <1>r DEF TimingTypeOK, ThreadTypes, LineTypes, LineCounted, Opened,
       Threads, Owes, Keeps, OnlyMoves, RunStays
  <2>6. TimingReapedInTurn'
    BY <1>0, <1>a, <2>t, <1>r DEF TimingTypeOK, ThreadTypes, SessTypes, TimingReapedInTurn,
       Opened, Threads, Subroutine, Returns, Measures, Passing, TimingReaped, ReapedTo, Owes,
       Keeps, OnlyMoves, RunStays
  <2> QED
    BY <2>1, <2>2, <2>3, <2>4, <2>5, <2>6 DEF TimingInv
<1>3. CASE th["main"].s # 0 /\ th' = [th EXCEPT !["main"].at = "close", !["main"].then = "next"]
  <2>t. Keeps("main") /\ th'["main"].at = "close" /\ th'["main"].then = "next"
    BY <1>0, <1>3 DEF TimingTypeOK, ThreadTypes, OnlyMoves, Keeps
  <2>1. TimingTypeOK'
    <3>1. ThreadTypes'
      BY <1>0, <1>a, <2>t, ThreadTyped DEF TimingTypeOK, ThreadTypes, Place, Follows, Keeps
    <3> QED
      BY <1>0, <3>1, <1>a, <1>o, <1>r, OtherTyped DEF TimingTypeOK, SessTypes, LineTypes,
         BoxTypes
  <2>2. Threads'
    BY <1>0, <1>a, <2>t, <1>o DEF TimingTypeOK, ThreadTypes, SessTypes, Threads, Subroutine,
       Returns, Measures, Passing, TimingReaped, ReapedTo, Owes, Keeps, OnlyMoves, OwnStays
  <2>3. Opened'
    BY <1>0, <1>a, <2>t DEF TimingTypeOK, BoxTypes, SessTypes, LineTypes, ThreadTypes, Opened,
       Threads, Subroutine, Returns, Measures, Passing, TimingReaped, ReapedTo, Owes, Keeps,
       OnlyMoves
  <2>k. Kept
    BY <1>0, <1>a, <1>o DEF Kept, TimingTypeOK, BoxTypes, SessTypes, ThreadTypes, Opened,
       Threads, OwnStays
  <2>n. Founded
    BY <1>0, <1>a, <2>t, <1>o, <1>r DEF Founded, CleanIsFinal, TimingTypeOK, ThreadTypes,
       SessTypes, Keeps, OnlyMoves, OwnStays, RunStays
  <2>4. CleanIsFinal'
    BY <1>0, <2>k, <2>n, CleanStays
  <2>5. LineCounted'
    BY <1>0, <1>a, <2>t, <1>r DEF TimingTypeOK, ThreadTypes, LineTypes, LineCounted, Opened,
       Threads, Owes, Keeps, OnlyMoves, RunStays
  <2>6. TimingReapedInTurn'
    BY <1>0, <1>a, <2>t, <1>r DEF TimingTypeOK, ThreadTypes, SessTypes, TimingReapedInTurn,
       Opened, Threads, Subroutine, Returns, Measures, Passing, TimingReaped, ReapedTo, Owes,
       Keeps, OnlyMoves, RunStays
  <2> QED
    BY <2>1, <2>2, <2>3, <2>4, <2>5, <2>6 DEF TimingInv
<1> QED
  BY <1>1, <1>2, <1>3 DEF T!Enough

\* An exception before the requests.
LEMMA TimingAbandon == ASSUME TimingInv, T!Abandon PROVE TimingInv'
<1> USE DEF T!Session, T!Thread, T!Timer, T!S, T!At
<1>0. TimingTypeOK /\ Threads /\ Opened /\ CleanIsFinal /\ LineCounted /\ TimingReapedInTurn
  BY DEF TimingInv
<1>a. /\ th["main"].at = "ask" /\ th["main"].s \in T!Session
      /\ UNCHANGED <<job, box, sess, line, own, lost>>
  BY <1>0 DEF T!Abandon, TimingTypeOK, ThreadTypes
<1>x. T!Go("main", "measured") /\ T!Raise
  BY DEF T!Abandon
<1>o. OwnStays
  BY <1>0 DEF TimingTypeOK, OtherTypes, OwnStays, T!Abandon
<1>t. Goes("main", "measured")
  BY <1>0, <1>x, ThreadGoes DEF TimingTypeOK
<1>r. RunStays /\ run'.err
  BY <1>0, <1>x DEF TimingTypeOK, OtherTypes, RunStays, T!Raise
<1>1. TimingTypeOK'
  <2>1. ThreadTypes'
    BY <1>0, <1>t, GoesTyped DEF TimingTypeOK, Place
  <2> QED
    BY <1>0, <2>1, <1>a, <1>o, <1>r, OtherTyped DEF TimingTypeOK, SessTypes, LineTypes, BoxTypes
<1>2. Threads'
  BY <1>0, <1>a, <1>t, <1>o DEF TimingTypeOK, ThreadTypes, SessTypes, Threads, Subroutine,
     Returns, Measures, Passing, TimingReaped, ReapedTo, Owes, Goes, Keeps, OnlyMoves, OwnStays
<1>3. Opened'
  BY <1>0, <1>a, <1>t DEF TimingTypeOK, BoxTypes, SessTypes, LineTypes, ThreadTypes, Opened,
     Threads, Subroutine, Returns, Measures, Passing, TimingReaped, ReapedTo, Owes, Goes,
     Keeps, OnlyMoves
<1>k. Kept
  BY <1>0, <1>a, <1>o DEF Kept, TimingTypeOK, BoxTypes, SessTypes, ThreadTypes, Opened,
     Threads, OwnStays
<1>n. Founded
  BY <1>0, <1>a, <1>t, <1>o, <1>r DEF Founded, CleanIsFinal, TimingTypeOK, ThreadTypes,
     SessTypes, Goes, Keeps, OnlyMoves, OwnStays, RunStays
<1>4. CleanIsFinal'
  BY <1>0, <1>k, <1>n, CleanStays
<1>5. LineCounted'
  BY <1>0, <1>a, <1>t, <1>r DEF TimingTypeOK, ThreadTypes, LineTypes, LineCounted, Opened,
     Threads, Owes, Goes, Keeps, OnlyMoves, RunStays
<1>6. TimingReapedInTurn'
  BY <1>0, <1>a, <1>t, <1>r DEF TimingTypeOK, ThreadTypes, SessTypes, TimingReapedInTurn,
     Opened, Threads, Subroutine, Returns, Measures, Passing, TimingReaped, ReapedTo, Owes,
     Goes, Keeps, OnlyMoves, RunStays
<1> QED
  BY <1>1, <1>2, <1>3, <1>4, <1>5, <1>6 DEF TimingInv

\* Only a process that was reaped has a successor.
LEMMA TimingNextProcess == ASSUME TimingInv, T!NextProcess PROVE TimingInv'
<1> USE DEF T!Session, T!Thread, T!Timer, T!S, T!At
<1>0. TimingTypeOK /\ Threads /\ Opened /\ CleanIsFinal /\ LineCounted /\ TimingReapedInTurn
  BY DEF TimingInv
<1>a. /\ th["main"].at = "next" /\ th["main"].s \in T!Session /\ Workloads \in Nat \ {0}
      /\ UNCHANGED <<job, box, sess, line, own, lost>>
  BY <1>0, MeasurementAssumption DEF T!NextProcess, TimingTypeOK, ThreadTypes
<1>o. OwnStays
  BY <1>0 DEF TimingTypeOK, OtherTypes, OwnStays, T!NextProcess
<1>1. CASE ~run.err /\ (th["main"].s = 0 \/ sess[th["main"].s].reaped) /\ th["main"].s < Workloads
         /\ th' = [th EXCEPT !["main"].at = "open", !["main"].s = th["main"].s + 1]
         /\ run' = [run EXCEPT !.err = FALSE]
  <2>t. /\ OnlyMoves("main") /\ th'["main"].at = "open" /\ th'["main"].s = th["main"].s + 1
        /\ th'["main"].s \in T!Session
        /\ th'["main"].then = th["main"].then /\ th'["main"].todo = th["main"].todo
    BY <1>0, <1>a, <1>1 DEF TimingTypeOK, ThreadTypes, OnlyMoves, Keeps
  <2>f. ~run.err /\ (th["main"].s = 0 \/ sess[th["main"].s].reaped)
    BY <1>1
  <2>r. RunStays /\ ~run'.err
    BY <1>0, <1>1 DEF TimingTypeOK, OtherTypes, RunStays
  <2>1. TimingTypeOK'
    <3>1. ThreadTypes'
      BY <1>0, <1>a, <2>t, ThreadTyped DEF TimingTypeOK, ThreadTypes, Place, Follows, Keeps
    <3> QED
      BY <1>0, <3>1, <2>f, <1>a, <1>o, <2>r, OtherTyped DEF TimingTypeOK, SessTypes, LineTypes,
         BoxTypes
  <2>2. Threads'
    BY <1>0, <2>f, <1>a, <2>t, <1>o DEF TimingTypeOK, ThreadTypes, SessTypes, Threads,
       Subroutine, Returns, Measures, Passing, TimingReaped, ReapedTo, Owes, OnlyMoves, OwnStays
  <2>3. Opened'
    BY <1>0, <2>f, <1>a, <2>t DEF TimingTypeOK, BoxTypes, SessTypes, LineTypes, ThreadTypes,
       Opened, Threads, Subroutine, Returns, Measures, Passing, TimingReaped, ReapedTo, Owes,
       OnlyMoves
  <2>k. Kept
    BY <1>0, <2>f, <1>a, <1>o DEF Kept, TimingTypeOK, BoxTypes, SessTypes, ThreadTypes, Opened,
       Threads, OwnStays
  <2>n. Founded
    BY <1>0, <2>f, <1>a, <2>t, <1>o, <2>r DEF Founded, CleanIsFinal, TimingTypeOK, ThreadTypes,
       SessTypes, OnlyMoves, OwnStays, RunStays
  <2>4. CleanIsFinal'
    BY <1>0, <2>k, <2>n, CleanStays
  <2>5. LineCounted'
    BY <1>0, <2>f, <1>a, <2>t, <2>r DEF TimingTypeOK, ThreadTypes, LineTypes, LineCounted,
       Opened, Threads, Owes, OnlyMoves, RunStays
  <2>6. TimingReapedInTurn'
    BY <1>0, <2>f, <1>a, <2>t, <2>r DEF TimingTypeOK, ThreadTypes, SessTypes,
       TimingReapedInTurn, Opened, Threads, Subroutine, Returns, Measures, Passing,
       TimingReaped, ReapedTo, Owes, OnlyMoves, RunStays
  <2> QED
    BY <2>1, <2>2, <2>3, <2>4, <2>5, <2>6 DEF TimingInv
<1>2. CASE ~run.err /\ (th["main"].s = 0 \/ sess[th["main"].s].reaped)
         /\ ~(th["main"].s < Workloads)
         /\ T!Go("main", "measured") /\ run' = [run EXCEPT !.err = FALSE]
  <2>t. Goes("main", "measured")
    BY <1>0, <1>2, ThreadGoes DEF TimingTypeOK
  <2>f. ~run.err /\ (th["main"].s = 0 \/ sess[th["main"].s].reaped) /\ th["main"].s = Workloads
    BY <1>a, <1>2
  <2>r. RunStays /\ ~run'.err
    BY <1>0, <1>2 DEF TimingTypeOK, OtherTypes, RunStays
  <2>1. TimingTypeOK'
    <3>1. ThreadTypes'
      BY <1>0, <2>t, GoesTyped DEF TimingTypeOK, Place
    <3> QED
      BY <1>0, <3>1, <2>f, <1>a, <1>o, <2>r, OtherTyped DEF TimingTypeOK, SessTypes, LineTypes,
         BoxTypes
  <2>2. Threads'
    BY <1>0, <2>f, <1>a, <2>t, <1>o DEF TimingTypeOK, ThreadTypes, SessTypes, Threads,
       Subroutine, Returns, Measures, Passing, TimingReaped, ReapedTo, Owes, Goes, Keeps,
       OnlyMoves, OwnStays
  <2>3. Opened'
    BY <1>0, <2>f, <1>a, <2>t DEF TimingTypeOK, BoxTypes, SessTypes, LineTypes, ThreadTypes,
       Opened, Threads, Subroutine, Returns, Measures, Passing, TimingReaped, ReapedTo, Owes,
       Goes, Keeps, OnlyMoves
  <2>k. Kept
    BY <1>0, <2>f, <1>a, <1>o DEF Kept, TimingTypeOK, BoxTypes, SessTypes, ThreadTypes, Opened,
       Threads, OwnStays
  <2>n. Founded
    BY <1>0, <2>f, <1>a, <2>t, <1>o, <2>r DEF Founded, CleanIsFinal, TimingTypeOK, ThreadTypes,
       SessTypes, Goes, Keeps, OnlyMoves, OwnStays, RunStays
  <2>4. CleanIsFinal'
    BY <1>0, <2>k, <2>n, CleanStays
  <2>5. LineCounted'
    BY <1>0, <2>f, <1>a, <2>t, <2>r DEF TimingTypeOK, ThreadTypes, LineTypes, LineCounted,
       Opened, Threads, Owes, Goes, Keeps, OnlyMoves, RunStays
  <2>6. TimingReapedInTurn'
    BY <1>0, <2>f, <1>a, <2>t, <2>r DEF TimingTypeOK, ThreadTypes, SessTypes,
       TimingReapedInTurn, Opened, Threads, Subroutine, Returns, Measures, Passing,
       TimingReaped, ReapedTo, Owes, Goes, Keeps, OnlyMoves, RunStays
  <2> QED
    BY <2>1, <2>2, <2>3, <2>4, <2>5, <2>6 DEF TimingInv
<1>3. CASE T!Go("main", "measured") /\ run' = [run EXCEPT !.err = TRUE]
  <2>t. Goes("main", "measured")
    BY <1>0, <1>3, ThreadGoes DEF TimingTypeOK
  <2>r. RunStays /\ run'.err
    BY <1>0, <1>3 DEF TimingTypeOK, OtherTypes, RunStays
  <2>1. TimingTypeOK'
    <3>1. ThreadTypes'
      BY <1>0, <2>t, GoesTyped DEF TimingTypeOK, Place
    <3> QED
      BY <1>0, <3>1, <1>a, <1>o, <2>r, OtherTyped DEF TimingTypeOK, SessTypes, LineTypes,
         BoxTypes
  <2>2. Threads'
    BY <1>0, <1>a, <2>t, <1>o DEF TimingTypeOK, ThreadTypes, SessTypes, Threads, Subroutine,
       Returns, Measures, Passing, TimingReaped, ReapedTo, Owes, Goes, Keeps, OnlyMoves,
       OwnStays
  <2>3. Opened'
    BY <1>0, <1>a, <2>t DEF TimingTypeOK, BoxTypes, SessTypes, LineTypes, ThreadTypes, Opened,
       Threads, Subroutine, Returns, Measures, Passing, TimingReaped, ReapedTo, Owes, Goes,
       Keeps, OnlyMoves
  <2>k. Kept
    BY <1>0, <1>a, <1>o DEF Kept, TimingTypeOK, BoxTypes, SessTypes, ThreadTypes, Opened,
       Threads, OwnStays
  <2>n. Founded
    BY <1>0, <1>a, <2>t, <1>o, <2>r DEF Founded, CleanIsFinal, TimingTypeOK, ThreadTypes,
       SessTypes, Goes, Keeps, OnlyMoves, OwnStays, RunStays
  <2>4. CleanIsFinal'
    BY <1>0, <2>k, <2>n, CleanStays
  <2>5. LineCounted'
    BY <1>0, <1>a, <2>t, <2>r DEF TimingTypeOK, ThreadTypes, LineTypes, LineCounted, Opened,
       Threads, Owes, Goes, Keeps, OnlyMoves, RunStays
  <2>6. TimingReapedInTurn'
    BY <1>0, <1>a, <2>t, <2>r DEF TimingTypeOK, ThreadTypes, SessTypes, TimingReapedInTurn,
       Opened, Threads, Subroutine, Returns, Measures, Passing, TimingReaped, ReapedTo, Owes,
       Goes, Keeps, OnlyMoves, RunStays
  <2> QED
    BY <2>1, <2>2, <2>3, <2>4, <2>5, <2>6 DEF TimingInv
<1> QED
  BY <1>1, <1>2, <1>3 DEF T!NextProcess, T!Go

\* Stage 0 files: all were reaped, or there is an error.
LEMMA TimingMeasured == ASSUME TimingInv, T!Measured PROVE TimingInv'
<1> USE DEF T!Session, T!Thread, T!Timer, T!S, T!At
<1>0. TimingTypeOK /\ Threads /\ Opened /\ CleanIsFinal /\ LineCounted /\ TimingReapedInTurn
  BY DEF TimingInv
<1>a. /\ th["main"].at = "measured" /\ th["main"].s \in T!Session
      /\ UNCHANGED <<job, box, sess, line, own, lost>>
  BY <1>0 DEF T!Measured, TimingTypeOK, ThreadTypes
<1>x. T!Go("main", "finish")
      /\ run' = [run EXCEPT !.file = IF job = "stage0" /\ ~run.err THEN "evidence" ELSE @]
  BY DEF T!Measured
<1>o. OwnStays
  BY <1>0 DEF TimingTypeOK, OtherTypes, OwnStays, T!Measured
<1>r. /\ DOMAIN run' = DOMAIN run /\ run'.report = run.report /\ run'.stale = run.stale
      /\ run'.err = run.err
      /\ run'.file = run.file \/ (run'.file = "evidence" /\ job = "stage0" /\ ~run.err)
  BY <1>0, <1>x DEF TimingTypeOK, OtherTypes
<1>t. Goes("main", "finish")
  BY <1>0, <1>x, ThreadGoes DEF TimingTypeOK
<1>1. TimingTypeOK'
  <2>1. ThreadTypes'
    BY <1>0, <1>t, GoesTyped DEF TimingTypeOK, Place
  <2>2. OtherTypes'
    BY <1>0, <1>a, <1>o, <1>r DEF TimingTypeOK, OtherTypes, OwnStays, RunStays
  <2> QED
    BY <1>0, <2>1, <1>a, <2>2 DEF TimingTypeOK, SessTypes, LineTypes, BoxTypes
<1>2. Threads'
  BY <1>0, <1>a, <1>t, <1>o DEF TimingTypeOK, ThreadTypes, SessTypes, Threads, Subroutine,
     Returns, Measures, Passing, TimingReaped, ReapedTo, Owes, Goes, Keeps, OnlyMoves, OwnStays
<1>3. Opened'
  BY <1>0, <1>a, <1>t DEF TimingTypeOK, BoxTypes, SessTypes, LineTypes, ThreadTypes, Opened,
     Threads, Subroutine, Returns, Measures, Passing, TimingReaped, ReapedTo, Owes, Goes,
     Keeps, OnlyMoves
<1>k. Kept
  BY <1>0, <1>a, <1>o DEF Kept, TimingTypeOK, BoxTypes, SessTypes, ThreadTypes, Opened,
     Threads, OwnStays
<1>n. Founded
  BY <1>0, <1>a, <1>t, <1>o, <1>r DEF Founded, CleanIsFinal, TimingTypeOK, ThreadTypes,
     SessTypes, Goes, Keeps, OnlyMoves, OwnStays
<1>4. CleanIsFinal'
  BY <1>0, <1>k, <1>n, CleanStays
<1>5. LineCounted'
  BY <1>0, <1>a, <1>t, <1>r DEF TimingTypeOK, ThreadTypes, LineTypes, LineCounted, Opened,
     Threads, Owes, Goes, Keeps, OnlyMoves
<1>6. TimingReapedInTurn'
  BY <1>0, <1>a, <1>t, <1>r DEF TimingTypeOK, ThreadTypes, SessTypes, TimingReapedInTurn,
     Opened, Threads, Subroutine, Returns, Measures, Passing, TimingReaped, ReapedTo, Owes,
     Goes, Keeps, OnlyMoves
<1> QED
  BY <1>1, <1>2, <1>3, <1>4, <1>5, <1>6 DEF TimingInv

\* A verdict is clean only if everything is final.
LEMMA TimingJudged == ASSUME TimingInv, T!Judged PROVE TimingInv'
<1> USE DEF T!Session, T!Thread, T!Timer, T!S, T!At
<1>0. TimingTypeOK /\ Threads /\ Opened /\ CleanIsFinal /\ LineCounted /\ TimingReapedInTurn
  BY DEF TimingInv
<1>a. /\ th["main"].at = "judged" /\ th["main"].s \in T!Session
      /\ UNCHANGED <<job, box, sess, line, lost>>
  BY <1>0 DEF T!Judged, TimingTypeOK, ThreadTypes
<1>o. /\ DOMAIN own' = DOMAIN own
      /\ own'.closing = own.closing /\ own'.fenced = own.fenced
      /\ own'.cache \in {own.cache, "dirty"} \/ (own'.cache = "clean" /\ th["main"].ok)
  BY <1>0 DEF TimingTypeOK, OtherTypes, T!Judged
<1>1. CASE job = "m1" /\ ~run.err /\ th["main"].ok /\ T!Go("main", "over")
         /\ run' = [run EXCEPT !.file = "evidence", !.report = "clean"]
  <2>t. Goes("main", "over")
    BY <1>0, <1>1, ThreadGoes DEF TimingTypeOK
  <2>r. /\ DOMAIN run' = DOMAIN run /\ run'.stale = run.stale
        /\ run'.err = run.err /\ run'.file = "evidence" /\ run'.report = "clean"
    BY <1>0, <1>1 DEF TimingTypeOK, OtherTypes
  <2>f. ~run.err /\ th["main"].ok
    BY <1>1
  <2>1. TimingTypeOK'
    <3>1. ThreadTypes'
      BY <1>0, <2>t, GoesTyped DEF TimingTypeOK, Place
    <3>2. OtherTypes'
      BY <1>0, <1>a, <1>o, <2>r DEF TimingTypeOK, OtherTypes, OwnStays, RunStays
    <3> QED
      BY <1>0, <3>1, <2>f, <1>a, <3>2 DEF TimingTypeOK, SessTypes, LineTypes, BoxTypes
  <2>2. Threads'
    BY <1>0, <2>f, <1>a, <2>t, <1>o DEF TimingTypeOK, ThreadTypes, SessTypes, Threads,
       Subroutine, Returns, Measures, Passing, TimingReaped, ReapedTo, Owes, Goes, Keeps,
       OnlyMoves
  <2>3. Opened'
    BY <1>0, <2>f, <1>a, <2>t DEF TimingTypeOK, BoxTypes, SessTypes, LineTypes, ThreadTypes,
       Opened, Threads, Subroutine, Returns, Measures, Passing, TimingReaped, ReapedTo, Owes,
       Goes, Keeps, OnlyMoves
  <2>k. Kept
    BY <1>0, <2>f, <1>a, <1>o DEF Kept, TimingTypeOK, BoxTypes, SessTypes, ThreadTypes, Opened,
       Threads
  <2>n. Founded
    BY <1>0, <2>f, <1>a, <2>t, <1>o, <2>r DEF Founded, CleanIsFinal, TimingTypeOK, ThreadTypes,
       SessTypes, Goes, Keeps, OnlyMoves
  <2>4. CleanIsFinal'
    BY <1>0, <2>k, <2>n, CleanStays
  <2>5. LineCounted'
    BY <1>0, <2>f, <1>a, <2>t, <2>r DEF TimingTypeOK, ThreadTypes, LineTypes, LineCounted,
       Opened, Threads, Owes, Goes, Keeps, OnlyMoves
  <2>6. TimingReapedInTurn'
    BY <1>0, <2>f, <1>a, <2>t, <2>r DEF TimingTypeOK, ThreadTypes, SessTypes,
       TimingReapedInTurn, Opened, Threads, Subroutine, Returns, Measures, Passing,
       TimingReaped, ReapedTo, Owes, Goes, Keeps, OnlyMoves
  <2> QED
    BY <2>1, <2>2, <2>3, <2>4, <2>5, <2>6 DEF TimingInv
<1>2. CASE job = "stage0" /\ T!Go("main", "adapter")
         /\ \/ ~run.err /\ th["main"].ok /\ run' = [run EXCEPT !.err = FALSE, !.round = 2]
            \/ run' = [run EXCEPT !.err = TRUE, !.round = 2]
  <2>t. Goes("main", "adapter")
    BY <1>0, <1>2, ThreadGoes DEF TimingTypeOK
  <2>r. /\ DOMAIN run' = DOMAIN run /\ run'.stale = run.stale /\ job = "stage0"
        /\ (run'.err \/ ~run.err) /\ run'.file = run.file /\ run'.report = run.report
    BY <1>0, <1>2 DEF TimingTypeOK, OtherTypes
  <2>1. TimingTypeOK'
    <3>1. ThreadTypes'
      BY <1>0, <2>t, GoesTyped DEF TimingTypeOK, Place
    <3>2. OtherTypes'
      BY <1>0, <1>a, <1>o, <2>r DEF TimingTypeOK, OtherTypes, OwnStays, RunStays
    <3> QED
      BY <1>0, <3>1, <1>a, <3>2 DEF TimingTypeOK, SessTypes, LineTypes, BoxTypes
  <2>2. Threads'
    BY <1>0, <1>a, <2>t, <1>o DEF TimingTypeOK, ThreadTypes, SessTypes, Threads, Subroutine,
       Returns, Measures, Passing, TimingReaped, ReapedTo, Owes, Goes, Keeps, OnlyMoves
  <2>3. Opened'
    BY <1>0, <1>a, <2>t DEF TimingTypeOK, BoxTypes, SessTypes, LineTypes, ThreadTypes, Opened,
       Threads, Subroutine, Returns, Measures, Passing, TimingReaped, ReapedTo, Owes, Goes,
       Keeps, OnlyMoves
  <2>k. Kept
    BY <1>0, <1>a, <1>o DEF Kept, TimingTypeOK, BoxTypes, SessTypes, ThreadTypes, Opened,
       Threads
  <2>n. Founded
    BY <1>0, <1>a, <2>t, <1>o, <2>r DEF Founded, CleanIsFinal, TimingTypeOK, ThreadTypes,
       SessTypes, Goes, Keeps, OnlyMoves
  <2>4. CleanIsFinal'
    BY <1>0, <2>k, <2>n, CleanStays
  <2>5. LineCounted'
    BY <1>0, <1>a, <2>t, <2>r DEF TimingTypeOK, ThreadTypes, LineTypes, LineCounted, Opened,
       Threads, Owes, Goes, Keeps, OnlyMoves
  <2>6. TimingReapedInTurn'
    BY <1>0, <1>a, <2>t, <2>r DEF TimingTypeOK, ThreadTypes, SessTypes, TimingReapedInTurn,
       Opened, Threads, Subroutine, Returns, Measures, Passing, TimingReaped, ReapedTo, Owes,
       Goes, Keeps, OnlyMoves
  <2> QED
    BY <2>1, <2>2, <2>3, <2>4, <2>5, <2>6 DEF TimingInv
<1>3. CASE job = "m1" /\ T!Go("main", "finish") /\ run' = [run EXCEPT !.err = TRUE, !.round = 2]
  <2>t. Goes("main", "finish")
    BY <1>0, <1>3, ThreadGoes DEF TimingTypeOK
  <2>r. /\ DOMAIN run' = DOMAIN run /\ run'.stale = run.stale
        /\ run'.err /\ run'.file = run.file /\ run'.report = run.report
    BY <1>0, <1>3 DEF TimingTypeOK, OtherTypes
  <2>1. TimingTypeOK'
    <3>1. ThreadTypes'
      BY <1>0, <2>t, GoesTyped DEF TimingTypeOK, Place
    <3>2. OtherTypes'
      BY <1>0, <1>a, <1>o, <2>r DEF TimingTypeOK, OtherTypes, OwnStays, RunStays
    <3> QED
      BY <1>0, <3>1, <1>a, <3>2 DEF TimingTypeOK, SessTypes, LineTypes, BoxTypes
  <2>2. Threads'
    BY <1>0, <1>a, <2>t, <1>o DEF TimingTypeOK, ThreadTypes, SessTypes, Threads, Subroutine,
       Returns, Measures, Passing, TimingReaped, ReapedTo, Owes, Goes, Keeps, OnlyMoves
  <2>3. Opened'
    BY <1>0, <1>a, <2>t DEF TimingTypeOK, BoxTypes, SessTypes, LineTypes, ThreadTypes, Opened,
       Threads, Subroutine, Returns, Measures, Passing, TimingReaped, ReapedTo, Owes, Goes,
       Keeps, OnlyMoves
  <2>k. Kept
    BY <1>0, <1>a, <1>o DEF Kept, TimingTypeOK, BoxTypes, SessTypes, ThreadTypes, Opened,
       Threads
  <2>n. Founded
    BY <1>0, <1>a, <2>t, <1>o, <2>r DEF Founded, CleanIsFinal, TimingTypeOK, ThreadTypes,
       SessTypes, Goes, Keeps, OnlyMoves
  <2>4. CleanIsFinal'
    BY <1>0, <2>k, <2>n, CleanStays
  <2>5. LineCounted'
    BY <1>0, <1>a, <2>t, <2>r DEF TimingTypeOK, ThreadTypes, LineTypes, LineCounted, Opened,
       Threads, Owes, Goes, Keeps, OnlyMoves
  <2>6. TimingReapedInTurn'
    BY <1>0, <1>a, <2>t, <2>r DEF TimingTypeOK, ThreadTypes, SessTypes, TimingReapedInTurn,
       Opened, Threads, Subroutine, Returns, Measures, Passing, TimingReaped, ReapedTo, Owes,
       Goes, Keeps, OnlyMoves
  <2> QED
    BY <2>1, <2>2, <2>3, <2>4, <2>5, <2>6 DEF TimingInv
<1>4. CASE T!Go("main", "over")
         /\ run' = [run EXCEPT !.report = IF th["main"].ok THEN "clean" ELSE "dirty"]
  <2>t. Goes("main", "over")
    BY <1>0, <1>4, ThreadGoes DEF TimingTypeOK
  <2>r. /\ DOMAIN run' = DOMAIN run /\ run'.stale = run.stale
        /\ run'.err = run.err /\ run'.file = run.file
        /\ run'.report = (IF th["main"].ok THEN "clean" ELSE "dirty")
    BY <1>0, <1>4 DEF TimingTypeOK, OtherTypes
  <2>1. TimingTypeOK'
    <3>1. ThreadTypes'
      BY <1>0, <2>t, GoesTyped DEF TimingTypeOK, Place
    <3>2. OtherTypes'
      BY <1>0, <1>a, <1>o, <2>r DEF TimingTypeOK, OtherTypes, OwnStays, RunStays
    <3> QED
      BY <1>0, <3>1, <1>a, <3>2 DEF TimingTypeOK, SessTypes, LineTypes, BoxTypes
  <2>2. Threads'
    BY <1>0, <1>a, <2>t, <1>o DEF TimingTypeOK, ThreadTypes, SessTypes, Threads, Subroutine,
       Returns, Measures, Passing, TimingReaped, ReapedTo, Owes, Goes, Keeps, OnlyMoves
  <2>3. Opened'
    BY <1>0, <1>a, <2>t DEF TimingTypeOK, BoxTypes, SessTypes, LineTypes, ThreadTypes, Opened,
       Threads, Subroutine, Returns, Measures, Passing, TimingReaped, ReapedTo, Owes, Goes,
       Keeps, OnlyMoves
  <2>k. Kept
    BY <1>0, <1>a, <1>o DEF Kept, TimingTypeOK, BoxTypes, SessTypes, ThreadTypes, Opened,
       Threads
  <2>n. Founded
    BY <1>0, <1>a, <2>t, <1>o, <2>r DEF Founded, CleanIsFinal, TimingTypeOK, ThreadTypes,
       SessTypes, Goes, Keeps, OnlyMoves
  <2>4. CleanIsFinal'
    BY <1>0, <2>k, <2>n, CleanStays
  <2>5. LineCounted'
    BY <1>0, <1>a, <2>t, <2>r DEF TimingTypeOK, ThreadTypes, LineTypes, LineCounted, Opened,
       Threads, Owes, Goes, Keeps, OnlyMoves
  <2>6. TimingReapedInTurn'
    BY <1>0, <1>a, <2>t, <2>r DEF TimingTypeOK, ThreadTypes, SessTypes, TimingReapedInTurn,
       Opened, Threads, Subroutine, Returns, Measures, Passing, TimingReaped, ReapedTo, Owes,
       Goes, Keeps, OnlyMoves
  <2> QED
    BY <2>1, <2>2, <2>3, <2>4, <2>5, <2>6 DEF TimingInv
<1> QED
  BY <1>0, <1>1, <1>2, <1>3, <1>4 DEF T!Judged, TimingTypeOK, OtherTypes

\* So is that of the heartbeat.
LEMMA TimingBeatJudged == ASSUME TimingInv, T!BeatJudged PROVE TimingInv'
<1> USE DEF T!Session, T!Thread, T!Timer, T!S, T!At
<1>0. TimingTypeOK /\ Threads /\ Opened /\ CleanIsFinal /\ LineCounted /\ TimingReapedInTurn
  BY DEF TimingInv
<1>a. th["beat"].at = "judged" /\ UNCHANGED <<job, box, sess, line, lost, run>>
  BY DEF T!BeatJudged
<1>x. T!Go("beat", "over")
  BY DEF T!BeatJudged
<1>o. /\ DOMAIN own' = DOMAIN own
      /\ own'.closing = own.closing /\ own'.fenced = own.fenced
      /\ own'.cache \in {own.cache, "dirty"} \/ (own'.cache = "clean" /\ th["beat"].ok)
  BY <1>0 DEF TimingTypeOK, OtherTypes, T!BeatJudged
<1>r. RunStays /\ run'.err = run.err
  BY <1>a DEF RunStays
<1>t. Goes("beat", "over")
  BY <1>0, <1>x, ThreadGoes DEF TimingTypeOK
<1>1. TimingTypeOK'
  <2>1. ThreadTypes'
    BY <1>0, <1>t, GoesTyped DEF TimingTypeOK, Place
  <2>2. OtherTypes'
    BY <1>0, <1>a, <1>o, <1>r DEF TimingTypeOK, OtherTypes, OwnStays, RunStays
  <2> QED
    BY <1>0, <2>1, <1>a, <2>2 DEF TimingTypeOK, SessTypes, LineTypes, BoxTypes
<1>2. Threads'
  BY <1>0, <1>a, <1>t, <1>o DEF TimingTypeOK, ThreadTypes, SessTypes, Threads, Subroutine,
     Returns, Measures, Passing, TimingReaped, ReapedTo, Owes, Goes, Keeps, OnlyMoves
<1>3. Opened'
  BY <1>0, <1>a, <1>t DEF TimingTypeOK, BoxTypes, SessTypes, LineTypes, ThreadTypes, Opened,
     Threads, Subroutine, Returns, Measures, Passing, TimingReaped, ReapedTo, Owes, Goes,
     Keeps, OnlyMoves
<1>k. Kept
  BY <1>0, <1>a, <1>o DEF Kept, TimingTypeOK, BoxTypes, SessTypes, ThreadTypes, Opened, Threads
<1>n. Founded
  BY <1>0, <1>a, <1>t, <1>o, <1>r DEF Founded, CleanIsFinal, TimingTypeOK, ThreadTypes,
     SessTypes, Goes, Keeps, OnlyMoves, RunStays
<1>4. CleanIsFinal'
  BY <1>0, <1>k, <1>n, CleanStays
<1>5. LineCounted'
  BY <1>0, <1>a, <1>t, <1>r DEF TimingTypeOK, ThreadTypes, LineTypes, LineCounted, Opened,
     Threads, Owes, Goes, Keeps, OnlyMoves, RunStays
<1>6. TimingReapedInTurn'
  BY <1>0, <1>a, <1>t, <1>r DEF TimingTypeOK, ThreadTypes, SessTypes, TimingReapedInTurn,
     Opened, Threads, Subroutine, Returns, Measures, Passing, TimingReaped, ReapedTo, Owes,
     Goes, Keeps, OnlyMoves, RunStays
<1> QED
  BY <1>1, <1>2, <1>3, <1>4, <1>5, <1>6 DEF TimingInv

\* From here on every guard fails.
LEMMA TimingLoseLease == ASSUME TimingInv, T!LoseLease PROVE TimingInv'
<1> USE DEF T!Session, T!Thread, T!Timer, T!S, T!At
<1>0. TimingTypeOK /\ Threads /\ Opened /\ CleanIsFinal /\ LineCounted /\ TimingReapedInTurn
  BY DEF TimingInv
<1>a. th["beat"].at = "idle" /\ lost' /\ UNCHANGED <<job, box, sess, line, own, run>>
  BY DEF T!LoseLease
<1>o. OwnStays
  BY <1>0 DEF TimingTypeOK, OtherTypes, OwnStays, T!LoseLease
<1>r. RunStays /\ run'.err = run.err
  BY <1>a DEF RunStays
<1>1. CASE T!Go("beat", "adapter")
  <2>t. Goes("beat", "adapter")
    BY <1>0, <1>1, ThreadGoes DEF TimingTypeOK
  <2>1. TimingTypeOK'
    <3>1. ThreadTypes'
      BY <1>0, <2>t, GoesTyped DEF TimingTypeOK, Place
    <3> QED
      BY <1>0, <3>1, <1>a, <1>o, <1>r, OtherTyped DEF TimingTypeOK, SessTypes, LineTypes,
         BoxTypes
  <2>2. Threads'
    BY <1>0, <1>a, <2>t, <1>o DEF TimingTypeOK, ThreadTypes, SessTypes, Threads, Subroutine,
       Returns, Measures, Passing, TimingReaped, ReapedTo, Owes, Goes, Keeps, OnlyMoves,
       OwnStays
  <2>3. Opened'
    BY <1>0, <1>a, <2>t DEF TimingTypeOK, BoxTypes, SessTypes, LineTypes, ThreadTypes, Opened,
       Threads, Subroutine, Returns, Measures, Passing, TimingReaped, ReapedTo, Owes, Goes,
       Keeps, OnlyMoves
  <2>k. Kept
    BY <1>0, <1>a, <1>o DEF Kept, TimingTypeOK, BoxTypes, SessTypes, ThreadTypes, Opened,
       Threads, OwnStays
  <2>n. Founded
    BY <1>0, <1>a, <2>t, <1>o, <1>r DEF Founded, CleanIsFinal, TimingTypeOK, ThreadTypes,
       SessTypes, Goes, Keeps, OnlyMoves, OwnStays, RunStays
  <2>4. CleanIsFinal'
    BY <1>0, <2>k, <2>n, CleanStays
  <2>5. LineCounted'
    BY <1>0, <1>a, <2>t, <1>r DEF TimingTypeOK, ThreadTypes, LineTypes, LineCounted, Opened,
       Threads, Owes, Goes, Keeps, OnlyMoves, RunStays
  <2>6. TimingReapedInTurn'
    BY <1>0, <1>a, <2>t, <1>r DEF TimingTypeOK, ThreadTypes, SessTypes, TimingReapedInTurn,
       Opened, Threads, Subroutine, Returns, Measures, Passing, TimingReaped, ReapedTo, Owes,
       Goes, Keeps, OnlyMoves, RunStays
  <2> QED
    BY <2>1, <2>2, <2>3, <2>4, <2>5, <2>6 DEF TimingInv
<1>2. CASE T!Go("beat", "finish")
  <2>t. Goes("beat", "finish")
    BY <1>0, <1>2, ThreadGoes DEF TimingTypeOK
  <2>1. TimingTypeOK'
    <3>1. ThreadTypes'
      BY <1>0, <2>t, GoesTyped DEF TimingTypeOK, Place
    <3> QED
      BY <1>0, <3>1, <1>a, <1>o, <1>r, OtherTyped DEF TimingTypeOK, SessTypes, LineTypes,
         BoxTypes
  <2>2. Threads'
    BY <1>0, <1>a, <2>t, <1>o DEF TimingTypeOK, ThreadTypes, SessTypes, Threads, Subroutine,
       Returns, Measures, Passing, TimingReaped, ReapedTo, Owes, Goes, Keeps, OnlyMoves,
       OwnStays
  <2>3. Opened'
    BY <1>0, <1>a, <2>t DEF TimingTypeOK, BoxTypes, SessTypes, LineTypes, ThreadTypes, Opened,
       Threads, Subroutine, Returns, Measures, Passing, TimingReaped, ReapedTo, Owes, Goes,
       Keeps, OnlyMoves
  <2>k. Kept
    BY <1>0, <1>a, <1>o DEF Kept, TimingTypeOK, BoxTypes, SessTypes, ThreadTypes, Opened,
       Threads, OwnStays
  <2>n. Founded
    BY <1>0, <1>a, <2>t, <1>o, <1>r DEF Founded, CleanIsFinal, TimingTypeOK, ThreadTypes,
       SessTypes, Goes, Keeps, OnlyMoves, OwnStays, RunStays
  <2>4. CleanIsFinal'
    BY <1>0, <2>k, <2>n, CleanStays
  <2>5. LineCounted'
    BY <1>0, <1>a, <2>t, <1>r DEF TimingTypeOK, ThreadTypes, LineTypes, LineCounted, Opened,
       Threads, Owes, Goes, Keeps, OnlyMoves, RunStays
  <2>6. TimingReapedInTurn'
    BY <1>0, <1>a, <2>t, <1>r DEF TimingTypeOK, ThreadTypes, SessTypes, TimingReapedInTurn,
       Opened, Threads, Subroutine, Returns, Measures, Passing, TimingReaped, ReapedTo, Owes,
       Goes, Keeps, OnlyMoves, RunStays
  <2> QED
    BY <2>1, <2>2, <2>3, <2>4, <2>5, <2>6 DEF TimingInv
<1> QED
  BY <1>1, <1>2 DEF T!LoseLease

\* A container moves only if it was asked for, and not when it is gone.
LEMMA TimingBoxMoves == ASSUME TimingInv, NEW s \in T!Session, T!BoxMoves(s) PROVE TimingInv'
<1> USE DEF T!Session, T!Thread, T!Timer, T!S, T!At
<1>0. TimingTypeOK /\ Threads /\ Opened /\ CleanIsFinal /\ LineCounted /\ TimingReapedInTurn
  BY DEF TimingInv
<1>a. s \in T!Session /\ UNCHANGED <<job, sess, line, th, own, lost, run>>
  BY DEF T!BoxMoves
<1>b. /\ BoxOnly(s) /\ box'[s] \in {"none", "asked", "made", "up", "gone"}
      /\ box[s] \in {"asked", "made", "up"}
  BY <1>0 DEF TimingTypeOK, BoxTypes, BoxOnly, T!BoxMoves
<1>o. OwnStays
  BY <1>0 DEF TimingTypeOK, OtherTypes, OwnStays, T!BoxMoves
<1>r. RunStays /\ run'.err = run.err
  BY <1>a DEF RunStays
<1>1. TimingTypeOK'
  <2>1. BoxTypes'
    BY <1>0, <1>b, BoxTyped DEF TimingTypeOK
  <2> QED
    BY <1>0, <1>a, <2>1, <1>o, <1>r, OtherTyped DEF TimingTypeOK, ThreadTypes, SessTypes,
       LineTypes
<1>2. Threads'
  BY <1>0, <1>a, <1>o DEF TimingTypeOK, ThreadTypes, SessTypes, Threads, Subroutine, Returns,
     Measures, Passing, TimingReaped, ReapedTo, Owes, OwnStays
<1>3. Opened'
  BY <1>0, <1>a, <1>b DEF TimingTypeOK, BoxTypes, SessTypes, LineTypes, ThreadTypes, Opened,
     Threads, Subroutine, Returns, Measures, Passing, TimingReaped, ReapedTo, Owes, BoxOnly
<1>k. Kept
  BY <1>0, <1>a, <1>b, <1>o DEF Kept, TimingTypeOK, BoxTypes, SessTypes, ThreadTypes, Opened,
     Threads, OwnStays, BoxOnly
<1>n. Founded
  BY <1>0, <1>a, <1>b, <1>o, <1>r DEF Founded, CleanIsFinal, TimingTypeOK, ThreadTypes,
     SessTypes, OwnStays, RunStays
<1>4. CleanIsFinal'
  BY <1>0, <1>k, <1>n, CleanStays
<1>5. LineCounted'
  BY <1>0, <1>a, <1>r DEF TimingTypeOK, ThreadTypes, LineTypes, LineCounted, Opened, Threads,
     Owes, RunStays
<1>6. TimingReapedInTurn'
  BY <1>0, <1>a, <1>r DEF TimingTypeOK, ThreadTypes, SessTypes, TimingReapedInTurn, Opened,
     Threads, Subroutine, Returns, Measures, Passing, TimingReaped, ReapedTo, Owes, RunStays
<1> QED
  BY <1>1, <1>2, <1>3, <1>4, <1>5, <1>6 DEF TimingInv

\* The cleaner takes the sessions of a list one after the other.
LEMMA FirstOf == ASSUME NEW set, set \subseteq T!Session, set # {} PROVE T!First(set) \in set
<1>1. IsWellFoundedOn(OpToRel(<, Nat), Nat)
  BY ZenonT(40), NatLessThanWellFounded
<1>2. set \subseteq Nat
  BY MeasurementAssumption DEF T!Session
<1>3. PICK s \in set : \A r \in set : ~(<<r, s>> \in OpToRel(<, Nat))
  BY ZenonT(40), <1>1, <1>2, WFMin
<1>4. ASSUME NEW r \in set PROVE s <= r
  <2>1. r \in Nat /\ s \in Nat
    BY <1>2
  <2>2. ~(<<r, s>> \in OpToRel(<, Nat))
    BY ZenonT(40), <1>3
  <2>3. ~(r < s)
    BY <2>1, <2>2 DEF OpToRel
  <2> QED
    BY <2>1, <2>3
<1> QED
  BY <1>4 DEF T!First

\* Only main can still write: the heartbeat comes when the lease is lost.
LEMMA TimingClose == ASSUME TimingInv, NEW t \in T!Thread, T!Close(t) PROVE TimingInv'
<1> USE DEF T!Session, T!Thread, T!Timer, T!S, T!At
<1>0. TimingTypeOK /\ Threads /\ Opened /\ CleanIsFinal /\ LineCounted /\ TimingReapedInTurn
  BY DEF TimingInv
<1>a. /\ th[t].at = "close" /\ th[t].s \in T!Session
      /\ UNCHANGED <<job, box, sess, own, lost, run>>
  BY <1>0 DEF T!Close, TimingTypeOK, ThreadTypes
<1>o. OwnStays
  BY <1>0 DEF TimingTypeOK, OtherTypes, OwnStays, T!Close
<1>r. RunStays /\ run'.err = run.err
  BY <1>a DEF RunStays
<1>1. CASE UNCHANGED line
         /\ th' = [th EXCEPT ![t].at = th[t].then, ![t].ok = sess[th[t].s].clean]
  <2>t. Keeps(t) /\ th'[t].at = th[t].then /\ th'[t].then = th[t].then
    BY <1>0, <1>a, <1>1 DEF TimingTypeOK, ThreadTypes, OnlyMoves, Keeps
  <2>u. /\ th'[t].at \in {"unopened", "asked", "next", "pass", "sweeps"}
        /\ th'[t].at \in {"pass", "sweeps"} => own.closing
        /\ t = "beat" => th'[t].at \in {"pass", "sweeps"}
        /\ t = "main" => (Measures <=> th'[t].at \in Returns)
    BY <1>0, <1>a, <2>t DEF TimingTypeOK, ThreadTypes, Follows, Threads, Passing, Subroutine,
       Measures, Returns
  <2>l. UNCHANGED line
    BY <1>1
  <2>1. TimingTypeOK'
    <3>1. ThreadTypes'
      BY <1>0, <1>a, <2>t, ThreadTyped DEF TimingTypeOK, ThreadTypes, Threads, Subroutine,
         Place, Follows, Keeps
    <3> QED
      BY <1>0, <3>1, <1>a, <2>l, <1>o, <1>r, OtherTyped DEF TimingTypeOK, SessTypes, LineTypes,
         BoxTypes
  <2>2. Threads'
    <3>1. CASE t = "main"
      BY <3>1, <1>0, <1>a, <2>t, <2>u, <1>o DEF TimingTypeOK, ThreadTypes, SessTypes, Threads,
         Subroutine, Returns, Measures, Passing, TimingReaped, ReapedTo, Owes, Keeps,
         OnlyMoves, OwnStays
    <3>2. CASE t = "beat"
      BY <3>2, <1>0, <1>a, <2>t, <2>u, <1>o DEF TimingTypeOK, ThreadTypes, SessTypes, Threads,
         Subroutine, Returns, Measures, Passing, TimingReaped, ReapedTo, Owes, Keeps,
         OnlyMoves, OwnStays
    <3> QED
      BY <3>1, <3>2
  <2>3. Opened'
    <3>1. CASE t = "main"
      BY <3>1, <1>0, <1>a, <2>t, <2>u, <2>l DEF TimingTypeOK, BoxTypes, SessTypes, LineTypes,
         ThreadTypes, Opened, Threads, Subroutine, Returns, Measures, Passing, TimingReaped,
         ReapedTo, Owes, Keeps, OnlyMoves
    <3>2. CASE t = "beat"
      BY <3>2, <1>0, <1>a, <2>t, <2>u, <2>l DEF TimingTypeOK, BoxTypes, SessTypes, LineTypes,
         ThreadTypes, Opened, Threads, Subroutine, Returns, Measures, Passing, TimingReaped,
         ReapedTo, Owes, Keeps, OnlyMoves
    <3> QED
      BY <3>1, <3>2
  <2>k. Kept
    BY <1>0, <1>a, <1>o DEF Kept, TimingTypeOK, BoxTypes, SessTypes, ThreadTypes, Opened,
       Threads, OwnStays
  <2>n. Founded
    <3>1. CASE t = "main"
      BY <3>1, <1>0, <1>a, <2>t, <2>u, <1>o, <1>r DEF Founded, CleanIsFinal, TimingTypeOK,
         ThreadTypes, SessTypes, Keeps, OnlyMoves, OwnStays, RunStays
    <3>2. CASE t = "beat"
      BY <3>2, <1>0, <1>a, <2>t, <2>u, <1>o, <1>r DEF Founded, CleanIsFinal, TimingTypeOK,
         ThreadTypes, SessTypes, Keeps, OnlyMoves, OwnStays, RunStays
    <3> QED
      BY <3>1, <3>2
  <2>4. CleanIsFinal'
    BY <1>0, <2>k, <2>n, CleanStays
  <2>5. LineCounted'
    <3>1. CASE t = "main"
      BY <3>1, <1>0, <1>a, <2>t, <2>u, <2>l, <1>r DEF TimingTypeOK, ThreadTypes, LineTypes,
         LineCounted, Opened, Threads, Owes, Keeps, OnlyMoves, RunStays
    <3>2. CASE t = "beat"
      BY <3>2, <1>0, <1>a, <2>t, <2>u, <2>l, <1>r DEF TimingTypeOK, ThreadTypes, LineTypes,
         LineCounted, Opened, Threads, Owes, Keeps, OnlyMoves, RunStays
    <3> QED
      BY <3>1, <3>2
  <2>6. TimingReapedInTurn'
    <3>1. CASE t = "main"
      BY <3>1, <1>0, <1>a, <2>t, <2>u, <1>r DEF TimingTypeOK, ThreadTypes, SessTypes,
         TimingReapedInTurn, Opened, Threads, Subroutine, Returns, Measures, Passing,
         TimingReaped, ReapedTo, Owes, Keeps, OnlyMoves, RunStays
    <3>2. CASE t = "beat"
      BY <3>2, <1>0, <1>a, <2>t, <2>u, <1>r DEF TimingTypeOK, ThreadTypes, SessTypes,
         TimingReapedInTurn, Opened, Threads, Subroutine, Returns, Measures, Passing,
         TimingReaped, ReapedTo, Owes, Keeps, OnlyMoves, RunStays
    <3> QED
      BY <3>1, <3>2
  <2> QED
    BY <2>1, <2>2, <2>3, <2>4, <2>5, <2>6 DEF TimingInv
<1>2. CASE T!Written(t, th[t].s) /\ T!Go(t, "last")
  <2>t. Goes(t, "last")
    BY <1>0, <1>2, ThreadGoes DEF TimingTypeOK
  <2>l. /\ LineOnly(th[t].s) /\ line'[th[t].s].chan = line[th[t].s].chan
        /\ line[th[t].s].chan = "open" /\ line'[th[t].s].owed = line[th[t].s].owed + 1
    BY <1>0, <1>a, <1>2 DEF TimingTypeOK, LineTypes, LineOnly, T!Written
  <2>m. t = "main"
    BY <1>0, <1>a, <1>2 DEF Threads, T!Written, T!Guard
  <2>1. TimingTypeOK'
    <3>1. ThreadTypes'
      BY <1>0, <2>t, GoesTyped DEF TimingTypeOK, Place
    <3>2. LineTypes'
      BY <1>0, <1>a, <2>l, LineTyped DEF TimingTypeOK, LineTypes
    <3> QED
      BY <1>0, <3>1, <2>m, <1>a, <3>2, <1>o, <1>r, OtherTyped
         DEF TimingTypeOK, SessTypes, BoxTypes
  <2>2. Threads'
    BY <1>0, <2>m, <1>a, <2>t, <1>o DEF TimingTypeOK, ThreadTypes, SessTypes, Threads,
       Subroutine, Returns, Measures, Passing, TimingReaped, ReapedTo, Owes, Goes, Keeps,
       OnlyMoves, OwnStays
  <2>3. Opened'
    BY <1>0, <2>m, <1>a, <2>t, <2>l DEF TimingTypeOK, BoxTypes, SessTypes, LineTypes,
       ThreadTypes, Opened, Threads, Subroutine, Returns, Measures, Passing, TimingReaped,
       ReapedTo, Owes, Goes, Keeps, OnlyMoves, LineOnly
  <2>k. Kept
    BY <1>0, <2>m, <1>a, <1>o DEF Kept, TimingTypeOK, BoxTypes, SessTypes, ThreadTypes, Opened,
       Threads, OwnStays
  <2>n. Founded
    BY <1>0, <2>m, <1>a, <2>t, <1>o, <1>r DEF Founded, CleanIsFinal, TimingTypeOK, ThreadTypes,
       SessTypes, Goes, Keeps, OnlyMoves, OwnStays, RunStays
  <2>4. CleanIsFinal'
    BY <1>0, <2>k, <2>n, CleanStays
  <2>5. LineCounted'
    BY <1>0, <2>m, <1>a, <2>t, <2>l, <1>r DEF TimingTypeOK, ThreadTypes, LineTypes,
       LineCounted, Opened, Threads, Owes, Goes, Keeps, OnlyMoves, RunStays, LineOnly
  <2>6. TimingReapedInTurn'
    BY <1>0, <2>m, <1>a, <2>t, <1>r DEF TimingTypeOK, ThreadTypes, SessTypes,
       TimingReapedInTurn, Opened, Threads, Subroutine, Returns, Measures, Passing,
       TimingReaped, ReapedTo, Owes, Goes, Keeps, OnlyMoves, RunStays
  <2> QED
    BY <2>1, <2>2, <2>3, <2>4, <2>5, <2>6 DEF TimingInv
<1>3. CASE T!Fail(t, th[t].then) /\ UNCHANGED line
  <2>t. Fails(t, th[t].then)
    BY <1>0, <1>3, ThreadFails DEF TimingTypeOK
  <2>l. UNCHANGED line
    BY <1>3
  <2>1. TimingTypeOK'
    <3>1. ThreadTypes'
      BY <1>0, <2>t, FailsTyped DEF TimingTypeOK, ThreadTypes, Follows
    <3> QED
      BY <1>0, <3>1, <1>a, <2>l, <1>o, <1>r, OtherTyped DEF TimingTypeOK, SessTypes, LineTypes,
         BoxTypes
  <2>2. Threads'
    BY <1>0, <1>a, <2>t, <1>o DEF TimingTypeOK, ThreadTypes, SessTypes, Threads, Subroutine,
       Returns, Measures, Passing, TimingReaped, ReapedTo, Owes, Fails, Keeps, OnlyMoves,
       OwnStays
  <2>3. Opened'
    BY <1>0, <1>a, <2>t, <2>l DEF TimingTypeOK, BoxTypes, SessTypes, LineTypes, ThreadTypes,
       Opened, Threads, Subroutine, Returns, Measures, Passing, TimingReaped, ReapedTo, Owes,
       Fails, Keeps, OnlyMoves
  <2>k. Kept
    BY <1>0, <1>a, <1>o DEF Kept, TimingTypeOK, BoxTypes, SessTypes, ThreadTypes, Opened,
       Threads, OwnStays
  <2>n. Founded
    BY <1>0, <1>a, <2>t, <1>o, <1>r DEF Founded, CleanIsFinal, TimingTypeOK, ThreadTypes,
       SessTypes, Fails, Keeps, OnlyMoves, OwnStays, RunStays
  <2>4. CleanIsFinal'
    BY <1>0, <2>k, <2>n, CleanStays
  <2>5. LineCounted'
    BY <1>0, <1>a, <2>t, <2>l, <1>r DEF TimingTypeOK, ThreadTypes, LineTypes, LineCounted,
       Opened, Threads, Owes, Fails, Keeps, OnlyMoves, RunStays
  <2>6. TimingReapedInTurn'
    BY <1>0, <1>a, <2>t, <1>r DEF TimingTypeOK, ThreadTypes, SessTypes, TimingReapedInTurn,
       Opened, Threads, Subroutine, Returns, Measures, Passing, TimingReaped, ReapedTo, Owes,
       Fails, Keeps, OnlyMoves, RunStays
  <2> QED
    BY <2>1, <2>2, <2>3, <2>4, <2>5, <2>6 DEF TimingInv
<1> QED
  BY <1>1, <1>2, <1>3 DEF T!Close

\* The closing answer is the only one owed.
LEMMA TimingReap == ASSUME TimingInv, NEW t \in T!Thread, T!Reap(t) PROVE TimingInv'
<1> USE DEF T!Session, T!Thread, T!Timer, T!S, T!At
<1>0. TimingTypeOK /\ Threads /\ Opened /\ CleanIsFinal /\ LineCounted /\ TimingReapedInTurn
  BY DEF TimingInv
<1>a. /\ th[t].at = "last" /\ th[t].s \in T!Session
      /\ UNCHANGED <<job, own, lost, run>>
  BY <1>0 DEF T!Reap, TimingTypeOK, ThreadTypes
<1>m. t = "main"
  BY <1>0, <1>a DEF Threads
<1>o. OwnStays
  BY <1>0 DEF TimingTypeOK, OtherTypes, OwnStays, T!Reap
<1>r. RunStays /\ run'.err = run.err
  BY <1>a DEF RunStays
<1>1. CASE box[th[t].s] = "up"
         /\ line' = [line EXCEPT ![th[t].s].busy = "nobody", ![th[t].s].owed = 0]
         /\ box' = [box EXCEPT ![th[t].s] = "gone"]
         /\ sess' = [sess EXCEPT ![th[t].s].reaped = TRUE]
         /\ th' = [th EXCEPT ![t].at = "shut", ![t].ok = TRUE]
  <2>t. Keeps(t) /\ th'[t].at = "shut" /\ th'[t].then = th[t].then
    BY <1>0, <1>a, <1>1 DEF TimingTypeOK, ThreadTypes, OnlyMoves, Keeps
  <2>s. /\ SessOnly(th[t].s) /\ sess'[th[t].s].reaped
        /\ sess'[th[t].s].listed = sess[th[t].s].listed
        /\ sess'[th[t].s].closed = sess[th[t].s].closed
        /\ sess'[th[t].s].tried = sess[th[t].s].tried
        /\ sess'[th[t].s].known = sess[th[t].s].known
        /\ sess'[th[t].s].ready = sess[th[t].s].ready
        /\ sess'[th[t].s].clean = sess[th[t].s].clean
    BY <1>0, <1>1 DEF TimingTypeOK, SessTypes, ThreadTypes, SessOnly
  <2>b. BoxOnly(th[t].s) /\ box'[th[t].s] = "gone" /\ box[th[t].s] = "up"
    BY <1>0, <1>a, <1>1 DEF TimingTypeOK, BoxTypes, BoxOnly
  <2>l. LineOnly(th[t].s) /\ line'[th[t].s].chan = line[th[t].s].chan /\ line'[th[t].s].owed = 0
    BY <1>0, <1>a, <1>1 DEF TimingTypeOK, LineTypes, LineOnly
  <2>1. TimingTypeOK'
    <3>1. ThreadTypes'
      BY <1>0, <1>a, <2>t, ThreadTyped DEF TimingTypeOK, ThreadTypes, Threads, Subroutine,
         Place, Follows, Keeps
    <3>2. SessTypes'
      BY <1>0, <2>s, <1>a, SessTyped DEF TimingTypeOK
    <3>3. LineTypes'
      BY <1>0, <1>a, <2>l, LineTyped DEF TimingTypeOK, LineTypes
    <3>4. BoxTypes'
      BY <1>0, <1>a, <2>b, BoxTyped DEF TimingTypeOK
    <3> QED
      BY <1>0, <3>1, <3>2, <3>3, <3>4, <1>a, <1>m, <1>o, <1>r, OtherTyped DEF TimingTypeOK
  <2>2. Threads'
    BY <1>0, <1>a, <1>m, <2>t, <2>s, <1>o DEF TimingTypeOK, ThreadTypes, SessTypes, Threads,
       Subroutine, Returns, Measures, Passing, TimingReaped, ReapedTo, Owes, Keeps, OnlyMoves,
       OwnStays, SessOnly
  <2>3. Opened'
    BY <1>0, <1>a, <1>m, <2>t, <2>s, <2>l, <2>b DEF TimingTypeOK, BoxTypes, SessTypes,
       LineTypes, ThreadTypes, Opened, Threads, Subroutine, Returns, Measures, Passing,
       TimingReaped, ReapedTo, Owes, Keeps, OnlyMoves, SessOnly, LineOnly, BoxOnly
  <2>k. Kept
    BY <1>0, <1>a, <1>m, <2>s, <2>b, <1>o DEF Kept, TimingTypeOK, BoxTypes, SessTypes,
       ThreadTypes, Opened, Threads, OwnStays, SessOnly, BoxOnly
  <2>n. Founded
    BY <1>0, <1>a, <1>m, <2>t, <2>s, <2>b, <1>o, <1>r DEF Founded, CleanIsFinal, TimingTypeOK,
       ThreadTypes, SessTypes, Keeps, OnlyMoves, OwnStays, RunStays, SessOnly
  <2>4. CleanIsFinal'
    BY <1>0, <2>k, <2>n, CleanStays
  <2>5. LineCounted'
    BY <1>0, <1>a, <1>m, <2>t, <2>l, <1>r DEF TimingTypeOK, ThreadTypes, LineTypes,
       LineCounted, Opened, Threads, Owes, Keeps, OnlyMoves, RunStays, LineOnly
  <2>6. TimingReapedInTurn'
    BY <1>0, <1>a, <1>m, <2>t, <2>s, <1>r DEF TimingTypeOK, ThreadTypes, SessTypes,
       TimingReapedInTurn, Opened, Threads, Subroutine, Returns, Measures, Passing,
       TimingReaped, ReapedTo, Owes, Keeps, OnlyMoves, RunStays, SessOnly
  <2> QED
    BY <2>1, <2>2, <2>3, <2>4, <2>5, <2>6 DEF TimingInv
<1>2. CASE T!Fail(t, th[t].then) /\ UNCHANGED <<box, sess>>
         /\ line' = [line EXCEPT ![th[t].s].busy = "nobody", ![th[t].s].chan = "cut"]
  <2>t. Fails(t, th[t].then)
    BY <1>0, <1>2, ThreadFails DEF TimingTypeOK
  <2>s. UNCHANGED sess
    BY <1>2
  <2>b. UNCHANGED box
    BY <1>2
  <2>l. /\ LineOnly(th[t].s) /\ line'[th[t].s].chan = "cut"
        /\ line'[th[t].s].owed = line[th[t].s].owed
    BY <1>0, <1>a, <1>2 DEF TimingTypeOK, LineTypes, LineOnly
  <2>1. TimingTypeOK'
    <3>1. ThreadTypes'
      BY <1>0, <2>t, FailsTyped DEF TimingTypeOK, ThreadTypes, Follows
    <3>2. LineTypes'
      BY <1>0, <1>a, <2>l, LineTyped DEF TimingTypeOK, LineTypes
    <3> QED
      BY <1>0, <3>1, <1>a, <1>m, <2>s, <3>2, <2>b, <1>o, <1>r, OtherTyped
         DEF TimingTypeOK, SessTypes, BoxTypes
  <2>2. Threads'
    BY <1>0, <1>a, <1>m, <2>t, <2>s, <1>o DEF TimingTypeOK, ThreadTypes, SessTypes, Threads,
       Subroutine, Returns, Measures, Passing, TimingReaped, ReapedTo, Owes, Fails, Keeps,
       OnlyMoves, OwnStays
  <2>3. Opened'
    BY <1>0, <1>a, <1>m, <2>t, <2>s, <2>l, <2>b DEF TimingTypeOK, BoxTypes, SessTypes,
       LineTypes, ThreadTypes, Opened, Threads, Subroutine, Returns, Measures, Passing,
       TimingReaped, ReapedTo, Owes, Fails, Keeps, OnlyMoves, LineOnly
  <2>k. Kept
    BY <1>0, <1>a, <1>m, <2>s, <2>b, <1>o DEF Kept, TimingTypeOK, BoxTypes, SessTypes,
       ThreadTypes, Opened, Threads, OwnStays
  <2>n. Founded
    BY <1>0, <1>a, <1>m, <2>t, <2>s, <2>b, <1>o, <1>r DEF Founded, CleanIsFinal, TimingTypeOK,
       ThreadTypes, SessTypes, Fails, Keeps, OnlyMoves, OwnStays, RunStays
  <2>4. CleanIsFinal'
    BY <1>0, <2>k, <2>n, CleanStays
  <2>5. LineCounted'
    BY <1>0, <1>a, <1>m, <2>t, <2>l, <1>r DEF TimingTypeOK, ThreadTypes, LineTypes,
       LineCounted, Opened, Threads, Owes, Fails, Keeps, OnlyMoves, RunStays, LineOnly
  <2>6. TimingReapedInTurn'
    BY <1>0, <1>a, <1>m, <2>t, <2>s, <1>r DEF TimingTypeOK, ThreadTypes, SessTypes,
       TimingReapedInTurn, Opened, Threads, Subroutine, Returns, Measures, Passing,
       TimingReaped, ReapedTo, Owes, Fails, Keeps, OnlyMoves, RunStays
  <2> QED
    BY <2>1, <2>2, <2>3, <2>4, <2>5, <2>6 DEF TimingInv
<1> QED
  BY <1>1, <1>2 DEF T!Reap

\* A closed session that was never tried is final.
LEMMA TimingShut == ASSUME TimingInv, NEW t \in T!Thread, T!Shut(t) PROVE TimingInv'
<1> USE DEF T!Session, T!Thread, T!Timer, T!S, T!At
<1>0. TimingTypeOK /\ Threads /\ Opened /\ CleanIsFinal /\ LineCounted /\ TimingReapedInTurn
  BY DEF TimingInv
<1>a. /\ th[t].at = "shut" /\ th[t].s \in T!Session
      /\ UNCHANGED <<job, box, line, own, lost, run>>
  BY <1>0 DEF T!Shut, TimingTypeOK, ThreadTypes
<1>o. OwnStays
  BY <1>0 DEF TimingTypeOK, OtherTypes, OwnStays, T!Shut
<1>r. RunStays /\ run'.err = run.err
  BY <1>a DEF RunStays
<1>x. T!Go(t, "sweep")
      /\ sess' = [sess EXCEPT ![th[t].s].closed = TRUE, ![th[t].s].clean = ~sess[th[t].s].tried]
  BY DEF T!Shut
<1>t. Goes(t, "sweep")
  BY <1>0, <1>x, ThreadGoes DEF TimingTypeOK
<1>s. /\ SessOnly(th[t].s) /\ sess'[th[t].s].closed
      /\ sess'[th[t].s].listed = sess[th[t].s].listed
      /\ sess'[th[t].s].tried = sess[th[t].s].tried
      /\ sess'[th[t].s].known = sess[th[t].s].known
      /\ sess'[th[t].s].ready = sess[th[t].s].ready
      /\ sess'[th[t].s].reaped = sess[th[t].s].reaped
  BY <1>0, <1>a, <1>x DEF TimingTypeOK, SessTypes, SessOnly
<1>c. sess'[th[t].s].clean = ~sess[th[t].s].tried
  BY <1>0, <1>a, <1>x DEF TimingTypeOK, SessTypes
<1>q. sess'[th[t].s].clean => Final(th[t].s)'
  BY <1>s, <1>c, <1>t DEF Final, Goes, Keeps
<1>1. TimingTypeOK'
  <2>1. ThreadTypes'
    BY <1>0, <1>t, GoesTyped DEF TimingTypeOK, Place
  <2>2. SessTypes'
    BY <1>0, <1>s, <1>a, SessTyped DEF TimingTypeOK
  <2> QED
    BY <1>0, <2>1, <2>2, <1>a, <1>o, <1>r, OtherTyped DEF TimingTypeOK, LineTypes, BoxTypes
<1>2. Threads'
  BY <1>0, <1>a, <1>t, <1>s, <1>c, <1>q, <1>o DEF TimingTypeOK, ThreadTypes, SessTypes,
     Threads, Subroutine, Returns, Measures, Passing, TimingReaped, ReapedTo, Owes, Goes,
     Keeps, OnlyMoves, OwnStays, SessOnly
<1>3. Opened'
  BY <1>0, <1>a, <1>t, <1>s, <1>c, <1>q DEF TimingTypeOK, BoxTypes, SessTypes, LineTypes,
     ThreadTypes, Opened, Threads, Subroutine, Returns, Measures, Passing, TimingReaped,
     ReapedTo, Owes, Goes, Keeps, OnlyMoves, SessOnly
<1>k. Kept
  BY <1>0, <1>a, <1>s, <1>c, <1>q, <1>o DEF Kept, TimingTypeOK, BoxTypes, SessTypes,
     ThreadTypes, Opened, Threads, OwnStays, SessOnly
<1>n. Founded
  BY <1>0, <1>a, <1>t, <1>s, <1>c, <1>q, <1>o, <1>r DEF Founded, CleanIsFinal, TimingTypeOK,
     ThreadTypes, SessTypes, Goes, Keeps, OnlyMoves, OwnStays, RunStays, SessOnly
<1>4. CleanIsFinal'
  BY <1>0, <1>k, <1>n, CleanStays
<1>5. LineCounted'
  BY <1>0, <1>a, <1>t, <1>r DEF TimingTypeOK, ThreadTypes, LineTypes, LineCounted, Opened,
     Threads, Owes, Goes, Keeps, OnlyMoves, RunStays
<1>6. TimingReapedInTurn'
  BY <1>0, <1>a, <1>t, <1>s, <1>c, <1>q, <1>r DEF TimingTypeOK, ThreadTypes, SessTypes,
     TimingReapedInTurn, Opened, Threads, Subroutine, Returns, Measures, Passing, TimingReaped,
     ReapedTo, Owes, Goes, Keeps, OnlyMoves, RunStays, SessOnly
<1> QED
  BY <1>1, <1>2, <1>3, <1>4, <1>5, <1>6 DEF TimingInv

\* What is known and removed is final; what is not known is not called clean.
LEMMA TimingSweep == ASSUME TimingInv, NEW t \in T!Thread, T!Sweep(t) PROVE TimingInv'
<1> USE DEF T!Session, T!Thread, T!Timer, T!S, T!At
<1>0. TimingTypeOK /\ Threads /\ Opened /\ CleanIsFinal /\ LineCounted /\ TimingReapedInTurn
  BY DEF TimingInv
<1>a. /\ th[t].at = "sweep" /\ th[t].s \in T!Session
      /\ UNCHANGED <<job, own, lost, run>>
  BY <1>0 DEF T!Sweep, TimingTypeOK, ThreadTypes
<1>o. OwnStays
  BY <1>0 DEF TimingTypeOK, OtherTypes, OwnStays, T!Sweep
<1>r. RunStays /\ run'.err = run.err
  BY <1>a DEF RunStays
<1>l. /\ LineOnly(th[t].s) /\ line'[th[t].s].owed = line[th[t].s].owed
      /\ line'[th[t].s].chan = (IF line[th[t].s].chan = "open" THEN "cut" ELSE line[th[t].s].chan)
  BY <1>0, <1>a DEF TimingTypeOK, LineTypes, LineOnly, T!Sweep
<1>t. Keeps(t) /\ th'[t].at = th[t].then /\ th'[t].then = th[t].then
  BY <1>0, <1>a DEF TimingTypeOK, ThreadTypes, OnlyMoves, Keeps, T!Sweep
<1>u. /\ th'[t].at \in {"unopened", "asked", "next", "pass", "sweeps"}
      /\ th'[t].at \in {"pass", "sweeps"} => own.closing
      /\ t = "beat" => th'[t].at \in {"pass", "sweeps"}
      /\ t = "main" => (Measures <=> th'[t].at \in Returns)
  BY <1>0, <1>a, <1>t DEF TimingTypeOK, ThreadTypes, Follows, Threads, Passing, Subroutine,
     Measures, Returns
<1>1. CASE sess[th[t].s].known /\ box' = [box EXCEPT ![th[t].s] = "gone"]
         /\ sess' = [sess EXCEPT ![th[t].s].clean = TRUE]
  <2>b. BoxOnly(th[t].s) /\ box'[th[t].s] = "gone" /\ sess[th[t].s].known
    BY <1>0, <1>a, <1>1 DEF TimingTypeOK, BoxTypes, BoxOnly
  <2>s. /\ SessOnly(th[t].s) /\ sess'[th[t].s].clean
        /\ sess'[th[t].s].listed = sess[th[t].s].listed
        /\ sess'[th[t].s].closed = sess[th[t].s].closed
        /\ sess'[th[t].s].tried = sess[th[t].s].tried
        /\ sess'[th[t].s].known = sess[th[t].s].known
        /\ sess'[th[t].s].ready = sess[th[t].s].ready
        /\ sess'[th[t].s].reaped = sess[th[t].s].reaped
    BY <1>0, <1>a, <1>1 DEF TimingTypeOK, SessTypes, SessOnly
  <2>c. sess[th[t].s].closed
    BY <1>0, <1>a DEF Threads
  <2>q. \A r \in T!Session : r = th[t].s => Final(r)'
    BY <2>s, <2>c, <2>b DEF Final
  <2>1. TimingTypeOK'
    <3>1. ThreadTypes'
      BY <1>0, <1>a, <1>t, ThreadTyped DEF TimingTypeOK, ThreadTypes, Threads, Subroutine,
         Place, Follows, Keeps
    <3>2. SessTypes'
      BY <1>0, <2>s, <1>a, SessTyped DEF TimingTypeOK
    <3>3. LineTypes'
      BY <1>0, <1>a, <1>l, LineTyped DEF TimingTypeOK, LineTypes
    <3>4. BoxTypes'
      BY <1>0, <1>a, <2>b, BoxTyped DEF TimingTypeOK
    <3> QED
      BY <1>0, <3>1, <3>2, <3>3, <3>4, <1>a, <1>o, <1>r, OtherTyped DEF TimingTypeOK
  <2>2. Threads'
    <3>1. CASE t = "main"
      BY <3>1, <1>0, <1>a, <1>t, <1>u, <2>s, <1>o DEF TimingTypeOK, ThreadTypes, SessTypes,
         Threads, Subroutine, Returns, Measures, Passing, TimingReaped, ReapedTo, Owes, Keeps,
         OnlyMoves, OwnStays, SessOnly
    <3>2. CASE t = "beat"
      BY <3>2, <1>0, <1>a, <1>t, <1>u, <2>s, <1>o DEF TimingTypeOK, ThreadTypes, SessTypes,
         Threads, Subroutine, Returns, Measures, Passing, TimingReaped, ReapedTo, Owes, Keeps,
         OnlyMoves, OwnStays, SessOnly
    <3> QED
      BY <3>1, <3>2
  <2>3. Opened'
    <3>1. CASE t = "main"
      BY <3>1, <1>0, <1>a, <1>t, <1>u, <2>s, <1>l, <2>b DEF TimingTypeOK, BoxTypes, SessTypes,
         LineTypes, ThreadTypes, Opened, Threads, Subroutine, Returns, Measures, Passing,
         TimingReaped, ReapedTo, Owes, Keeps, OnlyMoves, SessOnly, LineOnly, BoxOnly
    <3>2. CASE t = "beat"
      BY <3>2, <1>0, <1>a, <1>t, <1>u, <2>s, <1>l, <2>b DEF TimingTypeOK, BoxTypes, SessTypes,
         LineTypes, ThreadTypes, Opened, Threads, Subroutine, Returns, Measures, Passing,
         TimingReaped, ReapedTo, Owes, Keeps, OnlyMoves, SessOnly, LineOnly, BoxOnly
    <3> QED
      BY <3>1, <3>2
  <2>k. Kept
    <3>1. \A r \in T!Session :
            /\ sess'[r].closed = sess[r].closed /\ sess'[r].tried = sess[r].tried
            /\ sess'[r].known = sess[r].known /\ sess'[r].listed = sess[r].listed
      BY <2>s DEF SessOnly
    <3>2. \A r \in T!Session : box[r] = "gone" => box'[r] = "gone"
      BY <2>b DEF BoxOnly
    <3> QED
      BY <3>1, <3>2, <1>o DEF Kept, OwnStays
  <2>n. Founded
    <3>1. CASE t = "main"
      BY <3>1, <1>0, <1>a, <1>t, <1>u, <2>s, <2>b, <1>o, <1>r, <2>c, <2>q
         DEF Founded, CleanIsFinal, TimingTypeOK, ThreadTypes, SessTypes, Keeps, OnlyMoves,
         OwnStays, RunStays, SessOnly
    <3>2. CASE t = "beat"
      BY <3>2, <1>0, <1>a, <1>t, <1>u, <2>s, <2>b, <1>o, <1>r, <2>c, <2>q
         DEF Founded, CleanIsFinal, TimingTypeOK, ThreadTypes, SessTypes, Keeps, OnlyMoves,
         OwnStays, RunStays, SessOnly
    <3> QED
      BY <3>1, <3>2
  <2>4. CleanIsFinal'
    BY <1>0, <2>k, <2>n, CleanStays
  <2>5. LineCounted'
    <3>1. CASE t = "main"
      BY <3>1, <1>0, <1>a, <1>t, <1>u, <1>l, <1>r DEF TimingTypeOK, ThreadTypes, LineTypes,
         LineCounted, Opened, Threads, Owes, Keeps, OnlyMoves, RunStays, LineOnly
    <3>2. CASE t = "beat"
      BY <3>2, <1>0, <1>a, <1>t, <1>u, <1>l, <1>r DEF TimingTypeOK, ThreadTypes, LineTypes,
         LineCounted, Opened, Threads, Owes, Keeps, OnlyMoves, RunStays, LineOnly
    <3> QED
      BY <3>1, <3>2
  <2>6. TimingReapedInTurn'
    <3>1. CASE t = "main"
      BY <3>1, <1>0, <1>a, <1>t, <1>u, <2>s, <1>r DEF TimingTypeOK, ThreadTypes, SessTypes,
         TimingReapedInTurn, Opened, Threads, Subroutine, Returns, Measures, Passing,
         TimingReaped, ReapedTo, Owes, Keeps, OnlyMoves, RunStays, SessOnly
    <3>2. CASE t = "beat"
      BY <3>2, <1>0, <1>a, <1>t, <1>u, <2>s, <1>r DEF TimingTypeOK, ThreadTypes, SessTypes,
         TimingReapedInTurn, Opened, Threads, Subroutine, Returns, Measures, Passing,
         TimingReaped, ReapedTo, Owes, Keeps, OnlyMoves, RunStays, SessOnly
    <3> QED
      BY <3>1, <3>2
  <2> QED
    BY <2>1, <2>2, <2>3, <2>4, <2>5, <2>6 DEF TimingInv
<1>2. CASE sess[th[t].s].known
         /\ (\E b \in {box[th[t].s], "gone"} : box' = [box EXCEPT ![th[t].s] = b])
         /\ sess' = [sess EXCEPT ![th[t].s].clean = FALSE]
  <2>b. /\ BoxOnly(th[t].s) /\ sess[th[t].s].known
        /\ box'[th[t].s] = box[th[t].s] \/ box'[th[t].s] = "gone"
    BY <1>0, <1>a, <1>2 DEF TimingTypeOK, BoxTypes, BoxOnly
  <2>s. /\ SessOnly(th[t].s) /\ ~sess'[th[t].s].clean
        /\ sess'[th[t].s].listed = sess[th[t].s].listed
        /\ sess'[th[t].s].closed = sess[th[t].s].closed
        /\ sess'[th[t].s].tried = sess[th[t].s].tried
        /\ sess'[th[t].s].known = sess[th[t].s].known
        /\ sess'[th[t].s].ready = sess[th[t].s].ready
        /\ sess'[th[t].s].reaped = sess[th[t].s].reaped
    BY <1>0, <1>a, <1>2 DEF TimingTypeOK, SessTypes, SessOnly
  <2>1. TimingTypeOK'
    <3>1. ThreadTypes'
      BY <1>0, <1>a, <1>t, ThreadTyped DEF TimingTypeOK, ThreadTypes, Threads, Subroutine,
         Place, Follows, Keeps
    <3>2. SessTypes'
      BY <1>0, <2>s, <1>a, SessTyped DEF TimingTypeOK
    <3>3. LineTypes'
      BY <1>0, <1>a, <1>l, LineTyped DEF TimingTypeOK, LineTypes
    <3>4. BoxTypes'
      BY <1>0, <1>a, <2>b, BoxTyped DEF TimingTypeOK, BoxTypes
    <3> QED
      BY <1>0, <3>1, <3>2, <3>3, <3>4, <1>a, <1>o, <1>r, OtherTyped DEF TimingTypeOK
  <2>2. Threads'
    <3>1. CASE t = "main"
      BY <3>1, <1>0, <1>a, <1>t, <1>u, <2>s, <1>o DEF TimingTypeOK, ThreadTypes, SessTypes,
         Threads, Subroutine, Returns, Measures, Passing, TimingReaped, ReapedTo, Owes, Keeps,
         OnlyMoves, OwnStays, SessOnly
    <3>2. CASE t = "beat"
      BY <3>2, <1>0, <1>a, <1>t, <1>u, <2>s, <1>o DEF TimingTypeOK, ThreadTypes, SessTypes,
         Threads, Subroutine, Returns, Measures, Passing, TimingReaped, ReapedTo, Owes, Keeps,
         OnlyMoves, OwnStays, SessOnly
    <3> QED
      BY <3>1, <3>2
  <2>3. Opened'
    <3>1. CASE t = "main"
      BY <3>1, <1>0, <1>a, <1>t, <1>u, <2>s, <1>l, <2>b DEF TimingTypeOK, BoxTypes, SessTypes,
         LineTypes, ThreadTypes, Opened, Threads, Subroutine, Returns, Measures, Passing,
         TimingReaped, ReapedTo, Owes, Keeps, OnlyMoves, SessOnly, LineOnly, BoxOnly
    <3>2. CASE t = "beat"
      BY <3>2, <1>0, <1>a, <1>t, <1>u, <2>s, <1>l, <2>b DEF TimingTypeOK, BoxTypes, SessTypes,
         LineTypes, ThreadTypes, Opened, Threads, Subroutine, Returns, Measures, Passing,
         TimingReaped, ReapedTo, Owes, Keeps, OnlyMoves, SessOnly, LineOnly, BoxOnly
    <3> QED
      BY <3>1, <3>2
  <2>k. Kept
    <3>1. \A r \in T!Session :
            /\ sess'[r].closed = sess[r].closed /\ sess'[r].tried = sess[r].tried
            /\ sess'[r].known = sess[r].known /\ sess'[r].listed = sess[r].listed
      BY <2>s DEF SessOnly
    <3>2. \A r \in T!Session : box[r] = "gone" => box'[r] = "gone"
      BY <2>b DEF BoxOnly
    <3> QED
      BY <3>1, <3>2, <1>o DEF Kept, OwnStays
  <2>n. Founded
    <3>1. CASE t = "main"
      BY <3>1, <1>0, <1>a, <1>t, <1>u, <2>s, <2>b, <1>o, <1>r
         DEF Founded, CleanIsFinal, TimingTypeOK, ThreadTypes, SessTypes, Keeps, OnlyMoves,
         OwnStays, RunStays, SessOnly
    <3>2. CASE t = "beat"
      BY <3>2, <1>0, <1>a, <1>t, <1>u, <2>s, <2>b, <1>o, <1>r
         DEF Founded, CleanIsFinal, TimingTypeOK, ThreadTypes, SessTypes, Keeps, OnlyMoves,
         OwnStays, RunStays, SessOnly
    <3> QED
      BY <3>1, <3>2
  <2>4. CleanIsFinal'
    BY <1>0, <2>k, <2>n, CleanStays
  <2>5. LineCounted'
    <3>1. CASE t = "main"
      BY <3>1, <1>0, <1>a, <1>t, <1>u, <1>l, <1>r DEF TimingTypeOK, ThreadTypes, LineTypes,
         LineCounted, Opened, Threads, Owes, Keeps, OnlyMoves, RunStays, LineOnly
    <3>2. CASE t = "beat"
      BY <3>2, <1>0, <1>a, <1>t, <1>u, <1>l, <1>r DEF TimingTypeOK, ThreadTypes, LineTypes,
         LineCounted, Opened, Threads, Owes, Keeps, OnlyMoves, RunStays, LineOnly
    <3> QED
      BY <3>1, <3>2
  <2>6. TimingReapedInTurn'
    <3>1. CASE t = "main"
      BY <3>1, <1>0, <1>a, <1>t, <1>u, <2>s, <1>r DEF TimingTypeOK, ThreadTypes, SessTypes,
         TimingReapedInTurn, Opened, Threads, Subroutine, Returns, Measures, Passing,
         TimingReaped, ReapedTo, Owes, Keeps, OnlyMoves, RunStays, SessOnly
    <3>2. CASE t = "beat"
      BY <3>2, <1>0, <1>a, <1>t, <1>u, <2>s, <1>r DEF TimingTypeOK, ThreadTypes, SessTypes,
         TimingReapedInTurn, Opened, Threads, Subroutine, Returns, Measures, Passing,
         TimingReaped, ReapedTo, Owes, Keeps, OnlyMoves, RunStays, SessOnly
    <3> QED
      BY <3>1, <3>2
  <2> QED
    BY <2>1, <2>2, <2>3, <2>4, <2>5, <2>6 DEF TimingInv
<1>3. CASE UNCHANGED <<box, sess>>
  <2>b. UNCHANGED box
    BY <1>3
  <2>s. UNCHANGED sess
    BY <1>3
  <2>1. TimingTypeOK'
    <3>1. ThreadTypes'
      BY <1>0, <1>a, <1>t, ThreadTyped DEF TimingTypeOK, ThreadTypes, Threads, Subroutine,
         Place, Follows, Keeps
    <3>2. LineTypes'
      BY <1>0, <1>a, <1>l, LineTyped DEF TimingTypeOK, LineTypes
    <3> QED
      BY <1>0, <3>1, <1>a, <2>s, <3>2, <2>b, <1>o, <1>r, OtherTyped
         DEF TimingTypeOK, SessTypes, BoxTypes
  <2>2. Threads'
    <3>1. CASE t = "main"
      BY <3>1, <1>0, <1>a, <1>t, <1>u, <2>s, <1>o DEF TimingTypeOK, ThreadTypes, SessTypes,
         Threads, Subroutine, Returns, Measures, Passing, TimingReaped, ReapedTo, Owes, Keeps,
         OnlyMoves, OwnStays
    <3>2. CASE t = "beat"
      BY <3>2, <1>0, <1>a, <1>t, <1>u, <2>s, <1>o DEF TimingTypeOK, ThreadTypes, SessTypes,
         Threads, Subroutine, Returns, Measures, Passing, TimingReaped, ReapedTo, Owes, Keeps,
         OnlyMoves, OwnStays
    <3> QED
      BY <3>1, <3>2
  <2>3. Opened'
    <3>1. CASE t = "main"
      BY <3>1, <1>0, <1>a, <1>t, <1>u, <2>s, <1>l, <2>b DEF TimingTypeOK, BoxTypes, SessTypes,
         LineTypes, ThreadTypes, Opened, Threads, Subroutine, Returns, Measures, Passing,
         TimingReaped, ReapedTo, Owes, Keeps, OnlyMoves, LineOnly
    <3>2. CASE t = "beat"
      BY <3>2, <1>0, <1>a, <1>t, <1>u, <2>s, <1>l, <2>b DEF TimingTypeOK, BoxTypes, SessTypes,
         LineTypes, ThreadTypes, Opened, Threads, Subroutine, Returns, Measures, Passing,
         TimingReaped, ReapedTo, Owes, Keeps, OnlyMoves, LineOnly
    <3> QED
      BY <3>1, <3>2
  <2>k. Kept
    BY <1>0, <1>a, <2>s, <2>b, <1>o DEF Kept, TimingTypeOK, BoxTypes, SessTypes, ThreadTypes,
       Opened, Threads, OwnStays
  <2>n. Founded
    <3>1. CASE t = "main"
      BY <3>1, <1>0, <1>a, <1>t, <1>u, <2>s, <2>b, <1>o, <1>r
         DEF Founded, CleanIsFinal, TimingTypeOK, ThreadTypes, SessTypes, Keeps, OnlyMoves,
         OwnStays, RunStays
    <3>2. CASE t = "beat"
      BY <3>2, <1>0, <1>a, <1>t, <1>u, <2>s, <2>b, <1>o, <1>r
         DEF Founded, CleanIsFinal, TimingTypeOK, ThreadTypes, SessTypes, Keeps, OnlyMoves,
         OwnStays, RunStays
    <3> QED
      BY <3>1, <3>2
  <2>4. CleanIsFinal'
    BY <1>0, <2>k, <2>n, CleanStays
  <2>5. LineCounted'
    <3>1. CASE t = "main"
      BY <3>1, <1>0, <1>a, <1>t, <1>u, <1>l, <1>r DEF TimingTypeOK, ThreadTypes, LineTypes,
         LineCounted, Opened, Threads, Owes, Keeps, OnlyMoves, RunStays, LineOnly
    <3>2. CASE t = "beat"
      BY <3>2, <1>0, <1>a, <1>t, <1>u, <1>l, <1>r DEF TimingTypeOK, ThreadTypes, LineTypes,
         LineCounted, Opened, Threads, Owes, Keeps, OnlyMoves, RunStays, LineOnly
    <3> QED
      BY <3>1, <3>2
  <2>6. TimingReapedInTurn'
    <3>1. CASE t = "main"
      BY <3>1, <1>0, <1>a, <1>t, <1>u, <2>s, <1>r DEF TimingTypeOK, ThreadTypes, SessTypes,
         TimingReapedInTurn, Opened, Threads, Subroutine, Returns, Measures, Passing,
         TimingReaped, ReapedTo, Owes, Keeps, OnlyMoves, RunStays
    <3>2. CASE t = "beat"
      BY <3>2, <1>0, <1>a, <1>t, <1>u, <2>s, <1>r DEF TimingTypeOK, ThreadTypes, SessTypes,
         TimingReapedInTurn, Opened, Threads, Subroutine, Returns, Measures, Passing,
         TimingReaped, ReapedTo, Owes, Keeps, OnlyMoves, RunStays
    <3> QED
      BY <3>1, <3>2
  <2> QED
    BY <2>1, <2>2, <2>3, <2>4, <2>5, <2>6 DEF TimingInv
<1> QED
  BY <1>1, <1>2, <1>3 DEF T!Sweep

\* Who comes later gets the verdict of who came first.
LEMMA TimingAdapter == ASSUME TimingInv, NEW t \in T!Thread, T!Adapter(t) PROVE TimingInv'
<1> USE DEF T!Session, T!Thread, T!Timer, T!S, T!At
<1>0. TimingTypeOK /\ Threads /\ Opened /\ CleanIsFinal /\ LineCounted /\ TimingReapedInTurn
  BY DEF TimingInv
<1>a. /\ th[t].at = "adapter" /\ th[t].s \in T!Session
      /\ UNCHANGED <<job, box, sess, line, lost, run>>
  BY <1>0 DEF T!Adapter, TimingTypeOK, ThreadTypes
<1>r. RunStays /\ run'.err = run.err
  BY <1>a DEF RunStays
<1>1. CASE UNCHANGED own /\ th' = [th EXCEPT ![t].at = "judged", ![t].ok = (own.cache = "clean")]
  <2>t. Keeps(t) /\ th'[t].at = "judged" /\ th'[t].then = th[t].then
    BY <1>0, <1>a, <1>1 DEF TimingTypeOK, ThreadTypes, OnlyMoves, Keeps
  <2>u. th'[t].ok = (own.cache = "clean")
    BY <1>0, <1>a, <1>1 DEF TimingTypeOK, ThreadTypes
  <2>o. OwnStays
    BY <1>0, <1>1 DEF TimingTypeOK, OtherTypes, OwnStays
  <2>1. TimingTypeOK'
    <3>1. ThreadTypes'
      BY <1>0, <1>a, <2>t, ThreadTyped DEF TimingTypeOK, ThreadTypes, Threads, Subroutine,
         Place, Follows, Keeps
    <3> QED
      BY <1>0, <3>1, <1>a, <2>o, <1>r, OtherTyped DEF TimingTypeOK, SessTypes, LineTypes,
         BoxTypes
  <2>2. Threads'
    BY <1>0, <1>a, <2>t, <2>u, <2>o DEF TimingTypeOK, ThreadTypes, SessTypes, Threads,
       Subroutine, Returns, Measures, Passing, TimingReaped, ReapedTo, Owes, Keeps, OnlyMoves,
       OwnStays
  <2>3. Opened'
    BY <1>0, <1>a, <2>t, <2>u DEF TimingTypeOK, BoxTypes, SessTypes, LineTypes, ThreadTypes,
       Opened, Threads, Subroutine, Returns, Measures, Passing, TimingReaped, ReapedTo, Owes,
       Keeps, OnlyMoves
  <2>k. Kept
    BY <1>0, <1>a, <2>o DEF Kept, TimingTypeOK, BoxTypes, SessTypes, ThreadTypes, Opened,
       Threads, OwnStays
  <2>n. Founded
    BY <1>0, <1>a, <2>t, <2>u, <2>o, <1>r DEF Founded, CleanIsFinal, TimingTypeOK, ThreadTypes,
       SessTypes, Keeps, OnlyMoves, OwnStays, RunStays
  <2>4. CleanIsFinal'
    BY <1>0, <2>k, <2>n, CleanStays
  <2>5. LineCounted'
    BY <1>0, <1>a, <2>t, <2>u, <1>r DEF TimingTypeOK, ThreadTypes, LineTypes, LineCounted,
       Opened, Threads, Owes, Keeps, OnlyMoves, RunStays
  <2>6. TimingReapedInTurn'
    BY <1>0, <1>a, <2>t, <2>u, <1>r DEF TimingTypeOK, ThreadTypes, SessTypes,
       TimingReapedInTurn, Opened, Threads, Subroutine, Returns, Measures, Passing,
       TimingReaped, ReapedTo, Owes, Keeps, OnlyMoves, RunStays
  <2> QED
    BY <2>1, <2>2, <2>3, <2>4, <2>5, <2>6 DEF TimingInv
<1>2. CASE own' = [own EXCEPT !.cache = "dirty"]
         /\ th' = [th EXCEPT ![t].at = "judged", ![t].ok = FALSE]
  <2>t. Keeps(t) /\ th'[t].at = "judged" /\ th'[t].then = th[t].then
    BY <1>0, <1>a, <1>2 DEF TimingTypeOK, ThreadTypes, OnlyMoves, Keeps
  <2>u. ~th'[t].ok
    BY <1>0, <1>a, <1>2 DEF TimingTypeOK, ThreadTypes
  <2>o. /\ DOMAIN own' = DOMAIN own /\ own'.closing = own.closing
        /\ own'.fenced = own.fenced /\ own'.cache = "dirty"
    BY <1>0, <1>2 DEF TimingTypeOK, OtherTypes
  <2>1. TimingTypeOK'
    <3>1. ThreadTypes'
      BY <1>0, <1>a, <2>t, ThreadTyped DEF TimingTypeOK, ThreadTypes, Threads, Subroutine,
         Place, Follows, Keeps
    <3>2. OtherTypes'
      BY <1>0, <1>a, <2>o DEF TimingTypeOK, OtherTypes
    <3> QED
      BY <1>0, <3>1, <1>a, <3>2 DEF TimingTypeOK, SessTypes, LineTypes, BoxTypes
  <2>2. Threads'
    BY <1>0, <1>a, <2>t, <2>u, <2>o DEF TimingTypeOK, ThreadTypes, SessTypes, Threads,
       Subroutine, Returns, Measures, Passing, TimingReaped, ReapedTo, Owes, Keeps, OnlyMoves
  <2>3. Opened'
    BY <1>0, <1>a, <2>t, <2>u DEF TimingTypeOK, BoxTypes, SessTypes, LineTypes, ThreadTypes,
       Opened, Threads, Subroutine, Returns, Measures, Passing, TimingReaped, ReapedTo, Owes,
       Keeps, OnlyMoves
  <2>k. Kept
    BY <1>0, <1>a, <2>o DEF Kept, TimingTypeOK, BoxTypes, SessTypes, ThreadTypes, Opened,
       Threads
  <2>n. Founded
    BY <1>0, <1>a, <2>t, <2>u, <2>o, <1>r DEF Founded, CleanIsFinal, TimingTypeOK, ThreadTypes,
       SessTypes, Keeps, OnlyMoves, RunStays
  <2>4. CleanIsFinal'
    BY <1>0, <2>k, <2>n, CleanStays
  <2>5. LineCounted'
    BY <1>0, <1>a, <2>t, <2>u, <1>r DEF TimingTypeOK, ThreadTypes, LineTypes, LineCounted,
       Opened, Threads, Owes, Keeps, OnlyMoves, RunStays
  <2>6. TimingReapedInTurn'
    BY <1>0, <1>a, <2>t, <2>u, <1>r DEF TimingTypeOK, ThreadTypes, SessTypes,
       TimingReapedInTurn, Opened, Threads, Subroutine, Returns, Measures, Passing,
       TimingReaped, ReapedTo, Owes, Keeps, OnlyMoves, RunStays
  <2> QED
    BY <2>1, <2>2, <2>3, <2>4, <2>5, <2>6 DEF TimingInv
<1>3. CASE T!Go(t, "finish") /\ own' = [own EXCEPT !.gate = t]
  <2>t. Goes(t, "finish")
    BY <1>0, <1>3, ThreadGoes DEF TimingTypeOK
  <2>o. OwnStays
    BY <1>0, <1>3 DEF TimingTypeOK, OtherTypes, OwnStays
  <2>1. TimingTypeOK'
    <3>1. ThreadTypes'
      BY <1>0, <2>t, GoesTyped DEF TimingTypeOK, Place
    <3> QED
      BY <1>0, <3>1, <1>a, <2>o, <1>r, OtherTyped DEF TimingTypeOK, SessTypes, LineTypes,
         BoxTypes
  <2>2. Threads'
    BY <1>0, <1>a, <2>t, <2>o DEF TimingTypeOK, ThreadTypes, SessTypes, Threads, Subroutine,
       Returns, Measures, Passing, TimingReaped, ReapedTo, Owes, Goes, Keeps, OnlyMoves,
       OwnStays
  <2>3. Opened'
    BY <1>0, <1>a, <2>t DEF TimingTypeOK, BoxTypes, SessTypes, LineTypes, ThreadTypes, Opened,
       Threads, Subroutine, Returns, Measures, Passing, TimingReaped, ReapedTo, Owes, Goes,
       Keeps, OnlyMoves
  <2>k. Kept
    BY <1>0, <1>a, <2>o DEF Kept, TimingTypeOK, BoxTypes, SessTypes, ThreadTypes, Opened,
       Threads, OwnStays
  <2>n. Founded
    BY <1>0, <1>a, <2>t, <2>o, <1>r DEF Founded, CleanIsFinal, TimingTypeOK, ThreadTypes,
       SessTypes, Goes, Keeps, OnlyMoves, OwnStays, RunStays
  <2>4. CleanIsFinal'
    BY <1>0, <2>k, <2>n, CleanStays
  <2>5. LineCounted'
    BY <1>0, <1>a, <2>t, <1>r DEF TimingTypeOK, ThreadTypes, LineTypes, LineCounted, Opened,
       Threads, Owes, Goes, Keeps, OnlyMoves, RunStays
  <2>6. TimingReapedInTurn'
    BY <1>0, <1>a, <2>t, <1>r DEF TimingTypeOK, ThreadTypes, SessTypes, TimingReapedInTurn,
       Opened, Threads, Subroutine, Returns, Measures, Passing, TimingReaped, ReapedTo, Owes,
       Goes, Keeps, OnlyMoves, RunStays
  <2> QED
    BY <2>1, <2>2, <2>3, <2>4, <2>5, <2>6 DEF TimingInv
<1> QED
  BY <1>1, <1>2, <1>3 DEF T!Adapter

\* From here on no session is listed.
LEMMA TimingFinish == ASSUME TimingInv, NEW t \in T!Thread, T!Finish(t) PROVE TimingInv'
<1> USE DEF T!Session, T!Thread, T!Timer, T!S, T!At
<1>0. TimingTypeOK /\ Threads /\ Opened /\ CleanIsFinal /\ LineCounted /\ TimingReapedInTurn
  BY DEF TimingInv
<1>a. /\ th[t].at = "finish" /\ th[t].s \in T!Session
      /\ UNCHANGED <<job, box, sess, line, lost, run>>
  BY <1>0 DEF T!Finish, TimingTypeOK, ThreadTypes
<1>r. RunStays /\ run'.err = run.err
  BY <1>a DEF RunStays
<1>1. CASE UNCHANGED own /\ th' = [th EXCEPT ![t].at = "health", ![t].ok = FALSE]
  <2>t. Keeps(t) /\ th'[t].at = "health" /\ th'[t].then = th[t].then
    BY <1>0, <1>a, <1>1 DEF TimingTypeOK, ThreadTypes, OnlyMoves, Keeps
  <2>o. OwnStays
    BY <1>0, <1>1 DEF TimingTypeOK, OtherTypes, OwnStays
  <2>1. TimingTypeOK'
    <3>1. ThreadTypes'
      BY <1>0, <1>a, <2>t, ThreadTyped DEF TimingTypeOK, ThreadTypes, Threads, Subroutine,
         Place, Follows, Keeps
    <3> QED
      BY <1>0, <3>1, <1>a, <2>o, <1>r, OtherTyped DEF TimingTypeOK, SessTypes, LineTypes,
         BoxTypes
  <2>2. Threads'
    BY <1>0, <1>a, <2>t, <2>o DEF TimingTypeOK, ThreadTypes, SessTypes, Threads, Subroutine,
       Returns, Measures, Passing, TimingReaped, ReapedTo, Owes, Keeps, OnlyMoves, OwnStays
  <2>3. Opened'
    BY <1>0, <1>a, <2>t DEF TimingTypeOK, BoxTypes, SessTypes, LineTypes, ThreadTypes, Opened,
       Threads, Subroutine, Returns, Measures, Passing, TimingReaped, ReapedTo, Owes, Keeps,
       OnlyMoves
  <2>k. Kept
    BY <1>0, <1>a, <2>o DEF Kept, TimingTypeOK, BoxTypes, SessTypes, ThreadTypes, Opened,
       Threads, OwnStays
  <2>n. Founded
    BY <1>0, <1>a, <2>t, <2>o, <1>r DEF Founded, CleanIsFinal, TimingTypeOK, ThreadTypes,
       SessTypes, Keeps, OnlyMoves, OwnStays, RunStays
  <2>4. CleanIsFinal'
    BY <1>0, <2>k, <2>n, CleanStays
  <2>5. LineCounted'
    BY <1>0, <1>a, <2>t, <1>r DEF TimingTypeOK, ThreadTypes, LineTypes, LineCounted, Opened,
       Threads, Owes, Keeps, OnlyMoves, RunStays
  <2>6. TimingReapedInTurn'
    BY <1>0, <1>a, <2>t, <1>r DEF TimingTypeOK, ThreadTypes, SessTypes, TimingReapedInTurn,
       Opened, Threads, Subroutine, Returns, Measures, Passing, TimingReaped, ReapedTo, Owes,
       Keeps, OnlyMoves, RunStays
  <2> QED
    BY <2>1, <2>2, <2>3, <2>4, <2>5, <2>6 DEF TimingInv
<1>2. CASE own' = [own EXCEPT !.lock = t, !.closing = TRUE]
         /\ th' = [th EXCEPT ![t].at = "pass", ![t].todo = T!Listed]
  <2>t. /\ OnlyMoves(t) /\ th'[t].at = "pass" /\ th'[t].s = th[t].s
        /\ th'[t].then = th[t].then /\ th'[t].todo = T!Listed
    BY <1>0, <1>a, <1>2 DEF TimingTypeOK, ThreadTypes, OnlyMoves, Keeps
  <2>o. /\ DOMAIN own' = DOMAIN own /\ own'.closing
        /\ own'.fenced = own.fenced /\ own'.cache = own.cache
    BY <1>0, <1>2 DEF TimingTypeOK, OtherTypes
  <2>1. TimingTypeOK'
    <3>1. ThreadTypes'
      BY <1>0, <1>a, <2>t, ThreadTyped DEF TimingTypeOK, ThreadTypes, Threads, Subroutine,
         Place, Follows, Keeps, T!Listed
    <3>2. OtherTypes'
      BY <1>0, <1>a, <2>o DEF TimingTypeOK, OtherTypes
    <3> QED
      BY <1>0, <3>1, <1>a, <3>2 DEF TimingTypeOK, SessTypes, LineTypes, BoxTypes
  <2>2. Threads'
    BY <1>0, <1>a, <2>t, <2>o DEF TimingTypeOK, ThreadTypes, SessTypes, Threads, Subroutine,
       Returns, Measures, Passing, TimingReaped, ReapedTo, Owes, OnlyMoves
  <2>3. Opened'
    BY <1>0, <1>a, <2>t DEF TimingTypeOK, BoxTypes, SessTypes, LineTypes, ThreadTypes, Opened,
       Threads, Subroutine, Returns, Measures, Passing, TimingReaped, ReapedTo, Owes, OnlyMoves
  <2>k. Kept
    BY <1>0, <1>a, <2>o DEF Kept, TimingTypeOK, BoxTypes, SessTypes, ThreadTypes, Opened,
       Threads
  <2>n. Founded
    BY <1>0, <1>a, <2>t, <2>o, <1>r DEF Founded, CleanIsFinal, TimingTypeOK, ThreadTypes,
       SessTypes, OnlyMoves, RunStays
  <2>4. CleanIsFinal'
    BY <1>0, <2>k, <2>n, CleanStays
  <2>5. LineCounted'
    BY <1>0, <1>a, <2>t, <1>r DEF TimingTypeOK, ThreadTypes, LineTypes, LineCounted, Opened,
       Threads, Owes, OnlyMoves, RunStays
  <2>6. TimingReapedInTurn'
    BY <1>0, <1>a, <2>t, <1>r DEF TimingTypeOK, ThreadTypes, SessTypes, TimingReapedInTurn,
       Opened, Threads, Subroutine, Returns, Measures, Passing, TimingReaped, ReapedTo, Owes,
       OnlyMoves, RunStays
  <2> QED
    BY <2>1, <2>2, <2>3, <2>4, <2>5, <2>6 DEF TimingInv
<1> QED
  BY <1>1, <1>2 DEF T!Finish

\* First a good end for every session ...
LEMMA TimingClosePass == ASSUME TimingInv, NEW t \in T!Thread, T!ClosePass(t) PROVE TimingInv'
<1> USE DEF T!Session, T!Thread, T!Timer, T!S, T!At
<1>0. TimingTypeOK /\ Threads /\ Opened /\ CleanIsFinal /\ LineCounted /\ TimingReapedInTurn
  BY DEF TimingInv
<1>a. /\ th[t].at = "pass" /\ th[t].s \in T!Session
      /\ UNCHANGED <<job, box, sess, line, own, lost, run>>
  BY <1>0 DEF T!ClosePass, TimingTypeOK, ThreadTypes
<1>o. OwnStays
  BY <1>0 DEF TimingTypeOK, OtherTypes, OwnStays, T!ClosePass
<1>r. RunStays /\ run'.err = run.err
  BY <1>a DEF RunStays
<1>1. CASE th[t].todo # {}
         /\ th' = [th EXCEPT ![t].at = "close", ![t].then = "pass",
                              ![t].s = T!First(th[t].todo), ![t].todo = @ \ {T!First(@)}]
  <2>xf. T!First(th[t].todo) \in th[t].todo /\ th[t].todo \subseteq T!Session
    BY <1>0, <1>1, FirstOf DEF TimingTypeOK, ThreadTypes
  <2>t. /\ OnlyMoves(t) /\ th'[t].at = "close" /\ th'[t].then = "pass"
        /\ th'[t].s = T!First(th[t].todo) /\ th'[t].todo = th[t].todo \ {T!First(th[t].todo)}
    BY <1>0, <1>a, <1>1 DEF TimingTypeOK, ThreadTypes, OnlyMoves
  <2>u. th'[t].s \in T!Session /\ th'[t].todo \subseteq T!Session
    BY <2>xf, <2>t
  <2>1. TimingTypeOK'
    <3>1. ThreadTypes'
      BY <1>0, <1>a, <2>t, <2>u, ThreadTyped DEF TimingTypeOK, Place, Follows
    <3> QED
      BY <1>0, <3>1, <1>a, <1>o, <1>r, OtherTyped DEF TimingTypeOK, SessTypes, LineTypes,
         BoxTypes
  <2>2. Threads'
    BY <1>0, <1>a, <2>t, <2>u, <1>o DEF TimingTypeOK, ThreadTypes, SessTypes, Threads,
       Subroutine, Returns, Measures, Passing, TimingReaped, ReapedTo, Owes, OnlyMoves, OwnStays
  <2>3. Opened'
    BY <1>0, <1>a, <2>t, <2>u DEF TimingTypeOK, BoxTypes, SessTypes, LineTypes, ThreadTypes,
       Opened, Threads, Subroutine, Returns, Measures, Passing, TimingReaped, ReapedTo, Owes,
       OnlyMoves
  <2>k. Kept
    BY <1>0, <1>a, <1>o DEF Kept, TimingTypeOK, BoxTypes, SessTypes, ThreadTypes, Opened,
       Threads, OwnStays
  <2>n. Founded
    BY <1>0, <1>a, <2>t, <2>u, <1>o, <1>r DEF Founded, CleanIsFinal, TimingTypeOK, ThreadTypes,
       SessTypes, OnlyMoves, OwnStays, RunStays
  <2>4. CleanIsFinal'
    BY <1>0, <2>k, <2>n, CleanStays
  <2>5. LineCounted'
    BY <1>0, <1>a, <2>t, <2>u, <1>r DEF TimingTypeOK, ThreadTypes, LineTypes, LineCounted,
       Opened, Threads, Owes, OnlyMoves, RunStays
  <2>6. TimingReapedInTurn'
    BY <1>0, <1>a, <2>t, <2>u, <1>r DEF TimingTypeOK, ThreadTypes, SessTypes,
       TimingReapedInTurn, Opened, Threads, Subroutine, Returns, Measures, Passing,
       TimingReaped, ReapedTo, Owes, OnlyMoves, RunStays
  <2> QED
    BY <2>1, <2>2, <2>3, <2>4, <2>5, <2>6 DEF TimingInv
<1>2. CASE th' = [th EXCEPT ![t].at = "sweeps", ![t].todo = T!Listed]
  <2>t. /\ OnlyMoves(t) /\ th'[t].at = "sweeps" /\ th'[t].s = th[t].s
        /\ th'[t].then = th[t].then /\ th'[t].todo = T!Listed
    BY <1>0, <1>a, <1>2 DEF TimingTypeOK, ThreadTypes, OnlyMoves, Keeps
  <2>1. TimingTypeOK'
    <3>1. ThreadTypes'
      BY <1>0, <1>a, <2>t, ThreadTyped DEF TimingTypeOK, ThreadTypes, Threads, Subroutine,
         Place, Follows, Keeps, T!Listed
    <3> QED
      BY <1>0, <3>1, <1>a, <1>o, <1>r, OtherTyped DEF TimingTypeOK, SessTypes, LineTypes,
         BoxTypes
  <2>2. Threads'
    BY <1>0, <1>a, <2>t, <1>o DEF TimingTypeOK, ThreadTypes, SessTypes, Threads, Subroutine,
       Returns, Measures, Passing, TimingReaped, ReapedTo, Owes, OnlyMoves, OwnStays
  <2>3. Opened'
    BY <1>0, <1>a, <2>t DEF TimingTypeOK, BoxTypes, SessTypes, LineTypes, ThreadTypes, Opened,
       Threads, Subroutine, Returns, Measures, Passing, TimingReaped, ReapedTo, Owes, OnlyMoves
  <2>k. Kept
    BY <1>0, <1>a, <1>o DEF Kept, TimingTypeOK, BoxTypes, SessTypes, ThreadTypes, Opened,
       Threads, OwnStays
  <2>n. Founded
    BY <1>0, <1>a, <2>t, <1>o, <1>r DEF Founded, CleanIsFinal, TimingTypeOK, ThreadTypes,
       SessTypes, OnlyMoves, OwnStays, RunStays
  <2>4. CleanIsFinal'
    BY <1>0, <2>k, <2>n, CleanStays
  <2>5. LineCounted'
    BY <1>0, <1>a, <2>t, <1>r DEF TimingTypeOK, ThreadTypes, LineTypes, LineCounted, Opened,
       Threads, Owes, OnlyMoves, RunStays
  <2>6. TimingReapedInTurn'
    BY <1>0, <1>a, <2>t, <1>r DEF TimingTypeOK, ThreadTypes, SessTypes, TimingReapedInTurn,
       Opened, Threads, Subroutine, Returns, Measures, Passing, TimingReaped, ReapedTo, Owes,
       OnlyMoves, RunStays
  <2> QED
    BY <2>1, <2>2, <2>3, <2>4, <2>5, <2>6 DEF TimingInv
<1> QED
  BY <1>1, <1>2 DEF T!ClosePass

\* ... then a sweep; all clean means that everything is final.
LEMMA TimingSweepPass == ASSUME TimingInv, NEW t \in T!Thread, T!SweepPass(t) PROVE TimingInv'
<1> USE DEF T!Session, T!Thread, T!Timer, T!S, T!At
<1>0. TimingTypeOK /\ Threads /\ Opened /\ CleanIsFinal /\ LineCounted /\ TimingReapedInTurn
  BY DEF TimingInv
<1>a. /\ th[t].at = "sweeps" /\ th[t].s \in T!Session
      /\ UNCHANGED <<job, box, sess, line, lost, run>>
  BY <1>0 DEF T!SweepPass, TimingTypeOK, ThreadTypes
<1>o. OwnStays
  BY <1>0 DEF TimingTypeOK, OtherTypes, OwnStays, T!SweepPass, T!Unlock
<1>r. RunStays /\ run'.err = run.err
  BY <1>a DEF RunStays
<1>1. CASE th[t].todo # {}
         /\ th' = [th EXCEPT ![t].at = "shut", ![t].then = "sweeps",
                              ![t].s = T!First(th[t].todo), ![t].todo = @ \ {T!First(@)}]
  <2>xf. T!First(th[t].todo) \in th[t].todo /\ th[t].todo \subseteq T!Session
    BY <1>0, <1>1, FirstOf DEF TimingTypeOK, ThreadTypes
  <2>t. /\ OnlyMoves(t) /\ th'[t].at = "shut" /\ th'[t].then = "sweeps"
        /\ th'[t].s = T!First(th[t].todo) /\ th'[t].todo = th[t].todo \ {T!First(th[t].todo)}
    BY <1>0, <1>a, <1>1 DEF TimingTypeOK, ThreadTypes, OnlyMoves
  <2>u. th'[t].s \in T!Session /\ th'[t].todo \subseteq T!Session
    BY <2>xf, <2>t
  <2>1. TimingTypeOK'
    <3>1. ThreadTypes'
      BY <1>0, <1>a, <2>t, <2>u, ThreadTyped DEF TimingTypeOK, Place, Follows
    <3> QED
      BY <1>0, <3>1, <1>a, <1>o, <1>r, OtherTyped DEF TimingTypeOK, SessTypes, LineTypes,
         BoxTypes
  <2>2. Threads'
    BY <1>0, <1>a, <2>t, <2>u, <1>o DEF TimingTypeOK, ThreadTypes, SessTypes, Threads,
       Subroutine, Returns, Measures, Passing, TimingReaped, ReapedTo, Owes, OnlyMoves, OwnStays
  <2>3. Opened'
    BY <1>0, <1>a, <2>t, <2>u DEF TimingTypeOK, BoxTypes, SessTypes, LineTypes, ThreadTypes,
       Opened, Threads, Subroutine, Returns, Measures, Passing, TimingReaped, ReapedTo, Owes,
       OnlyMoves
  <2>k. Kept
    BY <1>0, <1>a, <1>o DEF Kept, TimingTypeOK, BoxTypes, SessTypes, ThreadTypes, Opened,
       Threads, OwnStays
  <2>n. Founded
    BY <1>0, <1>a, <2>t, <2>u, <1>o, <1>r DEF Founded, CleanIsFinal, TimingTypeOK, ThreadTypes,
       SessTypes, OnlyMoves, OwnStays, RunStays
  <2>4. CleanIsFinal'
    BY <1>0, <2>k, <2>n, CleanStays
  <2>5. LineCounted'
    BY <1>0, <1>a, <2>t, <2>u, <1>r DEF TimingTypeOK, ThreadTypes, LineTypes, LineCounted,
       Opened, Threads, Owes, OnlyMoves, RunStays
  <2>6. TimingReapedInTurn'
    BY <1>0, <1>a, <2>t, <2>u, <1>r DEF TimingTypeOK, ThreadTypes, SessTypes,
       TimingReapedInTurn, Opened, Threads, Subroutine, Returns, Measures, Passing,
       TimingReaped, ReapedTo, Owes, OnlyMoves, RunStays
  <2> QED
    BY <2>1, <2>2, <2>3, <2>4, <2>5, <2>6 DEF TimingInv
<1>2. CASE th' = [th EXCEPT ![t].at = "fenced", ![t].ok = \A s \in T!Listed : sess[s].clean]
  <2>t. Keeps(t) /\ th'[t].at = "fenced" /\ th'[t].then = th[t].then
    BY <1>0, <1>a, <1>2 DEF TimingTypeOK, ThreadTypes, OnlyMoves, Keeps
  <2>u. th'[t].ok = (\A s \in T!Listed : sess[s].clean)
    BY <1>0, <1>a, <1>2 DEF TimingTypeOK, ThreadTypes
  <2>v. (\A s \in T!Listed : sess[s].clean) => AllQuiet
    BY <1>0, <1>a DEF CleanIsFinal, AllQuiet, Quiet, T!Listed, Threads, Passing
  <2>w. th'[t].ok => AllQuiet
    BY <2>u, <2>v
  <2>1. TimingTypeOK'
    <3>1. ThreadTypes'
      BY <1>0, <1>a, <2>t, ThreadTyped DEF TimingTypeOK, ThreadTypes, Threads, Subroutine,
         Place, Follows, Keeps
    <3> QED
      BY <1>0, <3>1, <1>a, <1>o, <1>r, OtherTyped DEF TimingTypeOK, SessTypes, LineTypes,
         BoxTypes
  <2>2. Threads'
    BY <1>0, <1>a, <2>t, <2>u, <2>v, <2>w, <1>o DEF TimingTypeOK, ThreadTypes, SessTypes,
       Threads, Subroutine, Returns, Measures, Passing, TimingReaped, ReapedTo, Owes, Keeps,
       OnlyMoves, OwnStays
  <2>3. Opened'
    BY <1>0, <1>a, <2>t, <2>u, <2>v, <2>w DEF TimingTypeOK, BoxTypes, SessTypes, LineTypes,
       ThreadTypes, Opened, Threads, Subroutine, Returns, Measures, Passing, TimingReaped,
       ReapedTo, Owes, Keeps, OnlyMoves
  <2>k. Kept
    BY <1>0, <1>a, <1>o DEF Kept, TimingTypeOK, BoxTypes, SessTypes, ThreadTypes, Opened,
       Threads, OwnStays
  <2>n. Founded
    BY <1>0, <1>a, <2>t, <2>u, <2>v, <2>w, <1>o, <1>r DEF Founded, CleanIsFinal, TimingTypeOK,
       ThreadTypes, SessTypes, Keeps, OnlyMoves, OwnStays, RunStays
  <2>4. CleanIsFinal'
    BY <1>0, <2>k, <2>n, CleanStays
  <2>5. LineCounted'
    BY <1>0, <1>a, <2>t, <2>u, <2>v, <2>w, <1>r DEF TimingTypeOK, ThreadTypes, LineTypes,
       LineCounted, Opened, Threads, Owes, Keeps, OnlyMoves, RunStays
  <2>6. TimingReapedInTurn'
    BY <1>0, <1>a, <2>t, <2>u, <2>v, <2>w, <1>r DEF TimingTypeOK, ThreadTypes, SessTypes,
       TimingReapedInTurn, Opened, Threads, Subroutine, Returns, Measures, Passing,
       TimingReaped, ReapedTo, Owes, Keeps, OnlyMoves, RunStays
  <2> QED
    BY <2>1, <2>2, <2>3, <2>4, <2>5, <2>6 DEF TimingInv
<1> QED
  BY <1>1, <1>2 DEF T!SweepPass

\* The shared verdict is that of who swept last.
LEMMA TimingFenced == ASSUME TimingInv, NEW t \in T!Thread, T!Fenced(t) PROVE TimingInv'
<1> USE DEF T!Session, T!Thread, T!Timer, T!S, T!At
<1>0. TimingTypeOK /\ Threads /\ Opened /\ CleanIsFinal /\ LineCounted /\ TimingReapedInTurn
  BY DEF TimingInv
<1>a. /\ th[t].at = "fenced" /\ th[t].s \in T!Session
      /\ UNCHANGED <<job, box, sess, line, lost, run>>
  BY <1>0 DEF T!Fenced, TimingTypeOK, ThreadTypes
<1>r. RunStays /\ run'.err = run.err
  BY <1>a DEF RunStays
<1>x. T!Go(t, "health") /\ own' = [own EXCEPT !.fenced = th[t].ok]
  BY DEF T!Fenced
<1>t. Goes(t, "health")
  BY <1>0, <1>x, ThreadGoes DEF TimingTypeOK
<1>o. /\ DOMAIN own' = DOMAIN own /\ own'.closing = own.closing
      /\ own'.cache = own.cache /\ own'.fenced = th[t].ok
  BY <1>0, <1>x DEF TimingTypeOK, OtherTypes
<1>1. TimingTypeOK'
  <2>1. ThreadTypes'
    BY <1>0, <1>t, GoesTyped DEF TimingTypeOK, Place
  <2>2. OtherTypes'
    BY <1>0, <1>a, <1>o DEF TimingTypeOK, OtherTypes
  <2> QED
    BY <1>0, <2>1, <1>a, <2>2 DEF TimingTypeOK, SessTypes, LineTypes, BoxTypes
<1>2. Threads'
  BY <1>0, <1>a, <1>t, <1>o DEF TimingTypeOK, ThreadTypes, SessTypes, Threads, Subroutine,
     Returns, Measures, Passing, TimingReaped, ReapedTo, Owes, Goes, Keeps, OnlyMoves
<1>3. Opened'
  BY <1>0, <1>a, <1>t DEF TimingTypeOK, BoxTypes, SessTypes, LineTypes, ThreadTypes, Opened,
     Threads, Subroutine, Returns, Measures, Passing, TimingReaped, ReapedTo, Owes, Goes,
     Keeps, OnlyMoves
<1>k. Kept
  BY <1>0, <1>a, <1>o DEF Kept, TimingTypeOK, BoxTypes, SessTypes, ThreadTypes, Opened, Threads
<1>n. Founded
  BY <1>0, <1>a, <1>t, <1>o, <1>r DEF Founded, CleanIsFinal, TimingTypeOK, ThreadTypes,
     SessTypes, Goes, Keeps, OnlyMoves, RunStays
<1>4. CleanIsFinal'
  BY <1>0, <1>k, <1>n, CleanStays
<1>5. LineCounted'
  BY <1>0, <1>a, <1>t, <1>r DEF TimingTypeOK, ThreadTypes, LineTypes, LineCounted, Opened,
     Threads, Owes, Goes, Keeps, OnlyMoves, RunStays
<1>6. TimingReapedInTurn'
  BY <1>0, <1>a, <1>t, <1>r DEF TimingTypeOK, ThreadTypes, SessTypes, TimingReapedInTurn,
     Opened, Threads, Subroutine, Returns, Measures, Passing, TimingReaped, ReapedTo, Owes,
     Goes, Keeps, OnlyMoves, RunStays
<1> QED
  BY <1>1, <1>2, <1>3, <1>4, <1>5, <1>6 DEF TimingInv

\* Healthy needs the shared verdict.
LEMMA TimingHealth == ASSUME TimingInv, NEW t \in T!Thread, T!Health(t) PROVE TimingInv'
<1> USE DEF T!Session, T!Thread, T!Timer, T!S, T!At
<1>0. TimingTypeOK /\ Threads /\ Opened /\ CleanIsFinal /\ LineCounted /\ TimingReapedInTurn
  BY DEF TimingInv
<1>a. /\ th[t].at = "health" /\ th[t].s \in T!Session
      /\ UNCHANGED <<job, box, sess, line, own, lost, run>>
  BY <1>0 DEF T!Health, TimingTypeOK, ThreadTypes
<1>o. OwnStays
  BY <1>0 DEF TimingTypeOK, OtherTypes, OwnStays, T!Health
<1>r. RunStays /\ run'.err = run.err
  BY <1>a DEF RunStays
<1>x. PICK healthy \in BOOLEAN :
        th' = [th EXCEPT ![t].at = "judged", ![t].ok = own.fenced /\ healthy]
  BY DEF T!Health
<1>t. Keeps(t) /\ th'[t].at = "judged" /\ th'[t].then = th[t].then
  BY <1>0, <1>a, <1>x DEF TimingTypeOK, ThreadTypes, OnlyMoves, Keeps
<1>u. th'[t].ok = (own.fenced /\ healthy)
  BY <1>0, <1>a, <1>x DEF TimingTypeOK, ThreadTypes
<1>v. th'[t].ok => own.fenced
  BY <1>u
<1>1. TimingTypeOK'
  <2>1. ThreadTypes'
    BY <1>0, <1>a, <1>t, ThreadTyped DEF TimingTypeOK, ThreadTypes, Threads, Subroutine, Place,
       Follows, Keeps
  <2> QED
    BY <1>0, <2>1, <1>a, <1>o, <1>r, OtherTyped DEF TimingTypeOK, SessTypes, LineTypes, BoxTypes
<1>2. Threads'
  BY <1>0, <1>a, <1>t, <1>u, <1>v, <1>o DEF TimingTypeOK, ThreadTypes, SessTypes, Threads,
     Subroutine, Returns, Measures, Passing, TimingReaped, ReapedTo, Owes, Keeps, OnlyMoves,
     OwnStays
<1>3. Opened'
  BY <1>0, <1>a, <1>t, <1>u, <1>v DEF TimingTypeOK, BoxTypes, SessTypes, LineTypes,
     ThreadTypes, Opened, Threads, Subroutine, Returns, Measures, Passing, TimingReaped,
     ReapedTo, Owes, Keeps, OnlyMoves
<1>k. Kept
  BY <1>0, <1>a, <1>o DEF Kept, TimingTypeOK, BoxTypes, SessTypes, ThreadTypes, Opened,
     Threads, OwnStays
<1>n. Founded
  BY <1>0, <1>a, <1>t, <1>u, <1>v, <1>o, <1>r DEF Founded, CleanIsFinal, TimingTypeOK,
     ThreadTypes, SessTypes, Keeps, OnlyMoves, OwnStays, RunStays
<1>4. CleanIsFinal'
  BY <1>0, <1>k, <1>n, CleanStays
<1>5. LineCounted'
  BY <1>0, <1>a, <1>t, <1>u, <1>v, <1>r DEF TimingTypeOK, ThreadTypes, LineTypes, LineCounted,
     Opened, Threads, Owes, Keeps, OnlyMoves, RunStays
<1>6. TimingReapedInTurn'
  BY <1>0, <1>a, <1>t, <1>u, <1>v, <1>r DEF TimingTypeOK, ThreadTypes, SessTypes,
     TimingReapedInTurn, Opened, Threads, Subroutine, Returns, Measures, Passing, TimingReaped,
     ReapedTo, Owes, Keeps, OnlyMoves, RunStays
<1> QED
  BY <1>1, <1>2, <1>3, <1>4, <1>5, <1>6 DEF TimingInv

\* Nothing has been opened.
LEMMA TimingInitially == ASSUME T!TimingInit PROVE TimingInv
<1> USE DEF T!TimingInit, T!Session, T!Thread, T!Timer
<1>1. BoxTypes /\ SessTypes /\ LineTypes /\ OtherTypes
  BY DEF BoxTypes, SessTypes, LineTypes, OtherTypes
<1>2. ThreadTypes
  BY MeasurementAssumption DEF ThreadTypes, Place, Follows
<1>3. /\ th["main"].at \in {"open", "build"} /\ th["main"].s = 0 /\ th["beat"].at = "idle"
  OBVIOUS
<1>4. Threads
  BY <1>3 DEF Threads, Subroutine, Passing
<1>5. Opened
  <2>1. \A s \in T!Session :
          /\ ~sess[s].listed /\ ~sess[s].tried /\ ~sess[s].known
          /\ box[s] = "none" /\ line[s].chan = "none"
    OBVIOUS
  <2>2. th["main"].s \in T!Session
    BY <1>2 DEF ThreadTypes
  <2> QED
    BY <1>3, <2>1, <2>2 DEF Opened
<1>6. CleanIsFinal
  BY <1>3 DEF CleanIsFinal
<1>7. LineCounted
  BY <1>3 DEF LineCounted, Owes
<1>8. TimingReapedInTurn
  BY <1>3 DEF TimingReapedInTurn, ReapedTo, Measures, Subroutine
<1> QED
  BY <1>1, <1>2, <1>4, <1>5, <1>6, <1>7, <1>8 DEF TimingInv, TimingTypeOK

\* Every step of either thread and of the daemon.
LEMMA TimingSteps == ASSUME TimingInv, T!TimingNext PROVE TimingInv'
<1>1. "main" \in T!Thread /\ "beat" \in T!Thread
  BY DEF T!Thread
<1>2. ASSUME NEW t \in T!Thread, T!CleanStep(t) PROVE TimingInv'
  BY <1>2, TimingClose, TimingReap, TimingShut, TimingSweep, TimingAdapter, TimingFinish,
     TimingClosePass, TimingSweepPass, TimingFenced, TimingHealth DEF T!CleanStep
<1>3. CASE T!MainStep
  BY <1>1, <1>2, <1>3, TimingBeginBuild, TimingEndBuild, TimingEnter, TimingAttempt,
     TimingCreate, TimingStartUp, TimingReady, TimingUnopened, TimingAsk, TimingAnswer,
     TimingEnough, TimingAbandon, TimingNextProcess, TimingMeasured, TimingJudged
     DEF T!MainStep
<1>4. CASE T!BeatStep
  BY <1>1, <1>2, <1>4, TimingBeatJudged DEF T!BeatStep
<1> QED
  BY <1>3, <1>4, TimingLoseLease, TimingBoxMoves DEF T!TimingNext

\* Another part moves.
LEMMA TimingStays == ASSUME TimingInv, UNCHANGED <<common, onlyT>> PROVE TimingInv'
BY DEF common, onlyT, TimingInv, TimingTypeOK, BoxTypes, SessTypes, LineTypes, ThreadTypes,
       OtherTypes, Threads, Passing, Opened, Measures, CleanIsFinal, AllQuiet, Quiet, Final,
       LineCounted, Owes, TimingReapedInTurn, ReapedTo, TimingReaped

\* What the invariant says of reports and of evidence.
LEMMA TimingMeans == ASSUME TimingInv PROVE T!CleanReportIsFinal /\ T!EvidenceStands
<1>1. AllQuiet => \A s \in T!Session : box[s] \in {"none", "gone"}
  BY DEF TimingInv, Opened, AllQuiet, Quiet, Final
<1>2. T!CleanReportIsFinal
  BY <1>1 DEF TimingInv, CleanIsFinal, T!CleanReportIsFinal
<1>3. T!EvidenceStands
  BY DEF TimingInv, LineCounted, TimingReapedInTurn, TimingReaped, T!EvidenceStands, T!Timer
<1> QED
  BY <1>2, <1>3

-----------------------------------------------------------------------------
(* The parts together.                                                     *)

MInv ==
  /\ part = "bw20" => TimingInv
  /\ part = "nmz36" => DockerInv
  /\ part = "server" => ServerInv
  /\ part = "generator" => GenInv

\* The part that has been chosen moves, and the others stay.
LEMMA InvInit == ASSUME MCInit PROVE MInv
<1>1. CASE part = "worker"
  BY <1>1 DEF MInv
<1>2. CASE part = "bw20" /\ T!TimingInit
  BY <1>2, TimingInitially DEF MInv
<1>3. CASE part = "nmz36" /\ D!DockerInit
  BY <1>3, DockerInit DEF MInv
<1>4. CASE part = "server" /\ S!ServerInit
  BY <1>4, ServerInit DEF MInv
<1>5. CASE part = "generator" /\ G!GeneratorInit
  BY <1>5, GenInit DEF MInv
<1> QED
  BY <1>1, <1>2, <1>3, <1>4, <1>5 DEF MCInit

\* A step of any part.
LEMMA InvNext == ASSUME MInv, [MCNext]_mcvars PROVE MInv'
<1>1. CASE part = "worker" /\ UNCHANGED part
  BY <1>1 DEF MInv
<1>2. CASE part = "bw20" /\ T!TimingNext /\ UNCHANGED part
  BY <1>2, TimingSteps DEF MInv
<1>3. CASE part = "nmz36" /\ D!DockerNext /\ UNCHANGED part
  BY <1>3, DockerNext DEF MInv
<1>4. CASE part = "server" /\ S!ServerNext /\ UNCHANGED part
  BY <1>4, ServerNext DEF MInv
<1>5. CASE part = "generator" /\ G!GeneratorNext /\ UNCHANGED part
  BY <1>5, GenNext DEF MInv
<1>6. CASE UNCHANGED mcvars
  <2>1. UNCHANGED part /\ UNCHANGED <<common, onlyT>> /\ UNCHANGED <<common, onlyD>>
    BY <1>6 DEF mcvars
  <2>2. UNCHANGED onlyS /\ UNCHANGED onlyG
    BY <1>6 DEF mcvars
  <2> QED
    BY <2>1, <2>2, TimingStays, DockerStays, ServerStays, GenStays DEF MInv
<1> QED
  BY <1>1, <1>2, <1>3, <1>4, <1>5, <1>6 DEF MCNext

\* Whatever part is chosen, and however it is scheduled, its invariant holds.
THEOREM MeasurementInvariant == MCInit /\ [][MCNext]_mcvars => []MInv
BY InvInit, InvNext, PTL

\* What is reported as cleaned up is gone, on either host, for a server's group
\* and for a generator's (force_close, finish, fence, _stop_posix_group,
\* _terminate_tree), with any number of measured processes.
THEOREM CleanReportsTheorem == MCSpec => []CleanReportsHold
<1>1. MInv => CleanReportsHold
  BY TimingMeans, DockerMeans, ServerMeans, GenMeans DEF MInv, CleanReportsHold
<1> QED
  BY <1>1, MeasurementInvariant, PTL DEF MCSpec

\* What is filed as a success is complete: evidence rests on answers to its own
\* requests and on processes that were reaped, a server's run on all its answers,
\* a proposal on all that was written (request, close, record_reaped, run_smoke,
\* run_acquisition, _capture_stream), with any limits.
THEOREM EvidenceTheorem == MCSpec => []EvidenceRests
<1>1. MInv => EvidenceRests
  BY TimingMeans, DockerMeans, ServerMeans, GenMeans DEF MInv, EvidenceRests
<1> QED
  BY <1>1, MeasurementInvariant, PTL DEF MCSpec
=============================================================================
