----------------------------- MODULE GeneratorRun -----------------------------
(***************************************************************************)
(* One attempt of a local generator: a command in a process group of its   *)
(* own, two threads that drain its output into bounded buffers, and the    *)
(* thread that watches limits and time, cleans up and decides whether what *)
(* was written is a proposal                                               *)
(* (src/src/hcuopt/adapters/agent_runner.py, POSIX).                       *)
(***************************************************************************)
EXTENDS Naturals

CONSTANTS
  StreamLimit,  \* bytes of a stream that are kept
  TotalLimit,   \* bytes of both together
  MaxBytes      \* bytes that the processes write to a stream, at most

VARIABLES
  proc,   \* the command and a process it may start
  pipe,   \* pipe[s]: bytes written to stream s that nobody has read
  got,    \* got[s]: bytes read, and is the thread that reads at its end?
  over,   \* has a limit been found exceeded?
  gen     \* the thread that runs the attempt

generatorVars == <<proc, pipe, got, over, gen>>

Stream == {"stdout", "stderr"}
Command == {"root", "child"}

GeneratorInit ==
  /\ proc = [p \in Command |-> "none"]
  /\ pipe = [s \in Stream |-> 0]
  /\ got = [s \in Stream |-> [bytes |-> 0, done |-> FALSE]]
  /\ over = FALSE
  /\ gen = [at |-> "preflight", why |-> "none", tree |-> "not_needed", exit |-> "none",
            usage |-> "none", dir |-> FALSE, status |-> "none"]

Min2(a, b) == IF a < b THEN a ELSE b
Total == got["stdout"].bytes + got["stderr"].bytes
Kept(s) == Min2(got[s].bytes, StreamLimit)

-----------------------------------------------------------------------------
(* Processes. One that is "up" or "quiet" is in the group, "up" or "away"  *)
(* holds the pipes, "aside" does neither; "dead" is not reaped yet.        *)

InGroup(p) == proc[p] \in {"up", "quiet", "dead"}
HoldsPipes(p) == proc[p] \in {"up", "away"}
Group == \E p \in Command : InGroup(p)

Writes(s) ==
  /\ \E p \in Command : HoldsPipes(p)
  /\ pipe[s] + got[s].bytes < MaxBytes /\ ~got[s].done
  /\ pipe' = [pipe EXCEPT ![s] = @ + 1]
  /\ UNCHANGED <<proc, got, over, gen>>

\* The command forks; what it forks may become the leader of a session and may
\* close what it has inherited; anything may end, and orphans are reaped by init.
Lives ==
  /\ \/ /\ proc["root"] = "up" /\ proc["child"] = "none"
        /\ proc' = [proc EXCEPT !["child"] = "up"]
     \/ \E move \in {<<"up", "quiet">>, <<"up", "away">>,
                     <<"quiet", "aside">>, <<"away", "aside">>} :
          /\ proc["child"] = move[1]
          /\ proc' = [proc EXCEPT !["child"] = move[2]]
     \/ \E p \in Command :
          proc[p] \in {"up", "quiet"} /\ proc' = [proc EXCEPT ![p] = "dead"]
     \/ /\ proc["child"] \in {"dead", "away", "aside"}
        /\ proc' = [proc EXCEPT !["child"] = "gone"]
  /\ UNCHANGED <<pipe, got, over, gen>>

\* Mutant: what has been read is compared before the last chunk is counted.
Capture_Late(s) ==
  /\ gen.at \notin {"preflight", "prepare", "launch", "remove", "over"} /\ ~got[s].done
  /\ \/ /\ pipe[s] > 0
        /\ pipe' = [pipe EXCEPT ![s] = @ - 1]
        /\ got' = [got EXCEPT ![s].bytes = @ + 1]
        /\ over' = (over \/ got[s].bytes > StreamLimit \/ Total > TotalLimit)
     \/ /\ pipe[s] = 0 /\ ~\E p \in Command : HoldsPipes(p)
        /\ got' = [got EXCEPT ![s].done = TRUE]
        /\ UNCHANGED <<pipe, over>>
  /\ UNCHANGED <<proc, gen>>

\* A thread reads what is there, or the end when nobody can write any more.
Capture(s) ==
  /\ gen.at \notin {"preflight", "prepare", "launch", "remove", "over"} /\ ~got[s].done
  /\ \/ /\ pipe[s] > 0
        /\ pipe' = [pipe EXCEPT ![s] = @ - 1]
        /\ got' = [got EXCEPT ![s].bytes = @ + 1]
        /\ over' = (over \/ got'[s].bytes > StreamLimit \/ Total + 1 > TotalLimit)
     \/ /\ pipe[s] = 0 /\ ~\E p \in Command : HoldsPipes(p)
        /\ got' = [got EXCEPT ![s].done = TRUE]
        /\ UNCHANGED <<pipe, over>>
  /\ UNCHANGED <<proc, gen>>

-----------------------------------------------------------------------------
(* The attempt.                                                            *)

At(at) == gen.at = at
Poll == proc' = [proc EXCEPT !["root"] = IF @ = "dead" THEN "gone" ELSE @]

\* Everything about the request is checked before anything is written.
Preflight ==
  /\ At("preflight")
  /\ \/ gen' = [gen EXCEPT !.at = "prepare", !.dir = TRUE]
     \/ gen' = [gen EXCEPT !.at = "over"]
  /\ UNCHANGED <<proc, pipe, got, over>>

\* Inputs and credentials are written, or one of them fails.
PrepareAttempt ==
  /\ At("prepare")
  /\ \E at \in {"launch", "remove"} : gen' = [gen EXCEPT !.at = at]
  /\ UNCHANGED <<proc, pipe, got, over>>

\* The command and the two threads are started, or Popen raises.
Launch ==
  /\ At("launch")
  /\ \/ /\ proc' = [proc EXCEPT !["root"] = "up"]
        /\ gen' = [gen EXCEPT !.at = "watch"]
     \/ /\ gen' = [gen EXCEPT !.at = "remove"]
        /\ UNCHANGED proc
  /\ UNCHANGED <<pipe, got, over>>

\* Until the command ends, a limit is exceeded, or time is up.
Watch ==
  /\ At("watch")
  /\ Poll
  /\ gen' = [gen EXCEPT !.at = "term",
       !.why = IF proc'["root"] = "gone" THEN "none"
               ELSE IF over THEN "limit" ELSE "timeout"]
  /\ UNCHANGED <<pipe, got, over>>

Cleaned(how) == gen' = [gen EXCEPT !.at = "wait", !.tree = how]

\* Mutant: a command that has ended needs no cleanup.
Terminate_Ended ==
  /\ At("term")
  /\ IF proc["root"] = "gone" \/ ~Group THEN Cleaned("terminated")
     ELSE Cleaned("failed") \/ gen' = [gen EXCEPT !.at = "grace"]
  /\ UNCHANGED <<proc, pipe, got, over>>

\* SIGTERM to the group, however the command has ended.
Terminate ==
  /\ At("term")
  /\ IF ~Group THEN Cleaned("terminated")
     ELSE Cleaned("failed") \/ gen' = [gen EXCEPT !.at = "grace"]
  /\ UNCHANGED <<proc, pipe, got, over>>

Grace ==
  /\ At("grace")
  /\ Poll
  /\ \/ ~Group' /\ Cleaned("terminated")
     \/ gen' = [gen EXCEPT !.at = "kill"]
  /\ UNCHANGED <<pipe, got, over>>

\* SIGKILL, and a second wait.
Kill ==
  /\ At("kill")
  /\ \/ ~Group /\ Cleaned("terminated") /\ UNCHANGED proc
     \/ Poll /\ ~Group' /\ Cleaned("killed")
     \/ Poll /\ Cleaned("failed")
  /\ UNCHANGED <<pipe, got, over>>

\* The exit code of the command, if it comes.
WaitExit ==
  /\ At("wait")
  /\ Poll
  /\ \/ /\ proc'["root"] = "gone"
        /\ \E code \in {"zero", "other"} :
             gen' = [gen EXCEPT !.at = "join", !.exit = code]
     \/ /\ proc["root"] # "gone"
        /\ gen' = [gen EXCEPT !.at = "join", !.tree = "failed"]
  /\ UNCHANGED <<pipe, got, over>>

\* Mutant: the threads are given time to end, and are not asked whether they have.
Join_Hopeful ==
  /\ At("join")
  /\ gen' = [gen EXCEPT !.at = "decide"]
  /\ UNCHANGED <<proc, pipe, got, over>>

\* Mutant: threads are joined without a timeout.
Join_Patient ==
  /\ At("join")
  /\ \A s \in Stream : got[s].done
  /\ gen' = [gen EXCEPT !.at = "decide"]
  /\ UNCHANGED <<proc, pipe, got, over>>

\* Both threads end in time, or the cleanup has failed.
Join ==
  /\ At("join")
  /\ \/ /\ \A s \in Stream : got[s].done
        /\ gen' = [gen EXCEPT !.at = "decide"]
     \/ /\ \E s \in Stream : ~got[s].done
        /\ gen' = [gen EXCEPT !.at = "decide", !.tree = "failed"]
  /\ UNCHANGED <<proc, pipe, got, over>>

\* The status, in this order.
Decide ==
  /\ At("decide")
  /\ \E usage \in {"none", "within", "beyond"} :
       gen' = [gen EXCEPT !.at = "remove", !.usage = usage, !.status =
         CASE gen.tree = "failed" -> "cleanup_failed"
           [] gen.tree # "failed" /\ gen.why = "timeout" -> "timed_out"
           [] gen.tree # "failed" /\ gen.why # "timeout" /\ (gen.why = "limit" \/ over) ->
                "output_limit_exceeded"
           [] OTHER ->
                IF gen.exit # "zero" THEN "failed"
                ELSE IF usage = "none" THEN "invalid_output"
                ELSE IF usage = "beyond" THEN "token_limit_exceeded"
                ELSE "succeeded"]
  /\ UNCHANGED <<proc, pipe, got, over>>

\* The directory goes in any case; if it does not, nothing has been proposed.
Remove ==
  /\ At("remove")
  /\ \/ gen' = [gen EXCEPT !.at = "over", !.dir = FALSE]
     \/ gen' = [gen EXCEPT !.at = "over",
          !.status = IF @ = "none" THEN @ ELSE "cleanup_failed"]
  /\ UNCHANGED <<proc, pipe, got, over>>

AttemptStep ==
  \/ Preflight \/ PrepareAttempt \/ Launch \/ Watch \/ Terminate \/ Grace \/ Kill \/ WaitExit \/ Join
  \/ Decide \/ Remove

GeneratorNext ==
  \/ AttemptStep \/ Lives
  \/ \E s \in Stream : Writes(s) \/ Capture(s)

GeneratorSpec == GeneratorInit /\ [][GeneratorNext]_generatorVars
GeneratorFairness == WF_generatorVars(AttemptStep)

-----------------------------------------------------------------------------
\* What is handed on as a proposal is all that was written, by a command that
\* ended by itself, within the limits, although the threads that read it see the
\* end in their own time (_capture_stream, _execute, run).
ProposalIsWhole ==
  At("over") /\ gen.status = "succeeded" =>
    /\ Kept("stdout") = got["stdout"].bytes /\ Total <= TotalLimit
    /\ \A s \in Stream : got[s].bytes <= StreamLimit /\ pipe[s] = 0
    /\ gen.exit = "zero" /\ gen.usage = "within"

\* An attempt that says it has cleaned up leaves no process of its group, none
\* that could still write to what was read, and no directory with credentials
\* (_terminate_tree, run).
AttemptLeavesNothing ==
  At("over") /\ gen.status \notin {"none", "cleanup_failed"} =>
    /\ ~gen.dir /\ ~Group
    /\ \A p \in Command : ~HoldsPipes(p)

\* Whatever the command has done, the attempt is over (the deadlines of _execute).
AttemptEnded == At("over")
=============================================================================
