--------------------------- MODULE PerformanceRetry ---------------------------
(***************************************************************************)
(* PerformanceRetry: one more attempt for a performance job whose attempts *)
(* an infrastructure fault has used up.  An operator's command revives the *)
(* rejected task, after each of four known faults at most once and in      *)
(* their order; the fix of the fault is named in an event.                 *)
(*                                                                         *)
(* The module stands beside the queue and the manual candidate workflow:   *)
(* of those it has what the command reads, the one job, its task and       *)
(* candidate, and the device, which other jobs use as well.                *)
(***************************************************************************)
EXTENDS Integers, Sequences, SequencesExt

CONSTANTS
    FirstTokens,   \* fencing tokens the device may have when the job is queued
    LastToken      \* bound: no lease beyond this token

\* The faults that have a fix, in the order in which they were met.
Known  == <<"namespace", "mirror", "artifact", "timing">>
Faults == ToSet(Known) \cup {"other"}

VARIABLES
    perf,     \* the job: state, attempts, max_attempts, last_error, result
    matter,   \* states of its task and candidate, and whether a verdict is on record
    card,     \* the device: state, the job that holds it, token, clean evidence
    audit,    \* the events manual_infrastructure_retry_authorized: what was fixed
    ends      \* history: error and attempt of every terminal failure

retryVars == <<perf, matter, card, audit, ends>>

Live     == [task |-> "manual_performance", candidate |-> "performance_running", verdict |-> FALSE]
Rejected == [task |-> "rejected", candidate |-> "rejected", verdict |-> FALSE]

RetryInit ==
    /\ perf = [state |-> "queued", attempts |-> 0, max |-> 3, error |-> "none", result |-> FALSE]
    /\ matter = Live
    /\ \E t \in FirstTokens :
          card = [state |-> "available", holder |-> "none", token |-> t, clean |-> TRUE]
    /\ audit = <<>> /\ ends = <<>>

-----------------------------------------------------------------------------
(* The queue and the workflow, as far as they matter here.                 *)

TakeCard(holder) ==
    /\ card.state = "available" /\ card.token < LastToken
    /\ card' = [card EXCEPT !.state = "active", !.holder = holder, !.token = @ + 1]

\* _release_resource, with the cleanup evidence or without.
Vacate ==
    \E clean \in BOOLEAN :
       card' = [card EXCEPT !.state = IF clean THEN "available" ELSE "quarantined",
                            !.holder = "none", !.clean = clean]

ClaimPerformance ==
    /\ perf.state = "queued" /\ TakeCard("perf")
    /\ perf' = [perf EXCEPT !.state = "running", !.attempts = @ + 1]
    /\ UNCHANGED <<matter, audit, ends>>

\* fail_job, or the reaper, which always retries while an attempt is left.
FailPerformance(e, retryable) ==
    LET again == retryable /\ perf.attempts < perf.max IN
    /\ perf.state = "running" /\ Vacate
    /\ perf' = [perf EXCEPT !.state = IF again THEN "queued" ELSE "failed", !.error = e]
    /\ matter' = IF again THEN matter ELSE Rejected
    /\ ends' = IF again THEN ends ELSE Append(ends, [error |-> e, attempt |-> perf.attempts])
    /\ UNCHANGED audit

CompletePerformance ==
    /\ perf.state = "running" /\ Vacate
    /\ perf' = [perf EXCEPT !.state = "succeeded", !.result = TRUE]
    /\ UNCHANGED <<matter, audit, ends>>

\* What comes of a result: the adjudication fails, finds the measurement
\* invalid, or leads to a sign-off.
Judge ==
    /\ perf.state = "succeeded" /\ matter = Live
    /\ matter' \in {Rejected, [Rejected EXCEPT !.verdict = TRUE],
                    [task |-> "completed", candidate |-> "accepted", verdict |-> TRUE]}
    /\ UNCHANGED <<perf, card, audit, ends>>

\* cancel_job says nothing to the task.
CancelPerformance ==
    /\ \/ perf.state = "queued" /\ UNCHANGED card
       \/ perf.state = "running"
          /\ card' = [card EXCEPT !.state = "quarantined", !.holder = "none", !.clean = FALSE]
    /\ perf' = [perf EXCEPT !.state = "cancelled", !.error = "other"]
    /\ UNCHANGED <<matter, audit, ends>>

OtherJob ==
    /\ \/ TakeCard("other")
       \/ card.holder = "other" /\ Vacate
    /\ UNCHANGED <<perf, matter, audit, ends>>

\* report_resource_cleanup for the present token.
ReportClean ==
    /\ card.state = "quarantined" /\ Vacate
    /\ UNCHANGED <<perf, matter, audit, ends>>

-----------------------------------------------------------------------------
(* The command.                                                            *)

\* Mutant: a job that has failed is enough, whatever attempts it has left.
Earned_AnyFailure(n) ==
    /\ matter = Rejected
    /\ perf.state = "failed" /\ ~ perf.result /\ perf.error = Known[n]
    /\ n > 1 => Len(SelectSeq(audit, LAMBDA m : m = Known[n - 1])) = 1
    /\ card.state = "available" /\ card.token = 45 + n /\ card.clean

\* The snapshot that _validate_*_snapshot wants for the n-th fix: everything
\* is rejected without a verdict, all attempts are used, the error is this one,
\* the fix before it has been granted once, and the device is clean.
Earned(n) ==
    /\ matter = Rejected
    /\ perf.state = "failed" /\ ~ perf.result /\ perf.error = Known[n]
    /\ perf.attempts = 2 + n /\ perf.max = 2 + n
    /\ n > 1 => Len(SelectSeq(audit, LAMBDA m : m = Known[n - 1])) = 1
    /\ card.state = "available" /\ card.token = 45 + n /\ card.clean

\* authorize_*_retry.  The count of attempts and the last error stay.  A command
\* that finds its own retry still queued says so and changes nothing.
Authorize(n) ==
    /\ Earned(n)
    /\ perf' = [perf EXCEPT !.state = "queued", !.max = 3 + n]
    /\ matter' = Live
    /\ audit' = Append(audit, Known[n])
    /\ UNCHANGED <<card, ends>>

RetryNext ==
    \/ ClaimPerformance \/ CompletePerformance \/ CancelPerformance \/ Judge
    \/ \E e \in Faults, retryable \in BOOLEAN : FailPerformance(e, retryable)
    \/ OtherJob \/ ReportClean
    \/ \E n \in DOMAIN Known : Authorize(n)

RetrySpec == RetryInit /\ [][RetryNext]_retryVars

-----------------------------------------------------------------------------
(* What must hold.                                                         *)

\* Every retry is accounted for, whatever the queue did in between and however
\* often the commands are given: they come in their order, each once, each
\* after its own fault has ended the last attempt there was, and each is used
\* up before the next (authorize_*_retry).  A job that may run has a task that
\* waits for it, one that has failed has not, and a verdict is never undone.
RetriesAccounted ==
    /\ audit = SubSeq(Known, 1, Len(audit))
    /\ perf.max = 3 + Len(audit) /\ perf.attempts <= perf.max
    /\ audit # <<>> => perf.attempts >= perf.max - 1
    /\ Len(ends) = Len(audit) + (IF perf.state = "failed" THEN 1 ELSE 0)
    /\ \A i \in 1 .. Len(audit) : ends[i] = [error |-> audit[i], attempt |-> 2 + i]
    /\ perf.state \in {"queued", "running"} => matter = Live
    /\ perf.state = "failed" => matter = Rejected
=============================================================================
