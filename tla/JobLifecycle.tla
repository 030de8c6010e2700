---------------------------- MODULE JobLifecycle ----------------------------
(***************************************************************************)
(* What the durable queue promises about one job, to the workflows above   *)
(* it: a job is created once, is attempted at most Max times, succeeds at  *)
(* most once and, once finished, never moves again.  JobQueue implements   *)
(* this specification; the workflow modules are built on it.               *)
(***************************************************************************)
EXTENDS Naturals

CONSTANTS Job,   \* the idempotency keys
          Max    \* Max[j]: how many attempts job j may have

VARIABLES phase,      \* phase[j]: the job's state, "absent" before it exists
          attempts    \* attempts[j]: how often it has been claimed

vars == <<phase, attempts>>

Phase    == {"absent", "queued", "running", "succeeded", "failed", "cancelled"}
Finished == {"succeeded", "failed", "cancelled"}

Init == /\ phase = [j \in Job |-> "absent"]
        /\ attempts = [j \in Job |-> 0]

Same(j) == phase'[j] = phase[j] /\ attempts'[j] = attempts[j]

Enqueue(j) == phase[j] = "absent" /\ phase'[j] = "queued" /\ attempts'[j] = attempts[j]

Claim(j) == /\ phase[j] = "queued"
            /\ attempts[j] < Max[j]
            /\ phase'[j] = "running"
            /\ attempts'[j] = attempts[j] + 1

Succeed(j) == phase[j] = "running" /\ phase'[j] = "succeeded" /\ attempts'[j] = attempts[j]

\* An attempt is lost: another one follows while the budget lasts.
Lose(j) == /\ phase[j] = "running"
           /\ \/ phase'[j] = "queued" /\ attempts[j] < Max[j]
              \/ phase'[j] = "failed"
           /\ attempts'[j] = attempts[j]

Cancel(j) == /\ phase[j] \in {"queued", "running"}
             /\ phase'[j] = "cancelled"
             /\ attempts'[j] = attempts[j]

\* One transaction may move several jobs at once (the reaper does).
Next == /\ phase' \in [Job -> Phase]
        /\ attempts' \in [Job -> Nat]
        /\ \A j \in Job : \/ Enqueue(j) \/ Claim(j) \/ Succeed(j)
                          \/ Lose(j) \/ Cancel(j) \/ Same(j)

Spec == Init /\ [][Next]_vars
=============================================================================
