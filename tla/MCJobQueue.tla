----------------------------- MODULE MCJobQueue -----------------------------
(***************************************************************************)
(* The queue, and beside it two parts that share nothing with it here, the *)
(* execution of the phases of a round and the retries of a performance     *)
(* job.  The initial state chooses the part that moves, so their states    *)
(* add up and do not multiply.                                             *)
(***************************************************************************)
EXTENDS JobQueue, PhaseExecution, PerformanceRetry, TLC

CONSTANTS g1, g2, n1,   \* two jobs that need a device and one that needs none
          w1,           \* a worker
          r1, r2,       \* two devices
          p,            \* an adapter profile
          s1, s2,       \* requests of phases
          a1, a2,       \* calls that work on them
          m1, m2        \* measured identities

VARIABLE part

Specs ==
    g1 :> [type |-> "gpu", profile |-> p, scope |-> "exclusive", max |-> 2]
    @@ g2 :> [type |-> "gpu", profile |-> None, scope |-> "shared", max |-> 1]
    @@ n1 :> [type |-> "gpu", profile |-> None, scope |-> "none", max |-> 2]

MCJobSpec == [j \in Job |-> Specs[j]]

\* One worker name is enough: it may register again with another declaration
\* at any time, and every credential it was ever given acts like a process of
\* its own.
MCRegistrations == {
    [type |-> "gpu", profile |-> p, resource |-> r1],
    [type |-> "gpu", profile |-> None, resource |-> None]}

Symmetry ==
    Permutations({s1, s2}) \cup Permutations({a1, a2}) \cup Permutations({m1, m2})

MCInit ==
    /\ Init /\ PhaseInit /\ RetryInit
    /\ part \in {"queue", "phase", "retry"}
    /\ part # "phase" =>
          adapter = "formal" /\ \A e \in PhaseRun : bound[e] = [phase |-> "search", plan |-> "m"]
    /\ part # "retry" => card.token = 43

MCNext ==
    \/ part = "queue" /\ Next /\ UNCHANGED <<pevars, retryVars, part>>
    \/ part = "phase" /\ PhaseNext /\ UNCHANGED <<vars, retryVars, part>>
    \/ part = "retry" /\ RetryNext /\ UNCHANGED <<vars, pevars, part>>

MCSpec == MCInit /\ [][MCNext]_<<vars, pevars, retryVars, part>>
=============================================================================
