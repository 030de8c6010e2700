-------------------------- MODULE MCWorkflowsStart --------------------------
(***************************************************************************)
(* The workflows, and beside them the start of a formal round, which       *)
(* shares nothing with them here.  The initial state chooses the one that  *)
(* moves, so their states add up and do not multiply.                      *)
(***************************************************************************)
EXTENDS MCWorkflows, FormalStart

CONSTANTS k1, k2

VARIABLE part

\* The authority of the evaluation is issued later and expires later.
MCValidity == [execution  |-> [from |-> 0, until |-> 2],
               evaluation |-> [from |-> 1, until |-> 3]]

AnyCallOrKey == AnyCall \cup Permutations({k1, k2})

MCInit ==
    /\ RouterInit /\ FormalStartInit
    /\ part \in {"workflow", "start"}
    /\ part # "workflow" => workflow = "stage0"

MCNext ==
    \/ part = "workflow" /\ RouterNext /\ UNCHANGED <<fsvars, part>>
    \/ part = "start" /\ FormalStartNext /\ UNCHANGED <<vars, part>>

MCSpec == MCInit /\ [][MCNext]_<<vars, fsvars, part>>
=============================================================================
