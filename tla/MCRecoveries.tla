---------------------------- MODULE MCRecoveries ----------------------------
(***************************************************************************)
(* A generation run, the review and promotion of its proposals, the clock  *)
(* sessions of a device, the start of a scripted round, and a formal round *)
(* up to its sign-off: five parts of the system that share nothing here.   *)
(* The initial state chooses the part that moves, so their states add up   *)
(* and do not multiply.                                                    *)
(***************************************************************************)
EXTENDS AgentGeneration, MCAgentReview, ClockSession, OperatorStart, FormalSignoff, TLC

CONSTANTS x1, x2, x3  \* candidates

VARIABLE part

Generator(n, p) == [max_attempts |-> n, max_proposals |-> p, units |-> 2]
Budget(n, u, p) == [attempts |-> n, units |-> u, proposals |-> p]

\* Budgets that the attempts use up to the last unit. The first run is worked
\* on by the dispatcher, the others by two generators that call the authority.
MessagesPlan ==
  [generators |-> <<Generator(2, 2)>>, max_concurrency |-> 1, messages |-> TRUE,
   budget |-> Budget(2, 4, 2)]
ConcurrentPlan ==
  [generators |-> <<Generator(2, 1), Generator(1, 2)>>, max_concurrency |-> 2,
   messages |-> FALSE, budget |-> Budget(3, 6, 3)]
SerialPlan ==
  [generators |-> <<Generator(2, 2), Generator(3, 1)>>, max_concurrency |-> 1,
   messages |-> FALSE, budget |-> Budget(5, 10, 3)]
MCPlans == {MessagesPlan, ConcurrentPlan, SerialPlan}

\* No batch, an empty one, batches within the reservation, one beyond it.
MCOutcomes ==
  {[status |-> "no_batch", units |-> 1, patches |-> <<>>],
   [status |-> "failed_batch", units |-> 1, patches |-> <<>>],
   [status |-> "batch", units |-> 1, patches |-> <<"p">>],
   [status |-> "batch", units |-> 2, patches |-> <<"q", "p">>],
   [status |-> "batch", units |-> 3, patches |-> <<"q">>]}

\* The third candidate is nobody's member: another client may submit it.
MCPlan == (0 :> x1) @@ (1 :> x2)

Init ==
  /\ GenerationInit /\ ReviewInit /\ ClockInit /\ StartInit /\ SignInit
  /\ part \in {"generation", "clock", "start", "signoff", "review"}
  /\ part # "generation" => plan = MessagesPlan
  /\ part # "start" => fit /\ taken = {}
  /\ part # "signoff" => \A o \in Finalist : formal.members[o] = "built"
  /\ taken \subseteq {x2} /\ (fit \/ taken = {})

Next ==
  \/ part = "generation" /\ GenerationNext /\ UNCHANGED <<rvars, cvars, startVars, signVars, part>>
  \/ part = "review" /\ ReviewNext /\ UNCHANGED <<gvars, cvars, startVars, signVars, part>>
  \/ part = "clock" /\ ClockNext /\ UNCHANGED <<gvars, rvars, startVars, signVars, part>>
  \/ part = "start" /\ StartNext /\ UNCHANGED <<gvars, rvars, cvars, signVars, part>>
  \/ part = "signoff" /\ SignNext /\ UNCHANGED <<gvars, rvars, cvars, startVars, part>>

Spec == /\ Init /\ [][Next]_<<gvars, rvars, cvars, startVars, signVars, part>>
        /\ GenerationFairness
=============================================================================
