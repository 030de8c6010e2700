---------------------------- MODULE PhaseExecution ----------------------------
(***************************************************************************)
(* PhaseExecution: one phase measurement of a round member, from the       *)
(* request to its receipt.  A call files the reserve evidence, reserves    *)
(* budget, runs the harness, claims the identities of what it measured,    *)
(* files the usage evidence, settles the reservation and publishes the     *)
(* receipt; or it files, reserves and releases, when the phase is not      *)
(* started at all.  There are two adapters of the same shape: the formal   *)
(* one keeps its claims, files and receipts on disk, the scripted one      *)
(* keeps its claims in the memory of one process.                          *)
(*                                                                         *)
(* Several calls may work on the same request, and each may die between    *)
(* any two effects.  Abstracted: the checks of the request against the     *)
(* round, the signed authorization, the Target Lock and the window, which  *)
(* come before any effect (a call that fails them is not modelled), and    *)
(* the amounts.  All failing statuses of a record are one.                 *)
(***************************************************************************)
EXTENDS Integers

CONSTANTS
    PhaseRun,      \* requests, each with its own reservation
    Agent,         \* calls that may be under way
    Measured,      \* identities that a harness may report
    PhasePlan,     \* measurement plans
    NoRun, NoMeasurement

ASSUME NoMeasurementAssumption == NoMeasurement \notin Measured

VARIABLES
    adapter,      \* "formal" or "scripted"
    bound,        \* bound[e]: the phase and the measurement plan of a request
    agent,        \* agent[a]: the step of a call, its request and its result
    filed,        \* filed[e]: the reserve evidence under its fixed name, and the usage
    charge,       \* charge[e]: the budget reservation
    starts,       \* how often the harness has been started for a request
    claimed,      \* identities that have been claimed
    receipts,     \* the receipts (formal) or the returned outcomes (scripted)
    torn          \* requests with a call that died or raised after its reserve

pevars == <<adapter, bound, agent, filed, charge, starts, claimed, receipts, torn>>
disk   == <<filed, charge, starts, claimed, receipts, torn>>

NoCall == [step |-> "idle", run |-> NoRun, measurement |-> NoMeasurement]

PhaseInit ==
    /\ adapter \in {"formal", "scripted"}
    /\ bound \in [PhaseRun -> [phase : {"search", "holdout"}, plan : PhasePlan]]
    /\ agent = [a \in Agent |-> NoCall]
    /\ filed = [e \in PhaseRun |-> [reserve |-> "none", usage |-> "none"]]
    /\ charge = [e \in PhaseRun |-> "absent"]
    /\ starts = [e \in PhaseRun |-> 0]
    /\ claimed = {} /\ receipts = {} /\ torn = {}

At(a, step)   == agent[a].step = step
Step(a, step) == agent' = [agent EXCEPT ![a].step = step]
Return(a)     == agent' = [agent EXCEPT ![a] = NoCall]
Reserved(a)   == agent[a].step \notin {"idle", "file_run", "file_release",
                                        "reserve_run", "reserve_release"}
Usage_Of(a)   == IF agent[a].measurement = NoMeasurement THEN "failed" ELSE "succeeded"

-----------------------------------------------------------------------------
(* Before the harness.                                                     *)

BeginPhase(a, e) ==
    /\ At(a, "idle")
    /\ agent' = [agent EXCEPT ![a] = [NoCall EXCEPT !.step = "file_run", !.run = e]]
    /\ UNCHANGED <<adapter, bound, disk>>

BeginReleaseUnstarted(a, e) ==
    /\ At(a, "idle")
    /\ agent' = [agent EXCEPT ![a] = [NoCall EXCEPT !.step = "file_release", !.run = e]]
    /\ UNCHANGED <<adapter, bound, disk>>

\* _publish_once under the reservation's name: release_unstarted writes other
\* bytes than run does, so the one that comes second is refused.  The scripted
\* runner names the file after its content, so there is nothing to refuse.
FileReserve(a) ==
    LET kind == IF At(a, "file_run") THEN "run" ELSE "release"
        e == agent[a].run IN
    /\ agent[a].step \in {"file_run", "file_release"}
    /\ \/ /\ adapter = "scripted" \/ filed[e].reserve \in {"none", kind}
          /\ Step(a, IF kind = "run" THEN "reserve_run" ELSE "reserve_release")
          /\ filed' = [filed EXCEPT ![e].reserve = IF adapter = "formal" THEN kind ELSE @]
       \/ /\ adapter = "formal" /\ filed[e].reserve \notin {"none", kind}
          /\ Return(a) /\ UNCHANGED filed
    /\ UNCHANGED <<adapter, bound, charge, starts, claimed, receipts, torn>>

\* Mutant: a repeated reserve with the same inputs is answered again.
ReservePhase_Replayed(a) ==
    LET e == agent[a].run IN
    /\ agent[a].step \in {"reserve_run", "reserve_release"}
    /\ \/ /\ charge[e] = "absent" /\ charge' = [charge EXCEPT ![e] = "reserved"]
          /\ Step(a, IF At(a, "reserve_run") THEN "harness" ELSE "file_released")
       \/ /\ charge[e] # "absent" /\ UNCHANGED charge
          /\ Step(a, IF At(a, "reserve_run") THEN "harness" ELSE "file_released")
       \/ Return(a) /\ UNCHANGED charge
    /\ UNCHANGED <<adapter, bound, filed, starts, claimed, receipts, torn>>

\* reserve_round_budget.  The entry carries the moment at which the call built
\* it, so a repetition is another entry for the same reservation: a conflict.
\* A new reservation is refused when the budget or the job is not there.
ReservePhase(a) ==
    LET e == agent[a].run IN
    /\ agent[a].step \in {"reserve_run", "reserve_release"}
    /\ \/ /\ charge[e] = "absent" /\ charge' = [charge EXCEPT ![e] = "reserved"]
          /\ Step(a, IF At(a, "reserve_run") THEN "harness" ELSE "file_released")
       \/ Return(a) /\ UNCHANGED charge
    /\ UNCHANGED <<adapter, bound, filed, starts, claimed, receipts, torn>>

-----------------------------------------------------------------------------
(* The harness and its result.                                             *)

\* A payload that tries to override what is frozen fails before the harness.
StartHarness(a) ==
    LET e == agent[a].run IN
    /\ At(a, "harness")
    /\ \/ Step(a, "measuring") /\ starts' = [starts EXCEPT ![e] = @ + 1]
       \/ Step(a, "usage") /\ UNCHANGED starts
    /\ UNCHANGED <<adapter, bound, filed, charge, claimed, receipts, torn>>

\* The harness reports a measurement, in time and with a live fence, or the
\* execution fails: an error, a timeout, a lost fence, an unclean device.
FinishHarness(a) ==
    /\ At(a, "measuring")
    /\ \/ \E m \in Measured :
             agent' = [agent EXCEPT ![a].step = "claim", ![a].measurement = m]
       \/ Step(a, "usage")
    /\ UNCHANGED <<adapter, bound, disk>>

\* Identity hashes that are strings but no hashes pass the checks of the result
\* and fail in _measurement_ref, outside of what run catches.
RaiseMalformed(a) ==
    /\ At(a, "measuring") /\ adapter = "formal"
    /\ torn' = torn \cup {agent[a].run}
    /\ Return(a)
    /\ UNCHANGED <<adapter, bound, filed, charge, starts, claimed, receipts>>

\* A phase has one plan, and the two phases have two.
PlansAgree(d, e) == (bound[d].phase = bound[e].phase) <=> (bound[d].plan = bound[e].plan)

\* Mutant: an identity may be used again as long as it is for another phase.
Isolated_PerPhase(e, m) ==
    /\ \A c \in claimed : c.measurement # m \/ bound[c.run].phase # bound[e].phase
    /\ adapter = "formal" => \A c \in claimed : PlansAgree(c.run, e)

\* Every identity is new, and the plan fits those of the claims before it.
\* The scripted registry compares phase plans only, which the round has
\* already told apart (_validate_authority).
Isolated(e, m) ==
    /\ \A c \in claimed : c.measurement # m /\ c.run # e
    /\ adapter = "formal" => \A c \in claimed : PlansAgree(c.run, e)

\* The formal claim is a transaction of its own; the scripted runner only
\* validates here, and commits when all else is done.
ClaimIdentity(a) ==
    LET e == agent[a].run  m == agent[a].measurement IN
    /\ At(a, "claim")
    /\ \/ Isolated(e, m) /\ Step(a, "usage")
          /\ claimed' = IF adapter = "formal"
                        THEN claimed \cup {[run |-> e, measurement |-> m]} ELSE claimed
       \/ ~ Isolated(e, m) /\ UNCHANGED claimed
          /\ agent' = [agent EXCEPT ![a].step = "usage", ![a].measurement = NoMeasurement]
    /\ UNCHANGED <<adapter, bound, filed, charge, starts, receipts, torn>>

-----------------------------------------------------------------------------
(* Settling.                                                               *)

\* Nobody else has reserved, so nobody has written a usage file.
FileUsage(a) ==
    LET e == agent[a].run IN
    /\ agent[a].step \in {"usage", "file_released"}
    /\ filed' = [filed EXCEPT ![e].usage = IF At(a, "usage") THEN Usage_Of(a) ELSE "released"]
    /\ Step(a, IF At(a, "usage") THEN "settle" ELSE "release")
    /\ UNCHANGED <<adapter, bound, charge, starts, claimed, receipts, torn>>

\* finalize_round_budget: a reservation is closed once.
FinalizeCharge(a) ==
    LET e == agent[a].run IN
    /\ agent[a].step \in {"settle", "release"}
    /\ IF charge[e] # "reserved" THEN Return(a) /\ UNCHANGED charge
       ELSE IF At(a, "settle")
       THEN Step(a, "publish") /\ charge' = [charge EXCEPT ![e] = "settled"]
       ELSE Return(a) /\ charge' = [charge EXCEPT ![e] = "released"]
    /\ UNCHANGED <<adapter, bound, filed, starts, claimed, receipts, torn>>

\* The formal store publishes a receipt for failures too, under an id that is
\* made of the request.  The scripted runner returns an outcome only for a
\* success whose identities are still new when it commits them.
Publish(a) ==
    LET e == agent[a].run
        r == [run |-> e, status |-> Usage_Of(a), measurement |-> agent[a].measurement]
        counts == IF adapter = "formal" THEN \A s \in receipts : s.run = e => s = r
                  ELSE r.status = "succeeded" /\ Isolated(e, r.measurement) IN
    /\ At(a, "publish")
    /\ receipts' = IF counts THEN receipts \cup {r} ELSE receipts
    /\ claimed' = IF counts /\ adapter = "scripted"
                  THEN claimed \cup {[run |-> e, measurement |-> r.measurement]} ELSE claimed
    /\ Return(a)
    /\ UNCHANGED <<adapter, bound, filed, charge, starts, torn>>

\* A process dies.  Formal calls are in processes of their own; the scripted
\* ones share a process, and with it go the registry and the outcomes.
AgentsDie(S) ==
    /\ S # {}
    /\ IF adapter = "formal" THEN \E a \in S : S = {a} /\ ~ At(a, "idle") ELSE S = Agent
    /\ agent' = [a \in Agent |-> IF a \in S THEN NoCall ELSE agent[a]]
    /\ torn' = torn \cup {agent[a].run : a \in {b \in S : Reserved(b)}}
    /\ IF adapter = "formal" THEN UNCHANGED <<claimed, receipts>>
       ELSE claimed' = {} /\ receipts' = {}
    /\ UNCHANGED <<adapter, bound, filed, charge, starts>>

PhaseNext ==
    \/ \E a \in Agent :
          \/ \E e \in PhaseRun : BeginPhase(a, e) \/ BeginReleaseUnstarted(a, e)
          \/ FileReserve(a) \/ ReservePhase(a)
          \/ StartHarness(a) \/ FinishHarness(a) \/ RaiseMalformed(a) \/ ClaimIdentity(a)
          \/ FileUsage(a) \/ FinalizeCharge(a) \/ Publish(a)
    \/ \E S \in SUBSET Agent : AgentsDie(S)

PhaseSpec == PhaseInit /\ [][PhaseNext]_pevars

-----------------------------------------------------------------------------
(* What must hold.                                                         *)

\* A receipt says what happened: its reservation is settled with a usage file
\* of the same verdict.  No two successes share an identity, and those of the
\* formal adapter have one plan for each phase and another for the other, also
\* when calls overlap, processes die and are started again (claim, publish).
ReceiptsBacked ==
    /\ \A r \in receipts :
          /\ charge[r.run] = "settled" /\ filed[r.run].usage = r.status
          /\ \A s \in receipts :
                r # s /\ r.status = "succeeded" /\ s.status = "succeeded" =>
                   r.measurement # s.measurement /\ r.run # s.run
    /\ adapter = "formal" =>
          \A r, s \in receipts : r.status = "succeeded" /\ s.status = "succeeded" =>
             PlansAgree(r.run, s.run)

\* The harness runs at most once for a reservation, and never for one that is
\* released as unstarted; what is settled has its usage on file.  Once it has
\* run and its call is over, the reservation is settled and, for the formal
\* adapter, there is a receipt, unless a call was torn (run, release_unstarted).
ReservationTrue ==
    \A e \in PhaseRun :
       /\ starts[e] <= 1
       /\ charge[e] = "released" => starts[e] = 0 /\ filed[e].usage = "released"
       /\ charge[e] = "settled" => filed[e].usage \in {"succeeded", "failed"}
       /\ e \notin torn /\ (\A a \in Agent : agent[a].run # e) /\ charge[e] # "absent" =>
             /\ charge[e] \in {"settled", "released"}
             /\ charge[e] = "settled" /\ adapter = "formal" =>
                   \E r \in receipts : r.run = e

\* Harness, reservation, files and receipts of a phase tell one story (run,
\* release_unstarted).
PhaseAccounted == ReceiptsBacked /\ ReservationTrue
=============================================================================
