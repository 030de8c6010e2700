-------------------------- MODULE AgentGeneration --------------------------
(***************************************************************************)
(* One Agent Generation Run: the authority that keeps its attempts, its    *)
(* budget ledger and its proposals in the database                         *)
(* (src/src/hcuopt/storage/agent_generation.py), and the dispatcher that   *)
(* pays a provider for each attempt and leaves files behind when it dies   *)
(* (src/src/hcuopt/agent/messages_dispatch.py, messages_worker.py).        *)
(*                                                                         *)
(* db is what a transaction reads and writes under the lock of the run's   *)
(* row; a transaction is an operator from a db to a db.  An attempt is     *)
(* claimed at most once, so it is its own claim token.  A lease is live    *)
(* until Expire, which may be at any time: the clock is not modelled.  Of  *)
(* the five dimensions of the budget, wall time, output and tokens follow  *)
(* the same rules and are one, "units".                                    *)
(***************************************************************************)
EXTENDS Naturals, Sequences, FiniteSets, Functions

CONSTANTS
  Plans,         \* the frozen plans a run may be started with
  MaxGenerators, \* bound of a plan's generators (8 in the contract)
  MaxAttempts,   \* bound of a generator's attempts (8 in the contract)
  Outcomes,      \* what a runner may come back with
  Dispatchers,   \* run-once commands that may be under way
  NoAttempt      \* the attempt of a dispatcher that has none

AttemptIds == (1 .. MaxGenerators) \X (1 .. MaxAttempts)

GenerationBudgetUsage == [attempts : Nat, units : Nat, proposals : Nat]
NoUsage == [attempts |-> 0, units |-> 0, proposals |-> 0]
Plus(u, v) == [attempts  |-> u.attempts + v.attempts,
               units     |-> u.units + v.units,
               proposals |-> u.proposals + v.proposals]
Fits(u, budget) == /\ u.attempts <= budget.attempts
                   /\ u.units <= budget.units
                   /\ u.proposals <= budget.proposals
SumUsage(f) == [attempts  |-> SumFunction([x \in DOMAIN f |-> f[x].attempts]),
                units     |-> SumFunction([x \in DOMAIN f |-> f[x].units]),
                proposals |-> SumFunction([x \in DOMAIN f |-> f[x].proposals])]

\* One attempt of a generator reserves this; the whole of it, but for the
\* proposals, is charged when nobody knows what the attempt has used.
ReservedUsage(generator) ==
  [attempts |-> 1, units |-> generator.units, proposals |-> generator.max_proposals]
\* Mutant: an attempt nobody knows anything of is charged its proposals too.
ConservativeUsage_Proposals(reserved) == reserved

ConservativeUsage(reserved) == [reserved EXCEPT !.proposals = 0]

\* What the contract demands of a plan: its budget covers every attempt of
\* every generator, but the proposals of one attempt of each only.
PlanOK(q) ==
  LET gs == q.generators
  IN  /\ gs \in Seq([max_attempts : Nat, max_proposals : Nat, units : Nat])
      /\ q.messages \in BOOLEAN
      /\ q.budget \in GenerationBudgetUsage
      /\ Len(gs) \in 1 .. MaxGenerators
      /\ q.max_concurrency \in 1 .. Len(gs)
      /\ \A g \in DOMAIN gs : gs[g].max_attempts \in 1 .. MaxAttempts
      /\ SumFunction([g \in DOMAIN gs |-> gs[g].max_attempts]) <= q.budget.attempts
      /\ SumFunction([g \in DOMAIN gs |-> gs[g].max_attempts * gs[g].units])
           <= q.budget.units
      /\ SumFunction([g \in DOMAIN gs |-> gs[g].max_proposals]) <= q.budget.proposals

\* A runner's receipt carries a batch or none, and a failed batch is empty.
OutcomeOK(o) ==
  /\ o.status \in {"no_batch", "failed_batch", "batch"}
  /\ o.units \in Nat
  /\ o.patches \in Seq(Range(o.patches))
  /\ o.status = "batch" <=> o.patches # <<>>

ASSUME BoundsAssumption == MaxGenerators \in Nat /\ MaxAttempts \in Nat
ASSUME PlansAssumption == \A q \in Plans : PlanOK(q)
ASSUME OutcomesAssumption == \A o \in Outcomes : OutcomeOK(o)

VARIABLES
  plan,      \* the request's plan, frozen
  db,        \* the rows of the run
  files,     \* files[a]: names of the durable files of attempt a
  receipts,  \* receipts[a]: the receipt that receipt-ref.json of a points to
  calls,     \* calls[a]: what the provider was paid for in the name of a
  dispatch   \* dispatch[p]: where a run-once command is

gvars == <<plan, db, files, receipts, calls, dispatch>>

Generators == DOMAIN plan.generators
Reserved(a) == ReservedUsage(plan.generators[a[1]])
\* Mutant: a generator is given one attempt more.
AtItsLast_OffByOne(a) == a[2] > plan.generators[a[1]].max_attempts

AtItsLast(a) == a[2] >= plan.generators[a[1]].max_attempts

-----------------------------------------------------------------------------
(* What the rows say.                                                      *)

Rows(d) == {a \in AttemptIds : d.attempts[a].state # "absent"}
RowsOf(d, g) == {a \in Rows(d) : a[1] = g}
Running(d) == {a \in Rows(d) : d.attempts[a].state = "running"}
Unclaimed(d) == {a \in Rows(d) : d.attempts[a].state = "pending"}
Live(d) == Running(d) \cup Unclaimed(d)
Stale(d) == {a \in Running(d) : d.attempts[a].lease = "expired"}
Latest(d, g) == CHOOSE a \in RowsOf(d, g) : \A b \in RowsOf(d, g) : b[2] <= a[2]
HasSucceeded(d, g) == \E a \in RowsOf(d, g) : d.attempts[a].state = "succeeded"

\* An entry of the ledger counts one attempt; without one nothing is charged.
Charged(d, a) == d.settled[a] # NoUsage

OutstandingReserved(d) == SumUsage([a \in Live(d) |-> Reserved(a)])
ConsumedBudget(d) == SumUsage(d.settled)

\* A generator that will make no further attempt.
GeneratorTerminal(d, g) ==
  \/ HasSucceeded(d, g)
  \/ d.attempts[Latest(d, g)].state = "failed" /\ AtItsLast(Latest(d, g))

\* Mutant: the proposal of the earliest attempt is retained, whoever made it.
Retained_EarliestAttempt(d, r) ==
  CHOOSE q \in d.refs :
    /\ q.patch = r.patch
    /\ \A o \in d.refs : o.patch = r.patch =>
         \/ q.attempt[2] < o.attempt[2]
         \/ /\ q.attempt[2] = o.attempt[2]
            /\ \/ q.attempt[1] < o.attempt[1]
               \/ q.attempt[1] = o.attempt[1] /\ q.ordinal <= o.ordinal

\* The proposal that is retained of all those with the patch of r.
Retained(d, r) ==
  CHOOSE q \in d.refs :
    /\ q.patch = r.patch
    /\ \A o \in d.refs : o.patch = r.patch =>
         \/ q.attempt[1] < o.attempt[1]
         \/ q.attempt[1] = o.attempt[1] /\ q.ordinal <= o.ordinal

-----------------------------------------------------------------------------
(* Pieces of a transaction.                                                *)

\* The attempts of A end in the given state, each charged what f says unless
\* the ledger has an entry of that name already.
Ended(d, A, state, f) ==
  [d EXCEPT !.attempts = [a \in AttemptIds |->
                            IF a \in A THEN [state |-> state, lease |-> "none"] ELSE @[a]],
            !.settled = [a \in AttemptIds |->
                           IF a \in A /\ ~Charged(d, a) THEN f[a] ELSE @[a]]]

\* Mutant: an attempt whose lease has run out is charged nothing.
WithStaleFailed_Free(d) ==
  Ended(d, Stale(d), "failed", [a \in Stale(d) |-> NoUsage])

\* Mutant: an attempt whose lease has run out goes on.
WithStaleFailed_GoesOn(d) == d

WithStaleFailed(d) ==
  Ended(d, Stale(d), "failed",
        [a \in Stale(d) |-> ConservativeUsage(Reserved(a))])

\* New pending attempts with the reservations they make.
WithPending(d, A) ==
  [d EXCEPT !.attempts = [a \in AttemptIds |->
                            IF a \in A THEN [state |-> "pending", lease |-> "none"] ELSE @[a]],
            !.reserves = @ \cup A]

\* The next attempts of the generators that have failed and may try again.
Retries(d) ==
  LET due == {g \in Generators :
                /\ ~HasSucceeded(d, g)
                /\ d.attempts[Latest(d, g)].state = "failed"
                /\ ~AtItsLast(Latest(d, g))}
  IN  {<<g, Latest(d, g)[2] + 1>> : g \in due}


FinalizedRefs(d) ==
  {LET keep == Retained(d, r)
   IN  [r EXCEPT !.disposition = IF keep = r THEN "retained" ELSE "duplicate",
                 !.of = <<keep.attempt, keep.ordinal>>] : r \in d.refs}

\* Once no generator will try again the family of proposals is final.
Decided(d) ==
  IF \A g \in Generators : GeneratorTerminal(d, g)
    THEN [d EXCEPT !.refs = FinalizedRefs(d),
                   !.run.state = IF d.refs # {} THEN "awaiting_review" ELSE "failed",
                   !.run.error = IF d.refs # {} THEN "none"
                                 ELSE "no_retained_proposals"]
    ELSE [d EXCEPT !.run.state = "running"]

Recounted(d) ==
  LET reserved == OutstandingReserved(d)
      consumed == ConsumedBudget(d)
      counted == [d EXCEPT !.run.reserved = reserved, !.run.consumed = consumed]
  IN  IF Fits(Plus(reserved, consumed), plan.budget)
        THEN counted
        ELSE [counted EXCEPT !.run.state = "failed",
                             !.run.error = "generation_budget_corrupt"]

\* Mutant: a run that is decided is reconciled like any other.
ReconcileFrom_Always(d) ==
  \E failed \in {WithStaleFailed(d)} :
  \E retries \in {Retries(failed)} :
  \E retried \in {WithPending(failed, retries)} :
  \E decided \in {Decided(retried)} : db' = Recounted(decided)

\* What a reconciling transaction makes of the rows d. Each stage works on
\* the rows the stage before has written (bound by \E, as a program would
\* name them, so that TLC evaluates each of them once).
ReconcileFrom(d) ==
  IF d.run.state \in {"created", "running"}
    THEN \E failed \in {WithStaleFailed(d)} :
         \E retries \in {Retries(failed)} :
         \E retried \in {WithPending(failed, retries)} :
         \E decided \in {Decided(retried)} : db' = Recounted(decided)
    ELSE db' = d

\* How an attempt ends that is settled in time, and what it is charged.
ActualUsage(o) ==
  [attempts |-> 1, units |-> o.units, proposals |-> Len(o.patches)]
WithinReservation(a, o) == Fits(ActualUsage(o), Reserved(a))
Accepted(a, o) == o.status = "batch" /\ WithinReservation(a, o)
SettledUsage(a, o) ==
  IF o.status # "no_batch" /\ WithinReservation(a, o)
    THEN ActualUsage(o) ELSE ConservativeUsage(Reserved(a))

NewRefs(a, o) ==
  {[attempt |-> a, ordinal |-> i, patch |-> o.patches[i],
    disposition |-> "pending", of |-> <<>>] : i \in DOMAIN o.patches}

\* settle_generation_attempt: an attempt that has ended is left alone, whether
\* the call is an exact replay or a stale one; a lease that has run out is
\* recovered before the call is refused.
SettleAttempt(a, o) ==
  \/ a \notin Running(db) /\ UNCHANGED db
  \/ a \in Stale(db) /\ ReconcileFrom(db)
  \/ /\ a \in Running(db) \ Stale(db)
     /\ \E ended \in {Ended(db, {a}, IF Accepted(a, o) THEN "succeeded" ELSE "failed",
                            [b \in {a} |-> SettledUsage(a, o)])} :
          ReconcileFrom([ended EXCEPT !.refs =
                           IF Accepted(a, o) THEN @ \cup NewRefs(a, o) ELSE @])

\* The attempt that is claimed next: the least ordinal, then the least number.
Claimable(d) ==
  {a \in Unclaimed(d) :
     /\ d.run.state = "running"
     /\ Cardinality(Running(d)) < plan.max_concurrency
     /\ \A b \in Unclaimed(d) : a = b \/ a[1] < b[1] \/ (a[1] = b[1] /\ a[2] < b[2])}

Claimed(d, a) ==
  [d EXCEPT !.attempts[a] = [state |-> "running", lease |-> "live"]]

-----------------------------------------------------------------------------
AtRest == [pc |-> "idle", attempt |-> NoAttempt, result |-> <<>>]

GenerationInit ==
  /\ plan \in Plans
  /\ db = [run |-> [state |-> "absent", error |-> "none",
                    reserved |-> NoUsage, consumed |-> NoUsage],
           attempts |-> [a \in AttemptIds |-> [state |-> "absent", lease |-> "none"]],
           reserves |-> {},
           settled |-> [a \in AttemptIds |-> NoUsage],
           refs |-> {},
           publication |-> <<>>]
  /\ files = [a \in AttemptIds |-> {}]
  /\ receipts = [a \in AttemptIds |-> <<>>]
  /\ calls = [a \in AttemptIds |-> <<>>]
  /\ dispatch = [p \in Dispatchers |-> AtRest]

Disk == <<files, receipts, calls, dispatch>>
Exists == db.run.state # "absent"

\* The first half of a start; the second is Reconcile, in a transaction of its
\* own. A start that is repeated finds the run and goes on with Reconcile.
CreateGenerationRun ==
  /\ ~Exists
  /\ LET first == WithPending(db, {<<g, 1>> : g \in Generators})
     IN  db' = [first EXCEPT !.run.state = "created",
                             !.run.reserved = OutstandingReserved(first)]
  /\ UNCHANGED <<plan, Disk>>

\* An operator starts the run again or calls agent-generation-reconcile.
Reconcile ==
  /\ Exists
  /\ ReconcileFrom(db)
  /\ UNCHANGED <<plan, Disk>>

\* Time passes the end of a lease. Renewing a live lease changes nothing here.
Expire(a) ==
  /\ a \in Running(db) /\ db.attempts[a].lease = "live"
  /\ db' = [db EXCEPT !.attempts[a].lease = "expired"]
  /\ UNCHANGED <<plan, Disk>>

\* A reviewer completes the run, and its evidence is published once.
CompleteReview ==
  /\ db.run.state = "awaiting_review"
  /\ db' = [db EXCEPT !.run.state = "completed"]
  /\ UNCHANGED <<plan, Disk>>

Content(d) == <<d.run, d.attempts, d.settled, d.refs>>

PublishEvidence ==
  /\ db.run.state \in {"completed", "failed"}
  /\ db.publication = <<>>
  /\ db' = [db EXCEPT !.publication = <<Content(db)>>]
  /\ UNCHANGED <<plan, Disk>>

-----------------------------------------------------------------------------
(* Generators that call the authority themselves.                          *)

ClientClaim(a) ==
  /\ ~plan.messages
  /\ a \in Claimable(db)
  /\ db' = Claimed(db, a)
  /\ UNCHANGED <<plan, Disk>>

ClientRenew(a) ==
  /\ ~plan.messages
  /\ a \in Stale(db)
  /\ ReconcileFrom(db)
  /\ UNCHANGED <<plan, Disk>>

ClientSettle(a, o) ==
  /\ ~plan.messages
  /\ a \in Running(db)
  /\ Len(o.patches) <= Reserved(a).proposals
  /\ SettleAttempt(a, o)
  /\ UNCHANGED <<plan, Disk>>

-----------------------------------------------------------------------------
(* The dispatcher: run-once, its crashes, and recover.                     *)

At(p, pc) == dispatch[p].pc = pc
Mine(p) == dispatch[p].attempt
GoTo(p, pc) == dispatch' = [dispatch EXCEPT ![p].pc = pc]

RunOnce(p) ==
  /\ At(p, "idle")
  /\ plan.messages /\ Len(plan.generators) = 1
  /\ \E a \in Claimable(db) :
       /\ db' = Claimed(db, a)
       /\ dispatch' = [dispatch EXCEPT ![p].pc = "claimed", ![p].attempt = a]
  /\ UNCHANGED <<plan, files, receipts, calls>>

PublishClaim(p) ==
  /\ At(p, "claimed")
  /\ files' = [files EXCEPT ![Mine(p)] = @ \cup {"claim"}]
  /\ GoTo(p, "published")
  /\ UNCHANGED <<plan, db, receipts, calls>>

\* The marker is created exclusively: an attempt that has been started is
\* never started again. The lease must outlast the runner's timeout.
StartAttempt(p) ==
  /\ At(p, "published")
  /\ db.attempts[Mine(p)].lease = "live"
  /\ "started" \notin files[Mine(p)]
  /\ files' = [files EXCEPT ![Mine(p)] = @ \cup {"started"}]
  /\ GoTo(p, "started")
  /\ UNCHANGED <<plan, db, receipts, calls>>

\* execute_claim raises: the lease may end before the runner's timeout.
Refuse(p) ==
  /\ At(p, "published")
  /\ dispatch' = [dispatch EXCEPT ![p] = AtRest]
  /\ UNCHANGED <<plan, db, files, receipts, calls>>

CallProvider(p) ==
  /\ At(p, "started")
  /\ \E o \in Outcomes :
       /\ Len(o.patches) <= Reserved(Mine(p)).proposals
       /\ calls' = [calls EXCEPT ![Mine(p)] = Append(@, o)]
       /\ dispatch' = [dispatch EXCEPT ![p].pc = "ran", ![p].result = <<o>>]
  /\ UNCHANGED <<plan, db, files, receipts>>

\* The receipt counts from the moment receipt-ref.json points to it.
PublishReceipt(p) ==
  /\ At(p, "ran")
  /\ receipts' = [receipts EXCEPT ![Mine(p)] =
                    IF @ = <<>> THEN dispatch[p].result ELSE @]
  /\ GoTo(p, "indexed")
  /\ UNCHANGED <<plan, db, files, calls>>

SettleClaim(p) ==
  /\ At(p, "indexed")
  /\ SettleAttempt(Mine(p), receipts[Mine(p)][1])
  /\ dispatch' = [dispatch EXCEPT ![p] = AtRest]
  /\ UNCHANGED <<plan, files, receipts, calls>>

\* The command dies, or it raises because its evidence is refused. Nothing but
\* the database and the files is left.
Crash(p) ==
  /\ ~At(p, "idle")
  /\ dispatch' = [dispatch EXCEPT ![p] = AtRest]
  /\ UNCHANGED <<plan, db, files, receipts, calls>>

\* Settles from the files alone and never executes; what it reads of them is
\* immutable, so the settlement is its only step.
Recover(a) ==
  /\ plan.messages
  /\ "claim" \in files[a] /\ receipts[a] # <<>>
  /\ db.attempts[a].state \in {"running", "succeeded", "failed"}
  /\ SettleAttempt(a, receipts[a][1])
  /\ UNCHANGED <<plan, Disk>>

DispatchStep(p) ==
  \/ PublishClaim(p) \/ StartAttempt(p) \/ Refuse(p)
  \/ CallProvider(p) \/ PublishReceipt(p) \/ SettleClaim(p)

GenerationNext ==
  \/ CreateGenerationRun \/ Reconcile \/ CompleteReview \/ PublishEvidence
  \/ \E a \in AttemptIds :
       \/ Expire(a) \/ ClientClaim(a) \/ ClientRenew(a) \/ Recover(a)
       \/ \E o \in Outcomes : ClientSettle(a, o)
  \/ \E p \in Dispatchers : RunOnce(p) \/ DispatchStep(p) \/ Crash(p)

GenerationSpec == GenerationInit /\ [][GenerationNext]_gvars

\* Reconcile changes the rows only of a run that was not started to the end or
\* has an attempt whose lease has run out.
ReconcileIsDue == db.run.state = "created" \/ Stale(db) # {}

\* An operator repeats run-once and reconcile until the run is decided, no
\* command lasts for ever (it ends, or it dies), and nobody renews for ever.
GenerationFairness ==
  /\ WF_gvars(ReconcileIsDue /\ Reconcile)
  /\ WF_gvars(\E a \in AttemptIds : Expire(a))
  /\ WF_gvars(\E a \in AttemptIds : ClientClaim(a))
  /\ WF_gvars(\E p \in Dispatchers : RunOnce(p))
  /\ \A p \in Dispatchers : WF_gvars(Crash(p))

-----------------------------------------------------------------------------
(* Properties.                                                             *)

\* Attempts in turn: whatever expires, is settled late or is reconciled twice,
\* the attempts of a generator are numbered without a gap, all but the latest
\* have failed, there are no more of them than the plan allows, no more than
\* max_concurrency run, and none is left behind by a run that is decided.
AttemptsInTurn ==
  /\ Exists => \A g \in Generators :
       \E k \in 1 .. plan.generators[g].max_attempts :
         /\ RowsOf(db, g) = {g} \X (1 .. k)
         /\ \A n \in 1 .. k - 1 : db.attempts[<<g, n>>].state = "failed"
  /\ Cardinality(Running(db)) <= plan.max_concurrency
  /\ db.run.state \notin {"created", "running"} => Live(db) = {}

\* The budget: retries reserve again and every failure is charged in full, and
\* still the ledger never exceeds the plan, which covers the proposals of one
\* attempt of each generator only; the sums recorded in the run are those of
\* the rows after every transaction. generation_budget_corrupt is unreachable.
BudgetKept ==
  /\ db.run.error # "generation_budget_corrupt"
  /\ db.run.reserved = OutstandingReserved(db)
  /\ db.run.consumed = ConsumedBudget(db)
  /\ Fits(Plus(db.run.reserved, db.run.consumed), plan.budget)

\* Charged once: an attempt has a reserve entry from the start and a settle
\* entry exactly when it has ended; the provider is paid at most once for an
\* attempt, crashes and recoveries included, and when the attempt has ended
\* the ledger covers the payment, up to the reservation.
ChargedOnce ==
  \A a \in AttemptIds :
    /\ a \in db.reserves <=> a \in Rows(db)
    /\ Charged(db, a) <=> db.attempts[a].state \in {"succeeded", "failed"}
    /\ calls[a] # <<>> =>
         /\ Len(calls[a]) = 1 /\ a \in db.reserves
         /\ Charged(db, a) =>
              \/ calls[a][1].units <= db.settled[a].units
              \/ db.settled[a].units = Reserved(a).units

\* The ledger holds, in sum and entry by entry.
LedgerKept == BudgetKept /\ ChargedOnce

\* Attempts and ledger go together (claim_generation_attempt,
\* settle_generation_attempt, reconcile_generation_run).
AttemptsAccounted == AttemptsInTurn /\ LedgerKept

\* The family of proposals under review is the one that was paid for: all
\* proposals of the attempts that succeeded, for each patch exactly one
\* retained, of the earliest generator that proposed it, the others pointing
\* to it; before the decision none has a disposition.
FamilyDecided ==
  /\ \A r \in db.refs : db.attempts[r.attempt].state = "succeeded"
  /\ \A a \in AttemptIds :
       LET mine == {r \in db.refs : r.attempt = a}
       IN  /\ Cardinality(mine) = db.settled[a].proposals
           /\ db.attempts[a].state = "succeeded" => mine # {}
           /\ mine # {} /\ receipts[a] # <<>> =>
                \A r \in mine : r.patch = receipts[a][1].patches[r.ordinal]
  /\ IF db.run.state \in {"awaiting_review", "completed"}
       THEN \A r \in db.refs :
              LET same == {q \in db.refs : q.patch = r.patch}
                  kept == {q \in same : q.disposition = "retained"}
              IN  /\ Cardinality(kept) = 1
                  /\ \A q \in kept : /\ r.of = <<q.attempt, q.ordinal>>
                                     /\ q.attempt[1] <= r.attempt[1]
                  /\ r.disposition = "duplicate" <=> r \notin kept
       ELSE \A r \in db.refs : r.disposition = "pending"
  /\ db.run.state \in {"awaiting_review", "completed"} => db.refs # {}
  /\ db.run.state = "failed" => db.refs = {}

\* Once a run is decided, a late settlement, renewal, recovery or reconcile
\* changes nothing of it but the outcome of its review, and the published
\* evidence goes on to describe the rows.
DecidedForGood ==
  [][/\ db.run.state \in {"awaiting_review", "completed", "failed"} =>
          /\ UNCHANGED <<db.attempts, db.reserves, db.settled, db.refs>>
          /\ \/ UNCHANGED db.run.state
             \/ db.run.state = "awaiting_review" /\ db'.run.state = "completed"
     /\ db'.publication # <<>> => db'.publication[1] = Content(db')]_gvars

\* A run that has been created is decided, wherever its commands die.
RunIsDecided ==
  Exists ~> db.run.state \in {"awaiting_review", "completed", "failed"}
=============================================================================
