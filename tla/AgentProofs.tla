---------------------------- MODULE AgentProofs ----------------------------
(***************************************************************************)
(* What a generation run promises, and what its reviews and promotions do, *)
(* for any plan, outcomes, dispatchers, proposals, reviews and promoters.  *)
(*                                                                         *)
(* The first part is about AgentGeneration: the attempts of a generator    *)
(* are made in turn and charged once, the budget of the plan is never      *)
(* exceeded, the family of proposals under review is the one that was paid *)
(* for, and a decision stands.  Its invariant, GenerationInv, is kept by   *)
(* each of the pieces of a transaction (WithStaleFailed, Retries, Decided, *)
(* Recounted, Ended), so by every transaction, and by the steps of the     *)
(* dispatcher.                                                             *)
(*                                                                         *)
(* The second part is about AgentReview: a key is one review, and an       *)
(* accepted candidate is traced to the review, the package and the run it  *)
(* came from.                                                              *)
(***************************************************************************)
EXTENDS AgentGeneration, AgentReview, Sums

-----------------------------------------------------------------------------
(* The invariant of a generation run. CoreOK is what every stage of a      *)
(* transaction keeps; RunOK is what holds between transactions.            *)

Over == {"awaiting_review", "completed", "failed"}

Patch == UNION {Range(o.patches) : o \in Outcomes}
RefRow ==
  [attempt : AttemptIds, ordinal : Nat, patch : Patch,
   disposition : {"pending", "retained", "duplicate"},
   of : {<<>>} \cup (AttemptIds \X Nat)]
RunRow ==
  [state : {"absent", "created", "running"} \cup Over,
   error : {"none", "no_retained_proposals", "generation_budget_corrupt"},
   reserved : GenerationBudgetUsage, consumed : GenerationBudgetUsage]
AttemptRow ==
  [state : {"absent", "pending", "running", "succeeded", "failed"},
   lease : {"none", "live", "expired"}]
Paid == {<<>>} \cup {<<o>> : o \in Outcomes}

RowTypes(d) ==
  d \in [run : RunRow, attempts : [AttemptIds -> AttemptRow],
         reserves : SUBSET AttemptIds, settled : [AttemptIds -> GenerationBudgetUsage],
         refs : SUBSET RefRow, publication : {d.publication}]

\* Generator g has made k attempts, and all but the last have failed.
HasMade(d, g, k) ==
  /\ RowsOf(d, g) = {g} \X (1 .. k)
  /\ \A n \in 1 .. k - 1 : d.attempts[<<g, n>>].state = "failed"

InTurn(d) ==
  /\ \A a \in Rows(d) : a[1] \in Generators
  /\ d.run.state = "absent" => Rows(d) = {}
  /\ d.run.state # "absent" =>
       \A g \in Generators :
         \E k \in 1 .. plan.generators[g].max_attempts : HasMade(d, g, k)

FewRun(d) == Cardinality(Running(d)) <= plan.max_concurrency

\* What the ledger says of an attempt.
EntryOK(d, a) ==
  /\ d.attempts[a].state \notin {"succeeded", "failed"} => d.settled[a] = NoUsage
  /\ d.attempts[a].state \in {"succeeded", "failed"} =>
       /\ d.settled[a].attempts = 1
       /\ d.settled[a].units <= Reserved(a).units
  /\ d.attempts[a].state = "succeeded" =>
       d.settled[a].proposals \in 1 .. Reserved(a).proposals
  /\ d.attempts[a].state = "failed" => d.settled[a].proposals = 0

LedgerOK(d) == d.reserves = Rows(d) /\ \A a \in AttemptIds : EntryOK(d, a)

RefsOK(d) ==
  /\ \A r \in d.refs : /\ d.attempts[r.attempt].state = "succeeded"
                       /\ r.ordinal \in 1 .. d.settled[r.attempt].proposals
  /\ \A a \in AttemptIds : d.attempts[a].state = "succeeded" =>
       \A i \in 1 .. d.settled[a].proposals :
         \E r \in d.refs : r.attempt = a /\ r.ordinal = i
  /\ \A r, q \in d.refs : r.attempt = q.attempt /\ r.ordinal = q.ordinal => r = q

CoreOK(d) == RowTypes(d) /\ InTurn(d) /\ FewRun(d) /\ LedgerOK(d) /\ RefsOK(d)

Undecided(d) == \A r \in d.refs : r.disposition = "pending"

FamilyFinal(d) ==
  \A r \in d.refs :
    LET same == {q \in d.refs : q.patch = r.patch}
        kept == {q \in same : q.disposition = "retained"}
    IN  /\ Cardinality(kept) = 1
        /\ \A q \in kept : /\ r.of = <<q.attempt, q.ordinal>>
                           /\ q.attempt[1] <= r.attempt[1]
        /\ r.disposition = "duplicate" <=> r \notin kept

CountedOK(d) ==
  /\ d.run.error # "generation_budget_corrupt"
  /\ d.run.reserved = OutstandingReserved(d)
  /\ d.run.consumed = ConsumedBudget(d)

DecisionOK(d) ==
  /\ d.run.state \notin {"created", "running"} => Live(d) = {}
  /\ d.run.state \in {"awaiting_review", "completed"} => FamilyFinal(d) /\ d.refs # {}
  /\ d.run.state \notin {"awaiting_review", "completed"} => Undecided(d)
  /\ d.run.state = "failed" => d.refs = {}

PublicationOK(d) ==
  d.publication # <<>> =>
    d.run.state \in {"completed", "failed"} /\ d.publication[1] = Content(d)

RunOK(d) == CountedOK(d) /\ DecisionOK(d) /\ PublicationOK(d)

DiskTypes ==
  /\ files \in [AttemptIds -> SUBSET {"claim", "started"}]
  /\ receipts \in [AttemptIds -> Paid]
  /\ calls \in [AttemptIds -> Paid]
  /\ dispatch \in [Dispatchers ->
       [pc : {"idle", "claimed", "published", "started", "ran", "indexed"},
        attempt : AttemptIds \cup {NoAttempt}, result : Paid]]

Begun(a) == db.attempts[a].state \notin {"absent", "pending"}

DispatchersOK ==
  \A p \in Dispatchers : ~At(p, "idle") =>
    /\ plan.messages /\ Mine(p) \in AttemptIds /\ Begun(Mine(p))
    /\ \A q \in Dispatchers : ~At(q, "idle") /\ Mine(q) = Mine(p) => p = q
    /\ At(p, "started") => "started" \in files[Mine(p)] /\ calls[Mine(p)] = <<>>
    /\ At(p, "ran") => calls[Mine(p)] # <<>> /\ dispatch[p].result = calls[Mine(p)]
    /\ At(p, "indexed") => receipts[Mine(p)] # <<>>

FilesOK ==
  \A a \in AttemptIds :
    /\ calls[a] # <<>> => plan.messages /\ "started" \in files[a] /\ Begun(a)
    /\ receipts[a] # <<>> => receipts[a] = calls[a]

\* With the dispatcher, an attempt has ended with its receipt or in full.
ReceiptsTell ==
  plan.messages => \A a \in AttemptIds :
    /\ db.attempts[a].state = "failed" =>
         \/ db.settled[a].units = Reserved(a).units
         \/ receipts[a] # <<>> /\ db.settled[a].units = receipts[a][1].units
    /\ db.attempts[a].state = "succeeded" =>
         /\ receipts[a] # <<>> /\ db.settled[a].units = receipts[a][1].units
         /\ \A r \in db.refs : r.attempt = a =>
              r.patch = receipts[a][1].patches[r.ordinal]

GenInvariant ==
  /\ CoreOK(db) /\ RunOK(db)
  /\ DiskTypes /\ DispatchersOK /\ FilesOK /\ ReceiptsTell

-----------------------------------------------------------------------------
(* The plan, the rows, and why the budget cannot be exceeded: sums over the*)
(* attempts of one generator at a time, of which there are at most         *)
(* max_attempts, and only the last of which can have proposals.            *)

\* What PlanOK says of the frozen plan, generator by generator.
LEMMA PlanFacts ==
  ASSUME plan \in Plans
  PROVE  /\ Generators = 1 .. Len(plan.generators)
         /\ Len(plan.generators) \in Nat /\ Len(plan.generators) <= MaxGenerators
         /\ \A g \in Generators : /\ g \in 1 .. MaxGenerators
                                  /\ plan.generators[g].max_attempts \in 1 .. MaxAttempts
                                  /\ plan.generators[g].max_attempts \in Nat
                                  /\ plan.generators[g].max_proposals \in Nat
                                  /\ plan.generators[g].units \in Nat
         /\ plan.max_concurrency \in Nat /\ plan.max_concurrency > 0
         /\ plan.messages \in BOOLEAN
         /\ plan.budget \in GenerationBudgetUsage
<1> DEFINE G == [max_attempts : Nat, max_proposals : Nat, units : Nat]
<1>1. /\ plan.generators \in Seq(G)
      /\ Len(plan.generators) \in 1 .. MaxGenerators
      /\ plan.max_concurrency \in 1 .. Len(plan.generators)
      /\ \A g \in DOMAIN plan.generators :
            plan.generators[g].max_attempts \in 1 .. MaxAttempts
      /\ plan.messages \in BOOLEAN
      /\ plan.budget \in GenerationBudgetUsage
  BY PlansAssumption DEF PlanOK
<1>2. DOMAIN plan.generators = 1 .. Len(plan.generators)
  <2> HIDE DEF G
  <2> QED BY <1>1
<1>3. \A g \in DOMAIN plan.generators : plan.generators[g] \in G
  <2> HIDE DEF G
  <2> QED BY <1>1, <1>2
<1>4. Generators = 1 .. Len(plan.generators)
  BY <1>2 DEF Generators
<1>5. ASSUME NEW g \in Generators
      PROVE  /\ plan.generators[g].max_attempts \in 1 .. MaxAttempts
             /\ plan.generators[g].max_attempts \in Nat
             /\ plan.generators[g].max_proposals \in Nat
             /\ plan.generators[g].units \in Nat
  BY <1>1, <1>3 DEF Generators
<1>6. \A g \in Generators : g \in 1 .. MaxGenerators
  BY <1>1, <1>4, BoundsAssumption
<1>7. /\ Len(plan.generators) \in Nat /\ Len(plan.generators) <= MaxGenerators
      /\ plan.max_concurrency \in Nat /\ plan.max_concurrency > 0
  BY <1>1, BoundsAssumption
<1> HIDE DEF G
<1> QED BY <1>1, <1>4, <1>5, <1>6, <1>7

\* The budget of a plan covers the attempts and units of every attempt, and the
\* proposals of one attempt of each generator.
LEMMA PlanSums ==
  ASSUME plan \in Plans
  PROVE  /\ SumFunctionOnSet([g \in Generators |-> plan.generators[g].max_attempts],
                             Generators) <= plan.budget.attempts
         /\ SumFunctionOnSet([g \in Generators |-> plan.generators[g].max_attempts
                                                     * plan.generators[g].units],
                             Generators) <= plan.budget.units
         /\ SumFunctionOnSet([g \in Generators |-> plan.generators[g].max_proposals],
                             Generators) <= plan.budget.proposals
BY PlansAssumption DEF PlanOK, SumFunction, Generators

\* There are finitely many attempts, whatever the bounds.
LEMMA FiniteAttempts == IsFiniteSet(AttemptIds)
<1>1. IsFiniteSet(1 .. MaxGenerators) /\ IsFiniteSet(1 .. MaxAttempts)
  BY FS_Interval, BoundsAssumption
<1> QED BY <1>1, FS_Product DEF AttemptIds

\* The rows, table by table.
LEMMA RowFacts ==
  ASSUME NEW d, RowTypes(d)
  PROVE  /\ d.run \in RunRow /\ d.reserves \subseteq AttemptIds /\ d.refs \subseteq RefRow
         /\ d.attempts \in [AttemptIds -> AttemptRow]
         /\ d.settled \in [AttemptIds -> GenerationBudgetUsage]
BY DEF RowTypes

\* The row of one attempt and its charge.
LEMMA StateFacts ==
  ASSUME NEW d, RowTypes(d), NEW a \in AttemptIds
  PROVE  /\ d.attempts[a].state \in {"absent", "pending", "running", "succeeded", "failed"}
         /\ d.settled[a].attempts \in Nat /\ d.settled[a].units \in Nat
         /\ d.settled[a].proposals \in Nat
BY RowFacts DEF AttemptRow, GenerationBudgetUsage

\* What an attempt reserves, and what it is charged when nobody knows its use.
LEMMA ReservedFacts ==
  ASSUME plan \in Plans, NEW a, a[1] \in Generators
  PROVE  /\ Reserved(a).attempts = 1
         /\ Reserved(a).units = plan.generators[a[1]].units
         /\ Reserved(a).proposals = plan.generators[a[1]].max_proposals
         /\ Reserved(a) \in GenerationBudgetUsage
         /\ ConservativeUsage(Reserved(a)) \in GenerationBudgetUsage
         /\ ConservativeUsage(Reserved(a)).attempts = 1
         /\ ConservativeUsage(Reserved(a)).units = Reserved(a).units
         /\ ConservativeUsage(Reserved(a)).proposals = 0
<1>1. plan.generators[a[1]].units \in Nat /\ plan.generators[a[1]].max_proposals \in Nat
  BY PlanFacts
<1>2. /\ Reserved(a).attempts = 1
      /\ Reserved(a).units = plan.generators[a[1]].units
      /\ Reserved(a).proposals = plan.generators[a[1]].max_proposals
      /\ Reserved(a) \in GenerationBudgetUsage
  BY <1>1 DEF Reserved, ReservedUsage, GenerationBudgetUsage
<1> QED BY <1>2 DEF ConservativeUsage, GenerationBudgetUsage

\* The attempts of a generator in one word: how many they are.
LEMMA MadeFacts ==
  ASSUME plan \in Plans, NEW d, RowTypes(d), NEW g \in Generators,
         NEW k \in 1 .. plan.generators[g].max_attempts, HasMade(d, g, k)
  PROVE  /\ Latest(d, g) = <<g, k>> /\ <<g, k>> \in RowsOf(d, g) /\ <<g, k>> \in AttemptIds
         /\ HasSucceeded(d, g) <=> d.attempts[<<g, k>>].state = "succeeded"
<1>1. k \in Nat /\ k >= 1 /\ g \in 1 .. MaxGenerators /\ k \in 1 .. MaxAttempts
  BY PlanFacts, BoundsAssumption
<1>2. <<g, k>> \in RowsOf(d, g) /\ <<g, k>> \in AttemptIds
  BY <1>1 DEF HasMade, AttemptIds
<1>3. \A b \in RowsOf(d, g) : b[1] = g /\ b[2] \in 1 .. k /\ b = <<g, b[2]>>
  BY DEF HasMade
<1>4. Latest(d, g) = <<g, k>>
  <2> DEFINE P(a) == \A b \in RowsOf(d, g) : b[2] <= a[2]
  <2>1. P(<<g, k>>)
    BY <1>1, <1>3
  <2>2. \A a \in RowsOf(d, g) : P(a) => a = <<g, k>>
    <3> TAKE a \in RowsOf(d, g)
    <3> HAVE P(a)
    <3>1. k <= a[2] /\ a[2] \in 1 .. k /\ a = <<g, a[2]>>
      BY <1>2, <1>3
    <3>2. a[2] = k
      BY <3>1, <1>1
    <3> QED BY <3>1, <3>2
  <2>3. Latest(d, g) = CHOOSE a \in RowsOf(d, g) : P(a)
    BY DEF Latest
  <2> HIDE DEF P
  <2> QED BY <1>2, <2>1, <2>2, <2>3
<1>5. \A b \in RowsOf(d, g) : d.attempts[b].state = "succeeded" => b = <<g, k>>
  <2> TAKE b \in RowsOf(d, g)
  <2>1. b = <<g, b[2]>> /\ b[2] \in 1 .. k
    BY <1>3
  <2>2. b[2] # k => d.attempts[<<g, b[2]>>].state = "failed"
    <3> HAVE b[2] # k
    <3>1. b[2] \in 1 .. k - 1
      BY <2>1, <1>1
    <3> QED BY <3>1 DEF HasMade
  <2> QED BY <2>1, <2>2
<1> QED BY <1>2, <1>4, <1>5 DEF HasSucceeded

-----------------------------------------------------------------------------
(* The budget.                                                             *)

\* What an attempt has of the budget, reserved or charged: the field F of it.
LEMMA OneCharge ==
  ASSUME plan \in Plans, NEW d, CoreOK(d),
         NEW res, \A a \in Live(d) : res[a] \in Nat,
         NEW set, \A a \in AttemptIds : set[a] \in Nat,
         \A a \in AttemptIds : d.attempts[a].state \notin {"succeeded", "failed"} => set[a] = 0,
         NEW b, \A g \in Generators : b[g] \in Nat,
         NEW t, t = [a \in AttemptIds |-> IF a \in Live(d) THEN res[a] ELSE set[a]],
         \A g \in Generators : SumFunctionOnSet(t, RowsOf(d, g)) <= b[g]
  PROVE  SumFunctionOnSet(res, Live(d)) + SumFunctionOnSet(set, AttemptIds)
            <= SumFunctionOnSet(b, Generators)
<1> DEFINE L == Live(d)
           N == AttemptIds \ L
<1>0. IsFiniteSet(AttemptIds) /\ IsFiniteSet(L) /\ IsFiniteSet(N) /\ L \in SUBSET AttemptIds
      /\ L \subseteq Rows(d) /\ Rows(d) \subseteq AttemptIds
  <2>1. L \subseteq Rows(d) /\ Rows(d) \subseteq AttemptIds
    BY DEF Live, Running, Unclaimed, Rows
  <2> QED BY <2>1, FiniteAttempts, FS_Subset
<1>1. \A a \in AttemptIds : t[a] \in Nat
  BY <1>0
<1>2. \A a \in L : set[a] = 0 /\ t[a] = res[a]
  BY <1>0 DEF Live, Running, Unclaimed
<1>3. \A a \in N : t[a] = set[a]
  OBVIOUS
<1> HIDE DEF L, N
<1>4. SumFunctionOnSet(t, AttemptIds) = SumFunctionOnSet(t, L) + SumFunctionOnSet(t, N)
  BY <1>0, <1>1, SumParts DEF N
<1>5. SumFunctionOnSet(set, AttemptIds) = SumFunctionOnSet(set, L) + SumFunctionOnSet(set, N)
  BY <1>0, SumParts DEF N
<1>6. SumFunctionOnSet(set, L) = 0
  BY <1>0, <1>2, SumZero
<1>7. SumFunctionOnSet(t, L) = SumFunctionOnSet(res, L)
  BY <1>0, <1>2, SumSame
<1>8. SumFunctionOnSet(t, N) = SumFunctionOnSet(set, N)
  BY <1>0, <1>3, SumSame
<1>9. SumFunctionOnSet(set, N) \in Nat
  <2>1. \A a \in N : set[a] \in Nat
    BY DEF N
  <2> QED BY <1>0, <2>1, SumNat
<1>10. SumFunctionOnSet(res, L) + SumFunctionOnSet(set, AttemptIds) = SumFunctionOnSet(t, AttemptIds)
  BY <1>4, <1>5, <1>6, <1>7, <1>8, <1>9
<1>11. SumFunctionOnSet(t, AttemptIds) = SumFunctionOnSet(t, Rows(d))
  <2> DEFINE R == AttemptIds \ Rows(d)
  <2>1. IsFiniteSet(R) /\ IsFiniteSet(Rows(d)) /\ Rows(d) \in SUBSET AttemptIds
    BY <1>0, FS_Subset
  <2>2. \A a \in R : t[a] = 0
    BY <1>0 DEF Rows, L
  <2>3. SumFunctionOnSet(t, R) = 0
    BY <2>1, <2>2, SumZero
  <2>4. SumFunctionOnSet(t, Rows(d)) \in Nat
    BY <1>0, <1>1, <2>1, SumNat
  <2>5. SumFunctionOnSet(t, AttemptIds) = SumFunctionOnSet(t, Rows(d)) + SumFunctionOnSet(t, R)
    BY <1>0, <1>1, <2>1, SumParts
  <2> QED BY <2>3, <2>4, <2>5
<1>12. SumFunctionOnSet(t, Rows(d)) <= SumFunctionOnSet(b, Generators)
  <2> DEFINE key == [a \in AttemptIds |-> a[1]]
  <2>1. IsFiniteSet(Rows(d)) /\ IsFiniteSet(Generators)
    <3>1. Generators = 1 .. Len(plan.generators) /\ Len(plan.generators) \in Int
      BY PlanFacts
    <3>2. \A n \in Int : IsFiniteSet(1 .. n)
      BY FS_Interval
    <3> QED BY <1>0, <3>1, <3>2, FS_Subset
  <2>2. \A a \in Rows(d) : key[a] = a[1] /\ key[a] \in Generators
    BY <1>0 DEF CoreOK, InTurn
  <2>3. \A g \in Generators : {a \in Rows(d) : key[a] = g} = RowsOf(d, g)
    BY <2>2 DEF RowsOf
  <2>4. \A a \in Rows(d) : t[a] \in Nat
    BY <1>0, <1>1
  <2> HIDE DEF key
  <2>5. \A g \in Generators :
           b[g] \in Nat /\ SumFunctionOnSet(t, {a \in Rows(d) : key[a] = g}) <= b[g]
    BY <2>3
  <2> QED BY <2>1, <2>2, <2>4, <2>5, SumByKey
<1> QED BY <1>10, <1>11, <1>12 DEF L

\* A generator that has made k attempts has k rows.
LEMMA CountRows ==
  ASSUME NEW g, NEW k \in Nat
  PROVE  IsFiniteSet({g} \X (1 .. k)) /\ Cardinality({g} \X (1 .. k)) = k
<1> DEFINE f == [n \in 1 .. k |-> <<g, n>>]
<1>1. f \in Bijection(1 .. k, {g} \X (1 .. k))
  <2>1. f \in [1 .. k -> {g} \X (1 .. k)]
    OBVIOUS
  <2>2. \A m, n \in 1 .. k : f[m] = f[n] => m = n
    OBVIOUS
  <2>3. \A x \in {g} \X (1 .. k) : f[x[2]] = x /\ x[2] \in 1 .. k
    OBVIOUS
  <2> HIDE DEF f
  <2> QED BY <2>1, <2>2, <2>3 DEF Bijection, Injection, Surjection, IsInjective
<1> HIDE DEF f
<1>2. ExistsBijection(1 .. k, {g} \X (1 .. k))
  BY <1>1 DEF ExistsBijection
<1> QED BY <1>2, FS_CountingElements, FS_NatBijection

\* The attempts a generator has made: none, or those from 1 to k.
LEMMA RowsOfCases ==
  ASSUME NEW d, CoreOK(d), NEW g \in Generators
  PROVE  \/ RowsOf(d, g) = {}
         \/ \E k \in 1 .. plan.generators[g].max_attempts : HasMade(d, g, k)
BY DEF CoreOK, InTurn, RowsOf

\* The state of a row is one of four.
LEMMA RowStates ==
  ASSUME NEW d, RowTypes(d), NEW a \in Rows(d)
  PROVE  /\ a \in AttemptIds
         /\ \/ a \in Live(d) /\ d.attempts[a].state \in {"pending", "running"}
            \/ a \notin Live(d) /\ d.attempts[a].state \in {"succeeded", "failed"}
BY StateFacts DEF Rows, Live, Running, Unclaimed

\* More of the same cost no less.
LEMMA TimesMore ==
  ASSUME NEW m \in Nat, NEW n \in Nat, m <= n, NEW u \in Nat
  PROVE  m * u <= n * u /\ m * u \in Nat /\ n * u \in Nat
<1>1. PICK x \in Nat : n = m + x
  BY n - m \in Nat
<1>2. n * u = m * u + x * u
  BY <1>1
<1>3. m * u \in Nat /\ x * u \in Nat
  OBVIOUS
<1> QED BY <1>2, <1>3

\* Attempts that each have at most u.
LEMMA BoundedRows ==
  ASSUME plan \in Plans, NEW d, CoreOK(d), NEW g \in Generators, NEW u \in Nat, NEW t,
         \A a \in RowsOf(d, g) : t[a] \in Nat /\ t[a] <= u
  PROVE  SumFunctionOnSet(t, RowsOf(d, g)) <= plan.generators[g].max_attempts * u
<1> DEFINE N == plan.generators[g].max_attempts
<1>0. N \in Nat
  BY PlanFacts
<1>1. CASE RowsOf(d, g) = {}
  <2>1. SumFunctionOnSet(t, RowsOf(d, g)) = 0
    BY <1>1, SumEmpty
  <2> QED BY <1>0, <2>1, TimesMore
<1>2. ASSUME NEW k \in 1 .. N, HasMade(d, g, k)
      PROVE  SumFunctionOnSet(t, RowsOf(d, g)) <= N * u
  <2>1. k \in Nat /\ k <= N
    BY <1>0
  <2>2. IsFiniteSet(RowsOf(d, g)) /\ Cardinality(RowsOf(d, g)) = k
    <3>1. RowsOf(d, g) = {g} \X (1 .. k)
      BY <1>2 DEF HasMade
    <3>2. IsFiniteSet({g} \X (1 .. k)) /\ Cardinality({g} \X (1 .. k)) = k
      BY <2>1, CountRows
    <3> QED BY <3>1, <3>2
  <2>3. SumFunctionOnSet(t, RowsOf(d, g)) <= k * u
    BY <2>2, SumAtMost
  <2>4. SumFunctionOnSet(t, RowsOf(d, g)) \in Nat
    BY <2>2, SumNat
  <2> HIDE DEF N
  <2>5. k * u <= N * u /\ k * u \in Nat /\ N * u \in Nat
    BY <1>0, <2>1, TimesMore
  <2> QED BY <2>3, <2>4, <2>5
<1> QED BY <1>1, <1>2, RowsOfCases

\* Attempts of which all but the last have nothing.
LEMMA LastRowOnly ==
  ASSUME plan \in Plans, NEW d, CoreOK(d), NEW g \in Generators, NEW u \in Nat, NEW t,
         \A a \in RowsOf(d, g) : t[a] \in Nat /\ t[a] <= u,
         \A a \in RowsOf(d, g) : d.attempts[a].state = "failed" => t[a] = 0
  PROVE  SumFunctionOnSet(t, RowsOf(d, g)) <= u
<1>1. CASE RowsOf(d, g) = {}
  BY <1>1, SumEmpty
<1>2. ASSUME NEW k \in 1 .. plan.generators[g].max_attempts, HasMade(d, g, k)
      PROVE  SumFunctionOnSet(t, RowsOf(d, g)) <= u
  <2> DEFINE R == RowsOf(d, g) \ {<<g, k>>}
  <2>1. k \in Nat /\ <<g, k>> \in RowsOf(d, g)
    BY <1>2, PlanFacts DEF HasMade
  <2>2. IsFiniteSet(RowsOf(d, g)) /\ IsFiniteSet(R)
    BY <1>2, <2>1, CountRows, FS_Subset DEF HasMade
  <2>3. \A a \in R : t[a] = 0
    <3> TAKE a \in R
    <3>1. a = <<g, a[2]>> /\ a[2] \in 1 .. k - 1
      BY <1>2, <2>1 DEF HasMade
    <3>2. d.attempts[<<g, a[2]>>].state = "failed"
      BY <1>2, <3>1 DEF HasMade
    <3> QED BY <3>1, <3>2
  <2>4. SumFunctionOnSet(t, RowsOf(d, g)) = t[<<g, k>>] + SumFunctionOnSet(t, R)
    BY <2>1, <2>2, SumTakeOut
  <2>5. SumFunctionOnSet(t, R) = 0
    BY <2>2, <2>3, SumZero
  <2> QED BY <2>1, <2>4, <2>5
<1> QED BY <1>1, <1>2, RowsOfCases

\* Whatever has been reserved and charged is within the plan's budget.
LEMMA BudgetFits ==
  ASSUME plan \in Plans, NEW d, CoreOK(d)
  PROVE  /\ OutstandingReserved(d) \in GenerationBudgetUsage
         /\ ConsumedBudget(d) \in GenerationBudgetUsage
         /\ Fits(Plus(OutstandingReserved(d), ConsumedBudget(d)), plan.budget)
<1> DEFINE L == Live(d)
           A == AttemptIds
           resA == [a \in L |-> Reserved(a).attempts]
           resU == [a \in L |-> Reserved(a).units]
           resP == [a \in L |-> Reserved(a).proposals]
           setA == [a \in A |-> d.settled[a].attempts]
           setU == [a \in A |-> d.settled[a].units]
           setP == [a \in A |-> d.settled[a].proposals]
<1>1. /\ OutstandingReserved(d) = [attempts |-> SumFunctionOnSet(resA, L),
                                   units |-> SumFunctionOnSet(resU, L),
                                   proposals |-> SumFunctionOnSet(resP, L)]
      /\ ConsumedBudget(d) = [attempts |-> SumFunctionOnSet(setA, A),
                              units |-> SumFunctionOnSet(setU, A),
                              proposals |-> SumFunctionOnSet(setP, A)]
  <2>1. /\ resA = [a \in L |-> [b \in L |-> Reserved(b)][a].attempts]
        /\ resU = [a \in L |-> [b \in L |-> Reserved(b)][a].units]
        /\ resP = [a \in L |-> [b \in L |-> Reserved(b)][a].proposals]
    OBVIOUS
  <2>2. DOMAIN d.settled = A
    BY RowFacts DEF CoreOK
  <2> QED BY <2>1, <2>2 DEF OutstandingReserved, ConsumedBudget, SumUsage, SumFunction
<1>2. /\ RowTypes(d) /\ IsFiniteSet(A) /\ IsFiniteSet(L)
      /\ L \subseteq Rows(d) /\ L \subseteq A
  <2>1. L \subseteq Rows(d) /\ Rows(d) \subseteq A
    BY DEF Live, Running, Unclaimed, Rows
  <2> QED BY <2>1, FiniteAttempts, FS_Subset DEF CoreOK
<1>3. \A a \in Rows(d) : a[1] \in Generators
  BY DEF CoreOK, InTurn
<1>4. \A a \in L : /\ resA[a] \in Nat /\ resU[a] \in Nat /\ resP[a] \in Nat
                   /\ resA[a] = 1 /\ resU[a] = plan.generators[a[1]].units
                   /\ resP[a] = plan.generators[a[1]].max_proposals
  BY <1>2, <1>3, ReservedFacts, PlanFacts
<1>5. \A a \in A : setA[a] \in Nat /\ setU[a] \in Nat /\ setP[a] \in Nat
  BY <1>2, StateFacts
<1>6. \A a \in A : d.attempts[a].state \notin {"succeeded", "failed"} =>
                     setA[a] = 0 /\ setU[a] = 0 /\ setP[a] = 0
  BY DEF CoreOK, LedgerOK, EntryOK, NoUsage
<1>7. \A a \in A : d.attempts[a].state \in {"succeeded", "failed"} =>
        /\ setA[a] = 1 /\ setU[a] <= plan.generators[a[1]].units
        /\ setP[a] <= plan.generators[a[1]].max_proposals
        /\ d.attempts[a].state = "failed" => setP[a] = 0
  <2> TAKE a \in A
  <2> HAVE d.attempts[a].state \in {"succeeded", "failed"}
  <2>1. a \in Rows(d) /\ a[1] \in Generators
    BY <1>3 DEF Rows
  <2>2. EntryOK(d, a)
    BY DEF CoreOK, LedgerOK
  <2>3. Reserved(a).units = plan.generators[a[1]].units
        /\ Reserved(a).proposals = plan.generators[a[1]].max_proposals
        /\ plan.generators[a[1]].max_proposals \in Nat
    BY <2>1, ReservedFacts, PlanFacts
  <2> QED BY <2>2, <2>3 DEF EntryOK
<1> DEFINE t(res, set) == [a \in A |-> IF a \in L THEN res[a] ELSE set[a]]
<1>8. \A g \in Generators : \A a \in RowsOf(d, g) :
        /\ t(resA, setA)[a] = 1
        /\ t(resU, setU)[a] \in Nat /\ t(resU, setU)[a] <= plan.generators[g].units
        /\ t(resP, setP)[a] \in Nat /\ t(resP, setP)[a] <= plan.generators[g].max_proposals
        /\ d.attempts[a].state = "failed" => t(resP, setP)[a] = 0
  <2> TAKE g \in Generators
  <2> TAKE a \in RowsOf(d, g)
  <2>1. a \in Rows(d) /\ a[1] = g /\ a \in A
    BY DEF RowsOf, Rows
  <2>2. \/ a \in L /\ d.attempts[a].state # "failed"
        \/ a \notin L /\ d.attempts[a].state \in {"succeeded", "failed"}
    BY <1>2, <2>1, RowStates
  <2>3. plan.generators[g].units \in Nat /\ plan.generators[g].max_proposals \in Nat
    BY PlanFacts
  <2> HIDE DEF L, A, resA, resU, resP, setA, setU, setP
  <2> QED BY <1>4, <1>5, <1>7, <2>1, <2>2, <2>3
<1> DEFINE bA == [g \in Generators |-> plan.generators[g].max_attempts]
           bU == [g \in Generators |-> plan.generators[g].max_attempts * plan.generators[g].units]
           bP == [g \in Generators |-> plan.generators[g].max_proposals]
<1>9. \A g \in Generators :
        /\ bA[g] \in Nat /\ bU[g] \in Nat /\ bP[g] \in Nat
        /\ bA[g] = plan.generators[g].max_attempts * 1
        /\ bU[g] = plan.generators[g].max_attempts * plan.generators[g].units
        /\ bP[g] = plan.generators[g].max_proposals
        /\ plan.generators[g].units \in Nat /\ plan.generators[g].max_proposals \in Nat
  BY PlanFacts
<1>10. \A a \in Rows(d) : a \in L \/ a \in A
  BY DEF Rows
<1> HIDE DEF bA, bU, bP, resA, resU, resP, setA, setU, setP
<1>11. \A g \in Generators :
         /\ SumFunctionOnSet(t(resA, setA), RowsOf(d, g)) <= bA[g]
         /\ SumFunctionOnSet(t(resU, setU), RowsOf(d, g)) <= bU[g]
         /\ SumFunctionOnSet(t(resP, setP), RowsOf(d, g)) <= bP[g]
  <2> TAKE g \in Generators
  <2> HIDE DEF t
  <2>1. SumFunctionOnSet(t(resA, setA), RowsOf(d, g)) <= plan.generators[g].max_attempts * 1
    BY <1>8, BoundedRows
  <2>2. SumFunctionOnSet(t(resU, setU), RowsOf(d, g))
          <= plan.generators[g].max_attempts * plan.generators[g].units
    BY <1>8, <1>9, BoundedRows
  <2>3. SumFunctionOnSet(t(resP, setP), RowsOf(d, g)) <= plan.generators[g].max_proposals
    BY <1>8, <1>9, LastRowOnly
  <2> QED BY <1>9, <2>1, <2>2, <2>3
<1>12. /\ SumFunctionOnSet(resA, L) \in Nat /\ SumFunctionOnSet(setA, A) \in Nat
       /\ SumFunctionOnSet(resU, L) \in Nat /\ SumFunctionOnSet(setU, A) \in Nat
       /\ SumFunctionOnSet(resP, L) \in Nat /\ SumFunctionOnSet(setP, A) \in Nat
  BY <1>2, <1>4, <1>5, SumNat
<1>13. /\ SumFunctionOnSet(resA, L) + SumFunctionOnSet(setA, A)
            <= SumFunctionOnSet(bA, Generators)
       /\ SumFunctionOnSet(resU, L) + SumFunctionOnSet(setU, A)
            <= SumFunctionOnSet(bU, Generators)
       /\ SumFunctionOnSet(resP, L) + SumFunctionOnSet(setP, A)
            <= SumFunctionOnSet(bP, Generators)
  <2>1. /\ \A a \in Live(d) : resA[a] \in Nat /\ resU[a] \in Nat /\ resP[a] \in Nat
        /\ \A a \in AttemptIds : setA[a] \in Nat /\ setU[a] \in Nat /\ setP[a] \in Nat
        /\ \A a \in AttemptIds : d.attempts[a].state \notin {"succeeded", "failed"} =>
              setA[a] = 0 /\ setU[a] = 0 /\ setP[a] = 0
    BY <1>4, <1>5, <1>6
  <2>2. /\ t(resA, setA) = [a \in AttemptIds |-> IF a \in Live(d) THEN resA[a] ELSE setA[a]]
        /\ t(resU, setU) = [a \in AttemptIds |-> IF a \in Live(d) THEN resU[a] ELSE setU[a]]
        /\ t(resP, setP) = [a \in AttemptIds |-> IF a \in Live(d) THEN resP[a] ELSE setP[a]]
    OBVIOUS
  <2> HIDE DEF t
  <2>3. SumFunctionOnSet(resA, L) + SumFunctionOnSet(setA, A) <= SumFunctionOnSet(bA, Generators)
    BY <1>9, <1>11, <2>1, <2>2, OneCharge
  <2>4. SumFunctionOnSet(resU, L) + SumFunctionOnSet(setU, A) <= SumFunctionOnSet(bU, Generators)
    BY <1>9, <1>11, <2>1, <2>2, OneCharge
  <2>5. SumFunctionOnSet(resP, L) + SumFunctionOnSet(setP, A) <= SumFunctionOnSet(bP, Generators)
    BY <1>9, <1>11, <2>1, <2>2, OneCharge
  <2> QED BY <2>3, <2>4, <2>5
<1>14. /\ SumFunctionOnSet(bA, Generators) <= plan.budget.attempts
       /\ SumFunctionOnSet(bU, Generators) <= plan.budget.units
       /\ SumFunctionOnSet(bP, Generators) <= plan.budget.proposals
  BY PlanSums DEF bA, bU, bP
<1>15. /\ SumFunctionOnSet(bA, Generators) \in Nat
       /\ SumFunctionOnSet(bU, Generators) \in Nat
       /\ SumFunctionOnSet(bP, Generators) \in Nat
  <2>1. IsFiniteSet(Generators)
    <3>1. Generators = 1 .. Len(plan.generators) /\ Len(plan.generators) \in Int
      BY PlanFacts
    <3>2. \A n \in Int : IsFiniteSet(1 .. n)
      BY FS_Interval
    <3> QED BY <3>1, <3>2
  <2> QED BY <1>9, <2>1, SumNat
<1>16. plan.budget \in GenerationBudgetUsage
  BY PlanFacts
<1> HIDE DEF L, A
<1>17. /\ OutstandingReserved(d) \in GenerationBudgetUsage
       /\ ConsumedBudget(d) \in GenerationBudgetUsage
  BY <1>1, <1>12 DEF GenerationBudgetUsage
<1>18. /\ SumFunctionOnSet(resA, L) + SumFunctionOnSet(setA, A) <= plan.budget.attempts
       /\ SumFunctionOnSet(resU, L) + SumFunctionOnSet(setU, A) <= plan.budget.units
       /\ SumFunctionOnSet(resP, L) + SumFunctionOnSet(setP, A) <= plan.budget.proposals
  BY <1>12, <1>13, <1>14, <1>15, <1>16 DEF GenerationBudgetUsage
<1>19. Fits(Plus(OutstandingReserved(d), ConsumedBudget(d)), plan.budget)
  BY <1>1, <1>18 DEF Fits, Plus
<1> QED BY <1>17, <1>19

-----------------------------------------------------------------------------
(* Attempts that end.                                                      *)

\* A record with the fields of the rows.
IsRows(e) ==
  e = [run |-> e.run, attempts |-> e.attempts, reserves |-> e.reserves,
       settled |-> e.settled, refs |-> e.refs, publication |-> e.publication]

\* The converse of RowFacts.
LEMMA MakeRows ==
  ASSUME NEW e, IsRows(e), e.run \in RunRow, e.attempts \in [AttemptIds -> AttemptRow],
         e.reserves \subseteq AttemptIds,
         e.settled \in [AttemptIds -> GenerationBudgetUsage], e.refs \subseteq RefRow
  PROVE  RowTypes(e)
BY DEF RowTypes, IsRows

\* Attempts A have ended in state st with charges f.
LEMMA EndedIs ==
  ASSUME NEW d, RowTypes(d), NEW A, NEW st, NEW f, NEW e, e = Ended(d, A, st, f)
  PROVE  /\ e.run = d.run /\ e.reserves = d.reserves /\ e.refs = d.refs
         /\ e.publication = d.publication /\ IsRows(e)
         /\ DOMAIN e.attempts = AttemptIds /\ DOMAIN e.settled = AttemptIds
BY DEF Ended, RowTypes, IsRows

\* What ending the attempts of A does to one attempt.
LEMMA EndedAt ==
  ASSUME NEW d, RowTypes(d), NEW A, NEW st, NEW f, NEW e, e = Ended(d, A, st, f),
         NEW a \in AttemptIds
  PROVE  /\ a \in A => e.attempts[a].state = st /\ e.attempts[a].lease = "none"
         /\ a \notin A => e.attempts[a] = d.attempts[a]
         /\ a \in A /\ ~Charged(d, a) => e.settled[a] = f[a]
         /\ ~ (a \in A /\ ~Charged(d, a)) => e.settled[a] = d.settled[a]
BY DEF Ended, RowTypes

\* Ending attempts keeps the types of the rows.
LEMMA EndedTypes ==
  ASSUME NEW d, RowTypes(d), NEW A, NEW st \in {"succeeded", "failed"}, NEW f,
         \A a \in A : f[a] \in GenerationBudgetUsage, NEW e, e = Ended(d, A, st, f)
  PROVE  RowTypes(e)
<1>1. e.attempts = [a \in AttemptIds |->
                      IF a \in A THEN [state |-> st, lease |-> "none"] ELSE d.attempts[a]]
      /\ e.settled = [a \in AttemptIds |->
                        IF a \in A /\ ~Charged(d, a) THEN f[a] ELSE d.settled[a]]
  BY DEF Ended, RowTypes
<1>2. [state |-> st, lease |-> "none"] \in AttemptRow
  BY DEF AttemptRow
<1>3. e.attempts \in [AttemptIds -> AttemptRow]
      /\ e.settled \in [AttemptIds -> GenerationBudgetUsage]
  BY <1>1, <1>2, RowFacts
<1> QED BY <1>3, EndedIs, RowFacts, MakeRows

\* Fewer attempts run.
LEMMA FewerRun ==
  ASSUME plan \in Plans, NEW d, NEW e, RowTypes(d), FewRun(d), Running(e) \subseteq Running(d)
  PROVE  FewRun(e)
<1>1. IsFiniteSet(Running(d))
  BY FiniteAttempts, FS_Subset DEF Running, Rows
<1>2. Cardinality(Running(e)) <= Cardinality(Running(d))
      /\ Cardinality(Running(e)) \in Nat /\ Cardinality(Running(d)) \in Nat
  BY <1>1, FS_Subset, FS_CardinalityType
<1> QED BY <1>2, PlanFacts DEF FewRun

\* The charges f are those of attempts A that end in state st.
FairCharges(A, st, f) ==
  \A a \in A :
    /\ f[a] \in GenerationBudgetUsage /\ f[a].attempts = 1
    /\ f[a].units <= Reserved(a).units
    /\ st = "failed" => f[a].proposals = 0
    /\ st = "succeeded" => f[a].proposals \in 1 .. Reserved(a).proposals

\* Attempts A have ended, the others are as they were.
HaveEnded(d, e, A, st, f) ==
  /\ \A a \in A : e.attempts[a].state = st /\ e.settled[a] = f[a]
  /\ \A a \in AttemptIds \ A : e.attempts[a] = d.attempts[a] /\ e.settled[a] = d.settled[a]

\* Attempts that were running end: the rows, the turns and the ledger hold.
LEMMA EndedCore ==
  ASSUME plan \in Plans, NEW d, CoreOK(d), NEW A, A \subseteq Running(d),
         NEW st \in {"succeeded", "failed"},
         NEW f, FairCharges(A, st, f),
         NEW e, e = Ended(d, A, st, f)
  PROVE  /\ RowTypes(e) /\ InTurn(e) /\ FewRun(e) /\ LedgerOK(e)
         /\ Rows(e) = Rows(d)
         /\ st = "failed" => RefsOK(e)
         /\ HaveEnded(d, e, A, st, f)
<1>0. RowTypes(d) /\ A \subseteq AttemptIds
      /\ \A a \in A : d.attempts[a].state = "running" /\ a \in Rows(d) /\ ~Charged(d, a)
  <2>1. A \subseteq AttemptIds /\ \A a \in A : d.attempts[a].state = "running" /\ a \in Rows(d)
    BY DEF Running, Rows
  <2>2. \A a \in A : ~Charged(d, a)
    BY <2>1 DEF CoreOK, LedgerOK, EntryOK, Charged
  <2> QED BY <2>1, <2>2 DEF CoreOK
<1>1. e.run = d.run /\ e.reserves = d.reserves /\ e.refs = d.refs
  BY <1>0, EndedIs
<1>2. /\ \A a \in A : e.attempts[a].state = st /\ e.settled[a] = f[a]
      /\ \A a \in AttemptIds \ A : e.attempts[a] = d.attempts[a]
                                   /\ e.settled[a] = d.settled[a]
  BY <1>0, EndedAt
<1>3. RowTypes(e)
  <2>1. \A a \in A : f[a] \in GenerationBudgetUsage
    BY DEF FairCharges
  <2> QED BY <1>0, <2>1, EndedTypes
<1>4. Rows(e) = Rows(d)
  BY <1>0, <1>2 DEF Rows
<1>5. FewRun(e)
  <2>1. Running(e) \subseteq Running(d)
    BY <1>2, <1>4 DEF Running, Rows
  <2> QED BY <1>0, <2>1, FewerRun DEF CoreOK
<1>6. InTurn(e)
  <2>1. \A g : RowsOf(e, g) = RowsOf(d, g)
    BY <1>4 DEF RowsOf
  <2>2. \A g \in Generators : \A k \in 1 .. plan.generators[g].max_attempts :
           HasMade(d, g, k) => HasMade(e, g, k)
    <3> TAKE g \in Generators
    <3> TAKE k \in 1 .. plan.generators[g].max_attempts
    <3> HAVE HasMade(d, g, k)
    <3>1. \A n \in 1 .. k - 1 : e.attempts[<<g, n>>].state = "failed"
      <4> TAKE n \in 1 .. k - 1
      <4>1. d.attempts[<<g, n>>].state = "failed"
        BY DEF HasMade
      <4>2. <<g, n>> \in AttemptIds
        <5>1. g \in 1 .. MaxGenerators /\ k \in 1 .. MaxAttempts
          BY PlanFacts, BoundsAssumption
        <5> QED BY <5>1, BoundsAssumption DEF AttemptIds
      <4> QED BY <1>0, <1>2, <4>1, <4>2
    <3> QED BY <2>1, <3>1 DEF HasMade
  <2> QED BY <1>1, <1>4, <2>2 DEF CoreOK, InTurn
<1>7. LedgerOK(e)
  <2>1. \A a \in AttemptIds : EntryOK(e, a)
    <3> TAKE a \in AttemptIds
    <3>1. CASE a \in A
      <4>1. e.attempts[a].state = st /\ e.settled[a] = f[a]
        BY <1>2, <3>1
      <4>2. /\ f[a].attempts = 1 /\ f[a].units <= Reserved(a).units
            /\ st = "failed" => f[a].proposals = 0
            /\ st = "succeeded" => f[a].proposals \in 1 .. Reserved(a).proposals
        BY <3>1 DEF FairCharges
      <4> QED BY <4>1, <4>2 DEF EntryOK
    <3>2. CASE a \notin A
      BY <1>2, <3>2 DEF EntryOK, CoreOK, LedgerOK
    <3> QED BY <3>1, <3>2
  <2> QED BY <1>1, <1>4, <2>1 DEF CoreOK, LedgerOK
<1>8. ASSUME st = "failed" PROVE RefsOK(e)
  <2>1. \A a \in AttemptIds : /\ e.attempts[a].state = "succeeded" => a \notin A
                              /\ d.attempts[a].state = "succeeded" => a \notin A
    BY <1>0, <1>2, <1>8
  <2>2. \A r \in d.refs : r.attempt \in AttemptIds
    BY <1>0, RowFacts DEF RefRow
  <2> QED BY <1>1, <1>2, <2>1, <2>2 DEF CoreOK, RefsOK
<1> QED BY <1>2, <1>3, <1>4, <1>5, <1>6, <1>7, <1>8 DEF HaveEnded

-----------------------------------------------------------------------------
(* The settlement of one attempt.                                          *)

\* What OutcomeOK says of a receipt.
LEMMA OutcomeFacts ==
  ASSUME NEW o \in Outcomes
  PROVE  /\ o.units \in Nat /\ Len(o.patches) \in Nat
         /\ DOMAIN o.patches = 1 .. Len(o.patches)
         /\ o.status \in {"no_batch", "failed_batch", "batch"}
         /\ o.status = "batch" => Len(o.patches) >= 1
         /\ o.status # "batch" => Len(o.patches) = 0
         /\ \A i \in 1 .. Len(o.patches) : o.patches[i] \in Patch
<1>1. OutcomeOK(o)
  BY OutcomesAssumption
<1>2. /\ o.patches \in Seq(Range(o.patches)) /\ o.units \in Nat
      /\ o.status \in {"no_batch", "failed_batch", "batch"}
      /\ o.status = "batch" <=> o.patches # <<>>
  BY <1>1 DEF OutcomeOK
<1>3. DOMAIN o.patches = 1 .. Len(o.patches) /\ Len(o.patches) \in Nat
      /\ (o.patches # <<>> => Len(o.patches) >= 1) /\ (o.patches = <<>> => Len(o.patches) = 0)
  <2> DEFINE s == o.patches
             R == Range(o.patches)
  <2>1. s \in Seq(R)
    BY <1>2
  <2> HIDE DEF s, R
  <2>2. DOMAIN s = 1 .. Len(s) /\ Len(s) \in Nat
        /\ (s # <<>> => Len(s) >= 1) /\ (s = <<>> => Len(s) = 0)
    BY <2>1
  <2> QED BY <2>2 DEF s
<1>4. \A i \in 1 .. Len(o.patches) : o.patches[i] \in Patch
  BY <1>3 DEF Patch, Range
<1> QED BY <1>2, <1>3, <1>4

\* What an attempt is charged that is settled in time.
LEMMA SettleCharge ==
  ASSUME plan \in Plans, NEW a, a[1] \in Generators, NEW o \in Outcomes
  PROVE  /\ SettledUsage(a, o) \in GenerationBudgetUsage
         /\ SettledUsage(a, o).attempts = 1
         /\ SettledUsage(a, o).units <= Reserved(a).units
         /\ SettledUsage(a, o).units \in {o.units, Reserved(a).units}
         /\ Accepted(a, o) => /\ SettledUsage(a, o).units = o.units
                              /\ SettledUsage(a, o).proposals = Len(o.patches)
                              /\ Len(o.patches) \in 1 .. Reserved(a).proposals
         /\ ~Accepted(a, o) => SettledUsage(a, o).proposals = 0
<1>1. /\ ActualUsage(o) \in GenerationBudgetUsage /\ ActualUsage(o).attempts = 1
      /\ ActualUsage(o).units = o.units /\ ActualUsage(o).proposals = Len(o.patches)
  BY OutcomeFacts DEF ActualUsage, GenerationBudgetUsage
<1>2. /\ ConservativeUsage(Reserved(a)) \in GenerationBudgetUsage
      /\ ConservativeUsage(Reserved(a)).attempts = 1
      /\ ConservativeUsage(Reserved(a)).units = Reserved(a).units
      /\ ConservativeUsage(Reserved(a)).proposals = 0
      /\ Reserved(a).units \in Nat /\ Reserved(a).proposals \in Nat
  BY ReservedFacts DEF GenerationBudgetUsage
<1>3. CASE o.status # "no_batch" /\ WithinReservation(a, o)
  <2>1. SettledUsage(a, o) = ActualUsage(o)
    BY <1>3 DEF SettledUsage
  <2>2. o.units <= Reserved(a).units /\ Len(o.patches) <= Reserved(a).proposals
    BY <1>1, <1>3 DEF WithinReservation, Fits
  <2> QED BY <1>1, <1>2, <1>3, <2>1, <2>2, OutcomeFacts DEF Accepted
<1>4. CASE ~ (o.status # "no_batch" /\ WithinReservation(a, o))
  <2>1. SettledUsage(a, o) = ConservativeUsage(Reserved(a)) /\ ~Accepted(a, o)
    BY <1>4 DEF SettledUsage, Accepted
  <2> QED BY <1>2, <2>1
<1> QED BY <1>3, <1>4

NewRef(a, o, i) ==
  [attempt |-> a, ordinal |-> i, patch |-> o.patches[i], disposition |-> "pending", of |-> <<>>]

\* The proposals of a batch are numbered as in the receipt, and undecided.
LEMMA NewRefFacts ==
  ASSUME NEW a \in AttemptIds, NEW o \in Outcomes
  PROVE  /\ NewRefs(a, o) \subseteq RefRow
         /\ \A r \in NewRefs(a, o) : /\ r.attempt = a /\ r.ordinal \in 1 .. Len(o.patches)
                                     /\ r.patch = o.patches[r.ordinal]
                                     /\ r.disposition = "pending"
                                     /\ r = NewRef(a, o, r.ordinal)
         /\ \A i \in 1 .. Len(o.patches) : NewRef(a, o, i) \in NewRefs(a, o)
                                           /\ NewRef(a, o, i).attempt = a
                                           /\ NewRef(a, o, i).ordinal = i
<1>1. NewRefs(a, o) = {NewRef(a, o, i) : i \in 1 .. Len(o.patches)}
  BY OutcomeFacts DEF NewRefs, NewRef
<1>2. \A i \in 1 .. Len(o.patches) :
         /\ NewRef(a, o, i) \in RefRow
         /\ NewRef(a, o, i).attempt = a /\ NewRef(a, o, i).ordinal = i
         /\ NewRef(a, o, i).patch = o.patches[i]
         /\ NewRef(a, o, i).disposition = "pending"
  BY OutcomeFacts DEF NewRef, RefRow
<1> HIDE DEF NewRef
<1> QED BY <1>1, <1>2

\* The rows after an attempt is settled in time, before they are reconciled.
AfterSettle(d, a, o) ==
  LET ended == Ended(d, {a}, IF Accepted(a, o) THEN "succeeded" ELSE "failed",
                     [b \in {a} |-> SettledUsage(a, o)])
  IN  [ended EXCEPT !.refs = IF Accepted(a, o) THEN @ \cup NewRefs(a, o) ELSE @]

\* Rows e are rows d but for attempt a, which has come back with o.
IsSettled(d, e, a, o) ==
  /\ e.run = d.run /\ e.publication = d.publication
  /\ e.attempts[a].state = IF Accepted(a, o) THEN "succeeded" ELSE "failed"
  /\ e.settled[a] = SettledUsage(a, o)
  /\ \A b \in AttemptIds \ {a} : e.attempts[b] = d.attempts[b] /\ e.settled[b] = d.settled[b]
  /\ e.refs = IF Accepted(a, o) THEN d.refs \cup NewRefs(a, o) ELSE d.refs

\* To settle a running attempt, in time, keeps the rows in order.
LEMMA SettleCore ==
  ASSUME plan \in Plans, NEW d, CoreOK(d), NEW a \in Running(d), NEW o \in Outcomes,
         NEW e, e = AfterSettle(d, a, o)
  PROVE  CoreOK(e) /\ IsSettled(d, e, a, o)
<1>a. PICK st, f, A : /\ st = IF Accepted(a, o) THEN "succeeded" ELSE "failed"
                      /\ f = [b \in {a} |-> SettledUsage(a, o)]
                      /\ A = {a}
  OBVIOUS
<1>c. PICK c : c = Ended(d, A, st, f)
  OBVIOUS
<1>0. a \in AttemptIds /\ a \in Rows(d) /\ a[1] \in Generators /\ RowTypes(d)
      /\ d.attempts[a].state = "running"
  BY DEF Running, Rows, CoreOK, InTurn
<1>1. f[a] = SettledUsage(a, o) /\ st \in {"succeeded", "failed"}
      /\ A \subseteq Running(d) /\ (\A b : (b \in A) = (b = a))
  BY <1>a
<1>2. /\ c.run = d.run /\ c.reserves = d.reserves /\ c.refs = d.refs
      /\ c.publication = d.publication /\ IsRows(c)
  BY <1>c, <1>0, EndedIs
<1>3. FairCharges(A, st, f)
  BY <1>a, <1>0, <1>1, SettleCharge DEF FairCharges
<1>4. /\ RowTypes(c) /\ InTurn(c) /\ FewRun(c) /\ LedgerOK(c) /\ Rows(c) = Rows(d)
      /\ st = "failed" => RefsOK(c)
      /\ c.attempts[a].state = st
      /\ c.settled[a] = f[a]
      /\ \A b \in AttemptIds \ {a} : c.attempts[b] = d.attempts[b]
                                     /\ c.settled[b] = d.settled[b]
  <2>1. /\ RowTypes(c) /\ InTurn(c) /\ FewRun(c) /\ LedgerOK(c) /\ Rows(c) = Rows(d)
        /\ st = "failed" => RefsOK(c)
        /\ HaveEnded(d, c, A, st, f)
    BY <1>c, <1>1, <1>3, EndedCore
  <2> QED BY <1>1, <2>1 DEF HaveEnded
<1>5. e = [c EXCEPT !.refs = IF Accepted(a, o) THEN c.refs \cup NewRefs(a, o) ELSE c.refs]
  BY <1>a, <1>c DEF AfterSettle
<1>6. /\ e.run = d.run /\ e.reserves = c.reserves /\ e.publication = d.publication
      /\ e.attempts = c.attempts /\ e.settled = c.settled
      /\ e.refs = IF Accepted(a, o) THEN d.refs \cup NewRefs(a, o) ELSE d.refs
      /\ IsRows(e)
  BY <1>2, <1>5 DEF IsRows
<1>7. RowTypes(e)
  <2>1. e.refs \subseteq RefRow
    BY <1>0, <1>6, RowFacts, NewRefFacts
  <2> QED BY <1>2, <1>4, <1>6, <2>1, RowFacts, MakeRows
<1>8. InTurn(e) /\ FewRun(e) /\ LedgerOK(e)
  <2>1. Rows(e) = Rows(c) /\ Running(e) = Running(c)
    BY <1>6 DEF Rows, Running
  <2>2. LedgerOK(e)
    BY <1>4, <1>6, <2>1 DEF LedgerOK, EntryOK
  <2>3. InTurn(e)
    BY <1>2, <1>4, <1>6, <2>1 DEF InTurn, HasMade, RowsOf
  <2> QED BY <1>4, <2>1, <2>2, <2>3 DEF FewRun
<1>9. RefsOK(e)
  <2>1. CASE ~Accepted(a, o)
    BY <1>a, <1>2, <1>4, <1>6, <2>1 DEF RefsOK
  <2>2. CASE Accepted(a, o)
    <3>1. /\ c.attempts[a].state = "succeeded" /\ c.settled[a].proposals = Len(o.patches)
      BY <1>a, <1>0, <1>1, <1>4, <2>2, SettleCharge
    <3>2. \A r \in d.refs : r.attempt # a /\ r.attempt \in AttemptIds
      BY <1>0, RowFacts DEF CoreOK, RefsOK, RefRow
    <3>3. e.refs = d.refs \cup NewRefs(a, o)
      BY <1>6, <2>2
    <3>4. \A r \in e.refs : /\ e.attempts[r.attempt].state = "succeeded"
                            /\ r.ordinal \in 1 .. e.settled[r.attempt].proposals
      <4> TAKE r \in e.refs
      <4>1. CASE r \in d.refs
        BY <1>4, <1>6, <3>2, <4>1 DEF CoreOK, RefsOK
      <4>2. CASE r \in NewRefs(a, o)
        BY <1>0, <1>6, <3>1, <4>2, NewRefFacts
      <4> QED BY <3>3, <4>1, <4>2
    <3>5. ASSUME NEW b \in AttemptIds, e.attempts[b].state = "succeeded",
                 NEW i \in 1 .. e.settled[b].proposals
          PROVE  \E r \in e.refs : r.attempt = b /\ r.ordinal = i
      <4>1. CASE b = a
        BY <1>0, <1>6, <3>1, <3>3, <3>5, <4>1, NewRefFacts
      <4>2. CASE b # a
        <5>1. d.attempts[b].state = "succeeded" /\ i \in 1 .. d.settled[b].proposals
          BY <1>4, <1>6, <3>5, <4>2
        <5>2. \E r \in d.refs : r.attempt = b /\ r.ordinal = i
          BY <5>1 DEF CoreOK, RefsOK
        <5> QED BY <3>3, <5>2
      <4> QED BY <4>1, <4>2
    <3>6. ASSUME NEW r \in e.refs, NEW q \in e.refs,
                 r.attempt = q.attempt, r.ordinal = q.ordinal
          PROVE  r = q
      <4>1. CASE r.attempt = a
        <5>1. r \in NewRefs(a, o) /\ q \in NewRefs(a, o)
          BY <3>2, <3>3, <3>6, <4>1
        <5>2. r = NewRef(a, o, r.ordinal) /\ q = NewRef(a, o, q.ordinal)
          BY <1>0, <5>1, NewRefFacts
        <5> QED BY <3>6, <5>2
      <4>2. CASE r.attempt # a
        <5>1. r \in d.refs /\ q \in d.refs
          BY <1>0, <3>3, <3>6, <4>2, NewRefFacts
        <5> QED BY <3>6, <5>1 DEF CoreOK, RefsOK
      <4> QED BY <4>1, <4>2
    <3> QED BY <3>4, <3>5, <3>6 DEF RefsOK
  <2> QED BY <2>1, <2>2
<1>10. IsSettled(d, e, a, o)
  BY <1>a, <1>1, <1>4, <1>6 DEF IsSettled
<1> QED BY <1>7, <1>8, <1>9, <1>10 DEF CoreOK

-----------------------------------------------------------------------------
(* Leases that have run out, and the attempts that are made again.         *)

\* What no stage of a transaction touches: attempts that have ended, those
\* that have begun, and what the proposals are.
Keeps(d, e) ==
  /\ \A a \in AttemptIds :
       /\ d.attempts[a].state \in {"succeeded", "failed"} =>
            e.attempts[a] = d.attempts[a] /\ e.settled[a] = d.settled[a]
       /\ d.attempts[a].state = "running" => e.attempts[a].state \in {"running", "failed"}
       /\ d.attempts[a].state \notin {"succeeded", "failed"}
            /\ e.attempts[a].state \in {"succeeded", "failed"} =>
              e.attempts[a].state = "failed" /\ e.settled[a].units = Reserved(a).units
  /\ \A r \in e.refs : \E q \in d.refs :
       q.attempt = r.attempt /\ q.ordinal = r.ordinal /\ q.patch = r.patch

\* What two stages keep is kept by both together.
LEMMA KeepsOn ==
  ASSUME NEW d, NEW e, NEW c, Keeps(d, e), Keeps(e, c) PROVE Keeps(d, c)
<1>1. ASSUME NEW a \in AttemptIds
      PROVE  /\ d.attempts[a].state \in {"succeeded", "failed"} =>
                  c.attempts[a] = d.attempts[a] /\ c.settled[a] = d.settled[a]
             /\ d.attempts[a].state = "running" => c.attempts[a].state \in {"running", "failed"}
             /\ d.attempts[a].state \notin {"succeeded", "failed"}
                  /\ c.attempts[a].state \in {"succeeded", "failed"} =>
                    c.attempts[a].state = "failed" /\ c.settled[a].units = Reserved(a).units
  BY DEF Keeps
<1>2. ASSUME NEW r \in c.refs
      PROVE  \E q \in d.refs :
               q.attempt = r.attempt /\ q.ordinal = r.ordinal /\ q.patch = r.patch
  BY DEF Keeps
<1> QED BY <1>1, <1>2 DEF Keeps

\* The attempts whose lease has run out fail.
LEMMA StaleCore ==
  ASSUME plan \in Plans, NEW d, CoreOK(d), NEW e, e = WithStaleFailed(d)
  PROVE  /\ CoreOK(e) /\ Keeps(d, e) /\ e.run = d.run /\ e.refs = d.refs
         /\ e.publication = d.publication
<1> DEFINE ff == [a \in Stale(d) |-> ConservativeUsage(Reserved(a))]
<1>1. PICK A, f, st : A = Stale(d) /\ f = ff /\ st = "failed"
  OBVIOUS
<1>2. e = Ended(d, A, st, f)
  BY <1>1 DEF WithStaleFailed
<1>3. RowTypes(d) /\ A \subseteq Running(d) /\ st \in {"succeeded", "failed"}
      /\ \A a \in A : f[a] = ConservativeUsage(Reserved(a)) /\ a[1] \in Generators
  BY <1>1 DEF Stale, Running, CoreOK, InTurn
<1> HIDE DEF ff
<1>4. FairCharges(A, st, f)
  <2> SUFFICES ASSUME NEW a \in A
      PROVE /\ f[a] \in GenerationBudgetUsage /\ f[a].attempts = 1
            /\ f[a].units <= Reserved(a).units /\ f[a].proposals = 0
    BY <1>1 DEF FairCharges
  <2>1. Reserved(a).units \in Nat
    BY <1>3, ReservedFacts, PlanFacts
  <2> QED BY <1>3, <2>1, ReservedFacts
<1>5. /\ RowTypes(e) /\ InTurn(e) /\ FewRun(e) /\ LedgerOK(e) /\ RefsOK(e)
      /\ HaveEnded(d, e, A, st, f)
  BY <1>1, <1>2, <1>3, <1>4, EndedCore
<1>6. e.run = d.run /\ e.refs = d.refs /\ e.publication = d.publication
  BY <1>2, <1>3, EndedIs
<1>7. Keeps(d, e)
  <2>1. ASSUME NEW a \in AttemptIds
        PROVE  /\ d.attempts[a].state \in {"succeeded", "failed"} =>
                    e.attempts[a] = d.attempts[a] /\ e.settled[a] = d.settled[a]
               /\ d.attempts[a].state = "running" => e.attempts[a].state \in {"running", "failed"}
               /\ d.attempts[a].state \notin {"succeeded", "failed"}
                    /\ e.attempts[a].state \in {"succeeded", "failed"} =>
                      e.attempts[a].state = "failed" /\ e.settled[a].units = Reserved(a).units
    <3>1. CASE a \in A
      <4>1. d.attempts[a].state = "running" /\ e.attempts[a].state = "failed"
            /\ e.settled[a] = ConservativeUsage(Reserved(a))
        BY <1>1, <1>3, <1>5, <3>1 DEF HaveEnded, Running
      <4> QED BY <1>3, <3>1, <4>1, ReservedFacts
    <3>2. CASE a \notin A
      BY <1>5, <3>2 DEF HaveEnded
    <3> QED BY <3>1, <3>2
  <2> QED BY <1>6, <2>1 DEF Keeps
<1> QED BY <1>5, <1>6, <1>7 DEF CoreOK

-----------------------------------------------------------------------------
\* New pending attempts leave the run, the charges and the proposals alone.
LEMMA PendingIs ==
  ASSUME NEW d, RowTypes(d), NEW A, A \subseteq AttemptIds, NEW e, e = WithPending(d, A)
  PROVE  /\ e.run = d.run /\ e.settled = d.settled /\ e.refs = d.refs
         /\ e.publication = d.publication /\ e.reserves = d.reserves \cup A /\ IsRows(e)
BY DEF WithPending, RowTypes, IsRows

\* What a new pending attempt is, and what the others are.
LEMMA PendingAt ==
  ASSUME NEW d, RowTypes(d), NEW A, NEW e, e = WithPending(d, A), NEW a \in AttemptIds
  PROVE  /\ a \in A => e.attempts[a].state = "pending" /\ e.attempts[a].lease = "none"
         /\ a \notin A => e.attempts[a] = d.attempts[a]
BY DEF WithPending, RowTypes

\* New pending attempts keep the types of the rows.
LEMMA PendingTypes ==
  ASSUME NEW d, RowTypes(d), NEW A, A \subseteq AttemptIds, NEW e, e = WithPending(d, A)
  PROVE  RowTypes(e)
<1>1. e.attempts = [a \in AttemptIds |->
                      IF a \in A THEN [state |-> "pending", lease |-> "none"] ELSE d.attempts[a]]
  BY DEF WithPending, RowTypes
<1>2. [state |-> "pending", lease |-> "none"] \in AttemptRow
  BY DEF AttemptRow
<1>3. e.attempts \in [AttemptIds -> AttemptRow]
  BY <1>1, <1>2, RowFacts
<1> QED BY <1>3, PendingIs, RowFacts, MakeRows

\* New attempts: the ledger and the proposals hold.
LEMMA PendingCore ==
  ASSUME plan \in Plans, NEW d, RowTypes(d), FewRun(d), LedgerOK(d), RefsOK(d),
         NEW A, A \subseteq AttemptIds, A \cap Rows(d) = {}, NEW e, e = WithPending(d, A)
  PROVE  /\ RowTypes(e) /\ FewRun(e) /\ LedgerOK(e) /\ RefsOK(e)
         /\ Rows(e) = Rows(d) \cup A /\ Keeps(d, e)
<1>1. /\ e.run = d.run /\ e.settled = d.settled /\ e.refs = d.refs
      /\ e.publication = d.publication /\ e.reserves = d.reserves \cup A /\ IsRows(e)
  BY PendingIs
<1>2. \A a \in AttemptIds : /\ a \in A => e.attempts[a].state = "pending"
                            /\ a \in A => d.attempts[a].state = "absent"
                            /\ a \notin A => e.attempts[a] = d.attempts[a]
  BY PendingAt DEF Rows
<1>3. RowTypes(e)
  BY PendingTypes
<1>4. Rows(e) = Rows(d) \cup A
  BY <1>2 DEF Rows
<1>5. FewRun(e)
  <2>1. Running(e) \subseteq Running(d)
    BY <1>2 DEF Running, Rows
  <2> QED BY <2>1, FewerRun
<1>6. LedgerOK(e)
  <2>1. \A a \in AttemptIds : EntryOK(e, a)
    BY <1>1, <1>2 DEF EntryOK, LedgerOK
  <2> QED BY <1>1, <1>4, <2>1 DEF LedgerOK
<1>7. RefsOK(e)
  <2>1. \A r \in d.refs : r.attempt \in AttemptIds
    BY RowFacts DEF RefRow
  <2>2. \A a \in AttemptIds : e.attempts[a].state = "succeeded" <=>
                              d.attempts[a].state = "succeeded"
    BY <1>2
  <2> QED BY <1>1, <2>1, <2>2 DEF RefsOK
<1>8. Keeps(d, e)
  <2>1. ASSUME NEW a \in AttemptIds
        PROVE  /\ d.attempts[a].state \in {"succeeded", "failed"} =>
                    e.attempts[a] = d.attempts[a] /\ e.settled[a] = d.settled[a]
               /\ d.attempts[a].state = "running" => e.attempts[a].state \in {"running", "failed"}
               /\ d.attempts[a].state \notin {"succeeded", "failed"}
                    /\ e.attempts[a].state \in {"succeeded", "failed"} =>
                      e.attempts[a].state = "failed" /\ e.settled[a].units = Reserved(a).units
    BY <1>1, <1>2
  <2> QED BY <1>1, <2>1 DEF Keeps
<1> QED BY <1>3, <1>4, <1>5, <1>6, <1>7, <1>8

\* Generators that have failed try again.
LEMMA RetriesCore ==
  ASSUME plan \in Plans, NEW d, CoreOK(d), d.run.state # "absent",
         NEW e, e = WithPending(d, Retries(d))
  PROVE  /\ CoreOK(e) /\ Keeps(d, e) /\ e.run = d.run /\ e.refs = d.refs
         /\ e.publication = d.publication
<1>1. PICK A : A = Retries(d)
  OBVIOUS
<1>2. RowTypes(d) /\ FewRun(d) /\ LedgerOK(d) /\ RefsOK(d)
  BY DEF CoreOK
<1> DEFINE N(g) == plan.generators[g].max_attempts
<1>3. \A g \in Generators : \E k \in 1 .. N(g) : HasMade(d, g, k)
  BY DEF CoreOK, InTurn
<1>4. ASSUME NEW g \in Generators, NEW k \in 1 .. N(g), HasMade(d, g, k)
      PROVE  \/ /\ \A b \in A : b[1] # g
             \/ /\ k + 1 \in 1 .. N(g) /\ d.attempts[<<g, k>>].state = "failed"
                /\ <<g, k + 1>> \in A /\ <<g, k + 1>> \in AttemptIds \ Rows(d)
                /\ \A b \in A : b[1] = g => b = <<g, k + 1>>
  <2>0. k \in Nat /\ N(g) \in Nat /\ g \in 1 .. MaxGenerators /\ N(g) \in 1 .. MaxAttempts
    BY PlanFacts
  <2>1. Latest(d, g) = <<g, k>> /\ <<g, k>> \in AttemptIds
    BY <1>2, <1>4, MadeFacts
  <2>2. A = {<<h, Latest(d, h)[2] + 1>> : h \in
               {h \in Generators : /\ ~HasSucceeded(d, h)
                                   /\ d.attempts[Latest(d, h)].state = "failed"
                                   /\ ~AtItsLast(Latest(d, h))}}
    BY <1>1 DEF Retries
  <2>3. \A b \in A : b[1] = g => b = <<g, k + 1>> /\ d.attempts[<<g, k>>].state = "failed"
                                 /\ ~AtItsLast(<<g, k>>)
    BY <2>1, <2>2
  <2>4. ASSUME NEW b \in A, b[1] = g
        PROVE  /\ k + 1 \in 1 .. N(g) /\ d.attempts[<<g, k>>].state = "failed"
               /\ <<g, k + 1>> \in A /\ <<g, k + 1>> \in AttemptIds \ Rows(d)
    <3>1. b = <<g, k + 1>> /\ d.attempts[<<g, k>>].state = "failed" /\ ~AtItsLast(<<g, k>>)
      BY <2>3, <2>4
    <3>2. k < N(g)
      BY <2>0, <3>1 DEF AtItsLast
    <3>3. k + 1 \in 1 .. N(g) /\ k + 1 \in 1 .. MaxAttempts
      BY <2>0, <3>2, BoundsAssumption
    <3>4. <<g, k + 1>> \in AttemptIds
      BY <2>0, <3>3 DEF AttemptIds
    <3>5. <<g, k + 1>> \notin Rows(d)
      <4>1. <<g, k + 1>> \notin {g} \X (1 .. k)
        BY <2>0
      <4>2. <<g, k + 1>> \notin RowsOf(d, g)
        BY <1>4, <4>1 DEF HasMade
      <4> QED BY <4>2 DEF RowsOf
    <3> QED BY <2>4, <3>1, <3>3, <3>4, <3>5
  <2> QED BY <2>3, <2>4
<1>5. \A b \in A : b[1] \in Generators
  BY <1>1 DEF Retries
<1>6. A \subseteq AttemptIds /\ A \cap Rows(d) = {}
  <2>1. ASSUME NEW b \in A PROVE b \in AttemptIds \ Rows(d)
    <3>1. PICK k \in 1 .. N(b[1]) : HasMade(d, b[1], k)
      BY <1>3, <1>5
    <3> QED BY <1>4, <1>5, <3>1
  <2> QED BY <2>1
<1>7. e = WithPending(d, A)
  BY <1>1
<1>8. RowTypes(e) /\ FewRun(e) /\ LedgerOK(e) /\ RefsOK(e)
      /\ Rows(e) = Rows(d) \cup A /\ Keeps(d, e)
  BY <1>2, <1>6, <1>7, PendingCore
<1>9. e.run = d.run /\ e.refs = d.refs /\ e.publication = d.publication
  BY <1>2, <1>6, <1>7, PendingIs
<1>10. \A a \in AttemptIds \ A : e.attempts[a] = d.attempts[a]
  BY <1>2, <1>7, PendingAt
<1>11. InTurn(e)
  <2>1. \A a \in Rows(e) : a[1] \in Generators
    BY <1>5, <1>8 DEF CoreOK, InTurn
  <2>2. ASSUME NEW g \in Generators PROVE \E k \in 1 .. N(g) : HasMade(e, g, k)
    <3>1. PICK k \in 1 .. N(g) : HasMade(d, g, k)
      BY <1>3
    <3>0. k \in Nat /\ g \in 1 .. MaxGenerators /\ k \in 1 .. MaxAttempts
      BY PlanFacts, BoundsAssumption
    <3>2. \A n \in 1 .. k : <<g, n>> \in AttemptIds \ A
      <4> TAKE n \in 1 .. k
      <4>1. <<g, n>> \in {g} \X (1 .. k)
        OBVIOUS
      <4>2. <<g, n>> \in Rows(d)
        BY <3>1, <4>1 DEF HasMade, RowsOf
      <4> QED BY <1>6, <4>2 DEF Rows
    <3>3. \A n \in 1 .. k : e.attempts[<<g, n>>] = d.attempts[<<g, n>>]
      BY <1>10, <3>2
    <3>4. CASE \A b \in A : b[1] # g
      <4>1. RowsOf(e, g) = RowsOf(d, g)
        BY <1>8, <3>4 DEF RowsOf
      <4>2. \A n \in 1 .. k - 1 : n \in 1 .. k
        BY <3>0
      <4>3. HasMade(e, g, k)
        BY <3>1, <3>3, <4>1, <4>2 DEF HasMade
      <4> QED BY <4>3
    <3>5. CASE /\ k + 1 \in 1 .. N(g) /\ d.attempts[<<g, k>>].state = "failed"
               /\ <<g, k + 1>> \in A /\ <<g, k + 1>> \in AttemptIds \ Rows(d)
               /\ \A b \in A : b[1] = g => b = <<g, k + 1>>
      <4>1. RowsOf(e, g) = RowsOf(d, g) \cup {<<g, k + 1>>}
        BY <1>8, <3>5 DEF RowsOf
      <4>2. {g} \X (1 .. k + 1) = ({g} \X (1 .. k)) \cup {<<g, k + 1>>}
        BY <3>0
      <4>3. \A n \in 1 .. (k + 1) - 1 : e.attempts[<<g, n>>].state = "failed"
        <5> TAKE n \in 1 .. (k + 1) - 1
        <5>1. n \in 1 .. k /\ (n = k \/ n \in 1 .. k - 1)
          BY <3>0
        <5> QED BY <3>1, <3>3, <3>5, <5>1 DEF HasMade
      <4>4. HasMade(e, g, k + 1)
        BY <3>1, <4>1, <4>2, <4>3 DEF HasMade
      <4> QED BY <3>5, <4>4
    <3> QED BY <1>4, <3>1, <3>4, <3>5
  <2> QED BY <1>9, <2>1, <2>2 DEF InTurn
<1> QED BY <1>8, <1>9, <1>11 DEF CoreOK

-----------------------------------------------------------------------------
(* The decision: the family of proposals that is retained.                 *)

\* A set of numbers that is not empty has a least one.
LEMMA LeastNumber ==
  ASSUME NEW W, W \subseteq Nat, W # {} PROVE \E x \in W : \A y \in W : x <= y
<1>1. PICK x \in W : \A y \in W : ~ (<<y, x>> \in OpToRel(<, Nat))
  BY NatLessThanWellFounded, WFMin
<1>2. \A y \in W : ~ (y < x)
  BY <1>1 DEF OpToRel
<1> QED
  BY <1>2

\* The proposal with patch p that is retained.
Keeper(d, p) ==
  CHOOSE q \in d.refs :
    /\ q.patch = p
    /\ \A o \in d.refs : o.patch = p =>
         \/ q.attempt[1] < o.attempt[1]
         \/ q.attempt[1] = o.attempt[1] /\ q.ordinal <= o.ordinal

\* The proposal that is retained for a patch is one of those with the patch, of
\* the earliest generator: it exists although CHOOSE does not say so.
LEMMA KeeperIs ==
  ASSUME NEW d, RowTypes(d), NEW r \in d.refs
  PROVE  /\ Retained(d, r) = Keeper(d, r.patch)
         /\ Keeper(d, r.patch) \in d.refs /\ Keeper(d, r.patch).patch = r.patch
         /\ Keeper(d, r.patch).attempt[1] <= r.attempt[1]
<1> DEFINE Same == {q \in d.refs : q.patch = r.patch}
           First == {q.attempt[1] : q \in Same}
<1>1. \A q \in d.refs : q.attempt[1] \in Nat /\ q.ordinal \in Nat
  BY RowFacts, BoundsAssumption DEF RefRow, AttemptIds
<1>2. PICK x \in First : \A y \in First : x <= y
  <2>1. First \subseteq Nat /\ First # {}
    BY <1>1
  <2> QED BY <2>1, LeastNumber
<1> DEFINE Second == {q.ordinal : q \in {q \in Same : q.attempt[1] = x}}
<1>3. PICK z \in Second : \A y \in Second : z <= y
  <2>1. Second \subseteq Nat /\ Second # {}
    BY <1>1
  <2> QED BY <2>1, LeastNumber
<1>4. PICK k \in Same : k.attempt[1] = x /\ k.ordinal = z
  OBVIOUS
<1>5. \A o \in d.refs : o.patch = r.patch =>
         \/ k.attempt[1] < o.attempt[1]
         \/ k.attempt[1] = o.attempt[1] /\ k.ordinal <= o.ordinal
  <2> TAKE o \in d.refs
  <2> HAVE o.patch = r.patch
  <2>1. o \in Same /\ x <= o.attempt[1]
    BY <1>2
  <2>2. o.attempt[1] = x => z <= o.ordinal
    BY <1>3, <2>1
  <2> QED BY <1>1, <1>4, <2>1, <2>2
<1> DEFINE P(q) == /\ q.patch = r.patch
                   /\ \A o \in d.refs : o.patch = r.patch =>
                        \/ q.attempt[1] < o.attempt[1]
                        \/ q.attempt[1] = o.attempt[1] /\ q.ordinal <= o.ordinal
<1>6. k \in d.refs /\ P(k)
  BY <1>4, <1>5
<1>7. Keeper(d, r.patch) = CHOOSE q \in d.refs : P(q)
  BY DEF Keeper
<1>8. Keeper(d, r.patch) \in d.refs /\ P(Keeper(d, r.patch))
  <2> HIDE DEF P
  <2> QED BY <1>6, <1>7
<1>9. Keeper(d, r.patch).attempt[1] <= r.attempt[1]
  BY <1>1, <1>8
<1> QED BY <1>8, <1>9 DEF Retained, Keeper

Fin(d, r) ==
  [r EXCEPT !.disposition = IF Keeper(d, r.patch) = r THEN "retained" ELSE "duplicate",
            !.of = <<Keeper(d, r.patch).attempt, Keeper(d, r.patch).ordinal>>]

\* What the decision writes of a proposal.
LEMMA FinFacts ==
  ASSUME NEW d, RowTypes(d), NEW r \in d.refs
  PROVE  /\ Fin(d, r) \in RefRow
         /\ Fin(d, r).attempt = r.attempt /\ Fin(d, r).ordinal = r.ordinal
         /\ Fin(d, r).patch = r.patch
         /\ Fin(d, r).of = <<Keeper(d, r.patch).attempt, Keeper(d, r.patch).ordinal>>
         /\ Fin(d, r).disposition \in {"retained", "duplicate"}
         /\ Fin(d, r).disposition = "retained" <=> Keeper(d, r.patch) = r
<1>1. r \in RefRow /\ Keeper(d, r.patch) \in RefRow
  BY RowFacts, KeeperIs
<1>2. <<Keeper(d, r.patch).attempt, Keeper(d, r.patch).ordinal>> \in AttemptIds \X Nat
  BY <1>1 DEF RefRow
<1> QED BY <1>1, <1>2 DEF Fin, RefRow

\* FinalizedRefs, proposal by proposal.
LEMMA FinalizedIs ==
  ASSUME NEW d, RowTypes(d)
  PROVE  FinalizedRefs(d) = {Fin(d, r) : r \in d.refs}
<1>1. \A r \in d.refs :
        (LET keep == Retained(d, r)
         IN  [r EXCEPT !.disposition = IF keep = r THEN "retained" ELSE "duplicate",
                       !.of = <<keep.attempt, keep.ordinal>>]) = Fin(d, r)
  BY KeeperIs DEF Fin
<1> QED BY <1>1 DEF FinalizedRefs

\* Once each proposal has its disposition the family is final.
LEMMA FinalFamily ==
  ASSUME NEW d, RowTypes(d), NEW e, e.refs = FinalizedRefs(d)
  PROVE  FamilyFinal(e)
<1>1. e.refs = {Fin(d, r) : r \in d.refs}
  BY FinalizedIs
<1>2. ASSUME NEW r \in e.refs
      PROVE  LET same == {q \in e.refs : q.patch = r.patch}
                 kept == {q \in same : q.disposition = "retained"}
             IN  /\ Cardinality(kept) = 1
                 /\ \A q \in kept : /\ r.of = <<q.attempt, q.ordinal>>
                                    /\ q.attempt[1] <= r.attempt[1]
                 /\ r.disposition = "duplicate" <=> r \notin kept
  <2> DEFINE same == {q \in e.refs : q.patch = r.patch}
             kept == {q \in same : q.disposition = "retained"}
  <2>1. PICK s \in d.refs : r = Fin(d, s)
    BY <1>1
  <2>2. PICK k : k = Keeper(d, r.patch)
    OBVIOUS
  <2>3. r.patch = s.patch /\ r.attempt = s.attempt
    BY <2>1, FinFacts
  <2>4. k \in d.refs /\ k.patch = r.patch /\ k.attempt[1] <= r.attempt[1]
    BY <2>2, <2>3, KeeperIs
  <2>5. kept = {Fin(d, k)}
    <3>1. Fin(d, k) \in kept
      BY <1>1, <2>2, <2>4, FinFacts
    <3>2. ASSUME NEW q \in kept PROVE q = Fin(d, k)
      <4>1. PICK t \in d.refs : q = Fin(d, t)
        BY <1>1
      <4>2. t.patch = r.patch /\ Keeper(d, t.patch) = t
        BY <4>1, FinFacts
      <4> QED BY <2>2, <4>1, <4>2
    <3> QED BY <3>1, <3>2
  <2>6. Cardinality(kept) = 1
    BY <2>5, FS_Singleton
  <2>7. \A q \in kept : r.of = <<q.attempt, q.ordinal>> /\ q.attempt[1] <= r.attempt[1]
    <3>1. r.of = <<k.attempt, k.ordinal>>
      BY <2>1, <2>2, <2>3, FinFacts
    <3>2. Fin(d, k).attempt = k.attempt /\ Fin(d, k).ordinal = k.ordinal
      BY <2>4, FinFacts
    <3> QED BY <2>4, <2>5, <3>1, <3>2
  <2>8. r.disposition = "duplicate" <=> r \notin kept
    <3>1. r.disposition \in {"retained", "duplicate"}
      BY <2>1, FinFacts
    <3> QED BY <3>1
  <2> QED BY <2>6, <2>7, <2>8
<1> QED BY <1>2 DEF FamilyFinal

-----------------------------------------------------------------------------
\* The attempts and the ledger are as they were.
LEMMA SameRows ==
  ASSUME plan \in Plans, NEW d, CoreOK(d), NEW e, RowTypes(e),
         e.attempts = d.attempts, e.settled = d.settled, e.reserves = d.reserves,
         d.run.state # "absent", e.run.state # "absent"
  PROVE  InTurn(e) /\ FewRun(e) /\ LedgerOK(e) /\ Live(e) = Live(d)
<1>1. Rows(e) = Rows(d) /\ Running(e) = Running(d) /\ Live(e) = Live(d)
  BY DEF Rows, Running, Live, Unclaimed
<1>2. InTurn(e)
  BY <1>1 DEF CoreOK, InTurn, HasMade, RowsOf
<1>3. LedgerOK(e)
  BY <1>1 DEF CoreOK, LedgerOK, EntryOK
<1> QED BY <1>1, <1>2, <1>3 DEF CoreOK, FewRun

\* When no generator will try again no attempt is live.
LEMMA TerminalIsOver ==
  ASSUME plan \in Plans, NEW d, CoreOK(d), d.run.state # "absent",
         \A g \in Generators : GeneratorTerminal(d, g)
  PROVE  Live(d) = {}
<1> SUFFICES ASSUME NEW a \in Live(d) PROVE FALSE
  OBVIOUS
<1>1. a \in Rows(d) /\ a[1] \in Generators /\ RowTypes(d)
      /\ d.attempts[a].state \in {"pending", "running"}
  BY DEF Live, Running, Unclaimed, CoreOK, InTurn
<1>2. PICK g \in Generators : g = a[1]
  BY <1>1
<1>3. PICK k \in 1 .. plan.generators[g].max_attempts : HasMade(d, g, k)
  BY DEF CoreOK, InTurn
<1>4. a \in {g} \X (1 .. k)
  BY <1>1, <1>2, <1>3 DEF HasMade, RowsOf
<1>5. a = <<g, k>> \/ d.attempts[a].state = "failed"
  <2>1. k \in Nat
    BY PlanFacts
  <2>2. a = <<g, a[2]>> /\ a[2] \in 1 .. k
    BY <1>4
  <2>3. CASE a[2] \in 1 .. k - 1
    BY <1>3, <2>2, <2>3 DEF HasMade
  <2>4. CASE a[2] = k
    BY <2>2, <2>4
  <2> QED BY <2>1, <2>2, <2>3, <2>4
<1>6. d.attempts[<<g, k>>].state \in {"succeeded", "failed"}
  BY <1>1, <1>3, MadeFacts DEF GeneratorTerminal
<1> QED BY <1>1, <1>5, <1>6

\* A run that is not decided goes on.
LEMMA DecidedRunning ==
  ASSUME plan \in Plans, NEW d, CoreOK(d), d.run.state \in {"created", "running"},
         Undecided(d), d.run.error # "generation_budget_corrupt",
         NEW e, e = [d EXCEPT !.run.state = "running"]
  PROVE  /\ CoreOK(e) /\ DecisionOK(e) /\ Keeps(d, e) /\ e.publication = d.publication
         /\ e.run.error # "generation_budget_corrupt"
<1>0. RowTypes(d)
  BY DEF CoreOK
<1>1. /\ e.attempts = d.attempts /\ e.settled = d.settled /\ e.reserves = d.reserves
      /\ e.refs = d.refs /\ e.publication = d.publication
      /\ e.run.state = "running" /\ e.run.error = d.run.error /\ e.run \in RunRow
      /\ IsRows(e)
  BY <1>0 DEF RowTypes, RunRow, IsRows
<1>2. RowTypes(e)
  BY <1>0, <1>1, RowFacts, MakeRows
<1>3. InTurn(e) /\ FewRun(e) /\ LedgerOK(e)
  BY <1>1, <1>2, SameRows
<1>4. RefsOK(e)
  BY <1>1 DEF CoreOK, RefsOK
<1>5. Keeps(d, e)
  BY <1>1 DEF Keeps
<1>6. DecisionOK(e)
  BY <1>1 DEF DecisionOK, Undecided
<1> QED BY <1>1, <1>2, <1>3, <1>4, <1>5, <1>6 DEF CoreOK

\* A run whose generators are all terminal is decided.
LEMMA DecidedOver ==
  ASSUME plan \in Plans, NEW d, CoreOK(d), d.run.state \in {"created", "running"},
         \A g \in Generators : GeneratorTerminal(d, g),
         NEW e, e = Decided(d)
  PROVE  /\ CoreOK(e) /\ DecisionOK(e) /\ Keeps(d, e) /\ e.publication = d.publication
         /\ e.run.error # "generation_budget_corrupt"
<1>0. RowTypes(d)
  BY DEF CoreOK
<1>1. PICK st, err : /\ st = IF d.refs # {} THEN "awaiting_review" ELSE "failed"
                     /\ err = IF d.refs # {} THEN "none" ELSE "no_retained_proposals"
  OBVIOUS
<1>2. e = [d EXCEPT !.refs = FinalizedRefs(d), !.run.state = st, !.run.error = err]
  BY <1>1 DEF Decided
<1>3. /\ e.attempts = d.attempts /\ e.settled = d.settled /\ e.reserves = d.reserves
      /\ e.refs = FinalizedRefs(d) /\ e.publication = d.publication
      /\ e.run.state = st /\ e.run.error = err /\ e.run \in RunRow
      /\ IsRows(e)
  <2>1. err \in {"none", "no_retained_proposals"} /\ st \in Over
    BY <1>1 DEF Over
  <2>2. PICK fr : fr = FinalizedRefs(d)
    OBVIOUS
  <2>3. e = [d EXCEPT !.refs = fr, !.run.state = st, !.run.error = err]
    BY <1>2, <2>2
  <2>4. /\ e.attempts = d.attempts /\ e.settled = d.settled /\ e.reserves = d.reserves
        /\ e.refs = fr /\ e.publication = d.publication
        /\ e.run = [d.run EXCEPT !.state = st, !.error = err]
        /\ IsRows(e)
    BY <1>0, <2>3 DEF RowTypes, IsRows
  <2>5. e.run.state = st /\ e.run.error = err /\ e.run \in RunRow
    <3>1. d.run \in RunRow
      BY <1>0, RowFacts
    <3> QED BY <2>1, <2>4, <3>1 DEF RunRow
  <2> QED BY <2>2, <2>4, <2>5
<1>4. e.refs = {Fin(d, r) : r \in d.refs}
  BY <1>0, <1>3, FinalizedIs
<1>5. RowTypes(e)
  <2>1. e.refs \subseteq RefRow
    BY <1>0, <1>4, FinFacts
  <2> QED BY <1>0, <1>3, <2>1, RowFacts, MakeRows
<1>6. InTurn(e) /\ FewRun(e) /\ LedgerOK(e) /\ Live(e) = Live(d)
  BY <1>1, <1>3, <1>5, SameRows
<1>7. RefsOK(e)
  <2>1. ASSUME NEW r \in e.refs
        PROVE  /\ e.attempts[r.attempt].state = "succeeded"
               /\ r.ordinal \in 1 .. e.settled[r.attempt].proposals
    <3>1. PICK s \in d.refs : r = Fin(d, s)
      BY <1>4
    <3>2. r.attempt = s.attempt /\ r.ordinal = s.ordinal
      BY <1>0, <3>1, FinFacts
    <3> QED BY <1>3, <3>2 DEF CoreOK, RefsOK
  <2>2. ASSUME NEW a \in AttemptIds, e.attempts[a].state = "succeeded",
               NEW i \in 1 .. e.settled[a].proposals
        PROVE  \E r \in e.refs : r.attempt = a /\ r.ordinal = i
    <3>1. PICK s \in d.refs : s.attempt = a /\ s.ordinal = i
      BY <1>3, <2>2 DEF CoreOK, RefsOK
    <3>2. Fin(d, s) \in e.refs /\ Fin(d, s).attempt = a /\ Fin(d, s).ordinal = i
      BY <1>0, <1>4, <3>1, FinFacts
    <3> QED BY <3>2
  <2>3. ASSUME NEW r \in e.refs, NEW q \in e.refs, r.attempt = q.attempt, r.ordinal = q.ordinal
        PROVE  r = q
    <3>1. PICK s \in d.refs : r = Fin(d, s)
      BY <1>4
    <3>2. PICK t \in d.refs : q = Fin(d, t)
      BY <1>4
    <3>3. s.attempt = t.attempt /\ s.ordinal = t.ordinal
      BY <1>0, <2>3, <3>1, <3>2, FinFacts
    <3>4. s = t
      BY <3>3 DEF CoreOK, RefsOK
    <3> QED BY <3>1, <3>2, <3>4
  <2> QED BY <2>1, <2>2, <2>3 DEF RefsOK
<1>8. Keeps(d, e)
  <2>1. ASSUME NEW r \in e.refs
        PROVE  \E q \in d.refs :
                 q.attempt = r.attempt /\ q.ordinal = r.ordinal /\ q.patch = r.patch
    BY <1>0, <1>4, FinFacts
  <2> QED BY <1>3, <2>1 DEF Keeps
<1>9. DecisionOK(e)
  <2>1. Live(e) = {}
    BY <1>6, TerminalIsOver
  <2>2. FamilyFinal(e)
    BY <1>0, <1>3, FinalFamily
  <2>3. e.refs = {} <=> d.refs = {}
    BY <1>4
  <2> QED BY <1>1, <1>3, <2>1, <2>2, <2>3 DEF DecisionOK, Undecided
<1> QED BY <1>1, <1>3, <1>5, <1>6, <1>7, <1>8, <1>9 DEF CoreOK

-----------------------------------------------------------------------------
(* Reconciliation, all stages together.                                    *)

\* The sums are those of the attempts and the entries.
LEMMA SameSums ==
  ASSUME NEW d, NEW e, e.attempts = d.attempts, e.settled = d.settled
  PROVE  OutstandingReserved(e) = OutstandingReserved(d) /\ ConsumedBudget(e) = ConsumedBudget(d)
<1>1. Live(e) = Live(d)
  BY DEF Rows, Running, Live, Unclaimed
<1> QED BY <1>1 DEF OutstandingReserved, ConsumedBudget

\* What is said of the family depends on the proposals only.
LEMMA SameFamily ==
  ASSUME NEW d, NEW e, e.refs = d.refs
  PROVE  (FamilyFinal(d) => FamilyFinal(e)) /\ (Undecided(d) => Undecided(e))
BY DEF FamilyFinal, Undecided

\* The sums are recorded, and they are within the budget.
LEMMA RecountedOK ==
  ASSUME plan \in Plans, NEW d, CoreOK(d), DecisionOK(d), d.publication = <<>>,
         d.run.state # "absent",
         d.run.error # "generation_budget_corrupt", NEW e, e = Recounted(d)
  PROVE  CoreOK(e) /\ RunOK(e) /\ Keeps(d, e) /\ e.run.state # "absent"
<1>0. RowTypes(d)
  BY DEF CoreOK
<1>1. PICK res, con : res = OutstandingReserved(d) /\ con = ConsumedBudget(d)
  OBVIOUS
<1>2. res \in GenerationBudgetUsage /\ con \in GenerationBudgetUsage
      /\ Fits(Plus(res, con), plan.budget)
  BY <1>1, BudgetFits
<1>3. e = [d EXCEPT !.run.reserved = res, !.run.consumed = con]
  BY <1>1, <1>2 DEF Recounted
<1>4. /\ e.attempts = d.attempts /\ e.settled = d.settled /\ e.reserves = d.reserves
      /\ e.refs = d.refs /\ e.publication = d.publication
      /\ e.run = [d.run EXCEPT !.reserved = res, !.consumed = con]
      /\ IsRows(e)
  BY <1>0, <1>3 DEF RowTypes, IsRows
<1>5. e.run.state = d.run.state /\ e.run.error = d.run.error
      /\ e.run.reserved = res /\ e.run.consumed = con /\ e.run \in RunRow
  <2>1. d.run \in RunRow
    BY <1>0, RowFacts
  <2> QED BY <1>2, <1>4, <2>1 DEF RunRow
<1>6. RowTypes(e)
  BY <1>0, <1>4, <1>5, RowFacts, MakeRows
<1>7. InTurn(e) /\ FewRun(e) /\ LedgerOK(e) /\ Live(e) = Live(d)
  BY <1>4, <1>5, <1>6, SameRows
<1>8. RefsOK(e)
  BY <1>4 DEF CoreOK, RefsOK
<1>9. Keeps(d, e)
  BY <1>4 DEF Keeps
<1>10. CountedOK(e)
  BY <1>1, <1>4, <1>5, SameSums DEF CountedOK
<1>11. DecisionOK(e)
  BY <1>4, <1>5, <1>7, SameFamily DEF DecisionOK
<1>12. PublicationOK(e)
  BY <1>4 DEF PublicationOK
<1> QED BY <1>5, <1>6, <1>7, <1>8, <1>9, <1>10, <1>11, <1>12 DEF CoreOK, RunOK

\* What rows a transaction may give to the reconciliation.
Ready(d) ==
  /\ CoreOK(d) /\ d.run.state # "absent"
  /\ d.run.state \in {"created", "running"} =>
       /\ Undecided(d) /\ d.publication = <<>>
       /\ d.run.error # "generation_budget_corrupt"
  /\ d.run.state \notin {"created", "running"} => RunOK(d)

\* A transaction that writes nothing keeps everything.
LEMMA KeepsItself == ASSUME NEW d PROVE Keeps(d, d)
BY DEF Keeps

\* A reconciliation keeps the rows in order, whatever stage it starts from.
LEMMA ReconcileOK ==
  ASSUME plan \in Plans, NEW d, Ready(d), ReconcileFrom(d)
  PROVE  /\ CoreOK(db') /\ RunOK(db') /\ Keeps(d, db') /\ db'.run.state # "absent"
         /\ d.run.state \notin {"created", "running"} => db' = d
<1> PICK e : e = db'
  OBVIOUS
<1>1. CASE d.run.state \notin {"created", "running"}
  <2>1. db' = d
    BY <1>1 DEF ReconcileFrom
  <2>2. CoreOK(d) /\ RunOK(d) /\ Keeps(d, d) /\ d.run.state # "absent"
    BY <1>1, KeepsItself DEF Ready
  <2> QED BY <2>1, <2>2
<1>2. CASE d.run.state \in {"created", "running"}
  <2>0. CoreOK(d) /\ Undecided(d) /\ d.publication = <<>>
        /\ d.run.error # "generation_budget_corrupt" /\ d.run.state # "absent"
    BY <1>2 DEF Ready
  <2>1. PICK failed, retried, decided :
          /\ failed = WithStaleFailed(d) /\ retried = WithPending(failed, Retries(failed))
          /\ decided = Decided(retried) /\ db' = Recounted(decided)
    BY <1>2 DEF ReconcileFrom
  <2>2. /\ CoreOK(failed) /\ Keeps(d, failed) /\ failed.run = d.run /\ failed.refs = d.refs
        /\ failed.publication = d.publication
    BY <2>0, <2>1, StaleCore
  <2>3. /\ CoreOK(retried) /\ Keeps(failed, retried) /\ retried.run = failed.run
        /\ retried.refs = failed.refs /\ retried.publication = failed.publication
    BY <2>0, <2>1, <2>2, RetriesCore
  <2>4. Undecided(retried) /\ retried.run = d.run /\ retried.publication = <<>>
    BY <2>0, <2>2, <2>3, SameFamily
  <2>5. /\ CoreOK(decided) /\ DecisionOK(decided) /\ Keeps(retried, decided)
        /\ decided.publication = retried.publication
        /\ decided.run.error # "generation_budget_corrupt"
        /\ decided.run.state # "absent"
    <3>1. CASE \A g \in Generators : GeneratorTerminal(retried, g)
      <4>1. /\ CoreOK(decided) /\ DecisionOK(decided) /\ Keeps(retried, decided)
            /\ decided.publication = retried.publication
            /\ decided.run.error # "generation_budget_corrupt"
        BY <1>2, <2>1, <2>3, <2>4, <3>1, DecidedOver
      <4>2. decided.run.state # "absent"
        BY <2>1, <2>3, <3>1 DEF Decided, CoreOK, RowTypes, RunRow
      <4> QED BY <4>1, <4>2
    <3>2. CASE ~ \A g \in Generators : GeneratorTerminal(retried, g)
      <4>1. decided = [retried EXCEPT !.run.state = "running"]
        BY <2>1, <3>2 DEF Decided
      <4>2. /\ CoreOK(decided) /\ DecisionOK(decided) /\ Keeps(retried, decided)
            /\ decided.publication = retried.publication
            /\ decided.run.error # "generation_budget_corrupt"
        BY <1>2, <2>0, <2>3, <2>4, <4>1, DecidedRunning
      <4>3. decided.run.state # "absent"
        BY <2>3, <4>1 DEF CoreOK, RowTypes, RunRow
      <4> QED BY <4>2, <4>3
    <3> QED BY <3>1, <3>2
  <2>6. CoreOK(db') /\ RunOK(db') /\ Keeps(decided, db') /\ db'.run.state # "absent"
    BY <2>1, <2>4, <2>5, RecountedOK
  <2>7. Keeps(d, db')
    <3>1. Keeps(d, retried)
      BY <2>2, <2>3, KeepsOn
    <3>2. Keeps(d, decided)
      BY <2>5, <3>1, KeepsOn
    <3> QED BY <2>6, <3>2, KeepsOn
  <2> QED BY <1>2, <2>6, <2>7
<1> QED BY <1>1, <1>2

-----------------------------------------------------------------------------
(* What a transaction does to the attempts, as the files see it.           *)

RowsInv == plan \in Plans /\ CoreOK(db) /\ RunOK(db)

\* What a transaction does to the rows that may settle attempt a with outcome
\* o: it keeps the others, and nothing else ends but in full.
Moves(d, e, a, o) ==
  /\ \A b \in AttemptIds :
       /\ d.attempts[b].state \in {"succeeded", "failed"} =>
            e.attempts[b] = d.attempts[b] /\ e.settled[b] = d.settled[b]
       /\ d.attempts[b].state = "running" =>
            e.attempts[b].state \in {"running", "failed", "succeeded"}
       /\ d.attempts[b].state \notin {"succeeded", "failed"} /\ e.attempts[b].state = "failed" =>
            \/ e.settled[b].units = Reserved(b).units
            \/ b = a /\ e.settled[b].units = o.units
       /\ d.attempts[b].state \notin {"succeeded", "failed"} /\ e.attempts[b].state = "succeeded" =>
            b = a /\ e.settled[b].units = o.units
  /\ \A r \in e.refs :
       \/ \E q \in d.refs : q.attempt = r.attempt /\ q.ordinal = r.ordinal /\ q.patch = r.patch
       \/ /\ r.attempt = a /\ r.patch = o.patches[r.ordinal]
          /\ d.attempts[a].state \notin {"succeeded", "failed"}

\* A transaction that settles nothing is one that may settle any attempt.
LEMMA KeepsMoves ==
  ASSUME NEW d, NEW e, Keeps(d, e), NEW a, NEW o PROVE Moves(d, e, a, o)
<1>1. ASSUME NEW b \in AttemptIds
      PROVE
       /\ d.attempts[b].state \in {"succeeded", "failed"} =>
            e.attempts[b] = d.attempts[b] /\ e.settled[b] = d.settled[b]
       /\ d.attempts[b].state = "running" =>
            e.attempts[b].state \in {"running", "failed", "succeeded"}
       /\ d.attempts[b].state \notin {"succeeded", "failed"} /\ e.attempts[b].state = "failed" =>
            \/ e.settled[b].units = Reserved(b).units
            \/ b = a /\ e.settled[b].units = o.units
       /\ d.attempts[b].state \notin {"succeeded", "failed"} /\ e.attempts[b].state = "succeeded" =>
            b = a /\ e.settled[b].units = o.units
  BY DEF Keeps
<1>2. \A r \in e.refs :
       \E q \in d.refs : q.attempt = r.attempt /\ q.ordinal = r.ordinal /\ q.patch = r.patch
  BY DEF Keeps
<1> QED BY <1>1, <1>2 DEF Moves

\* A settlement and the reconciliation after it.
LEMMA MovesOn ==
  ASSUME NEW d, NEW e, NEW c, NEW a, NEW o, Moves(d, e, a, o), Keeps(e, c),
         d.attempts[a].state = "running", RefsOK(d)
  PROVE  Moves(d, c, a, o)
<1>1. ASSUME NEW b \in AttemptIds
      PROVE
       /\ d.attempts[b].state \in {"succeeded", "failed"} =>
            c.attempts[b] = d.attempts[b] /\ c.settled[b] = d.settled[b]
       /\ d.attempts[b].state = "running" =>
            c.attempts[b].state \in {"running", "failed", "succeeded"}
       /\ d.attempts[b].state \notin {"succeeded", "failed"} /\ c.attempts[b].state = "failed" =>
            \/ c.settled[b].units = Reserved(b).units
            \/ b = a /\ c.settled[b].units = o.units
       /\ d.attempts[b].state \notin {"succeeded", "failed"} /\ c.attempts[b].state = "succeeded" =>
            b = a /\ c.settled[b].units = o.units
  <2>1. /\ d.attempts[b].state \in {"succeeded", "failed"} =>
            e.attempts[b] = d.attempts[b] /\ e.settled[b] = d.settled[b]
        /\ d.attempts[b].state = "running" =>
             e.attempts[b].state \in {"running", "failed", "succeeded"}
        /\ d.attempts[b].state \notin {"succeeded", "failed"} /\ e.attempts[b].state = "failed" =>
             \/ e.settled[b].units = Reserved(b).units
             \/ b = a /\ e.settled[b].units = o.units
        /\ d.attempts[b].state \notin {"succeeded", "failed"} /\ e.attempts[b].state = "succeeded" =>
             b = a /\ e.settled[b].units = o.units
    BY DEF Moves
  <2>2. /\ e.attempts[b].state \in {"succeeded", "failed"} =>
             c.attempts[b] = e.attempts[b] /\ c.settled[b] = e.settled[b]
        /\ e.attempts[b].state = "running" => c.attempts[b].state \in {"running", "failed"}
        /\ e.attempts[b].state \notin {"succeeded", "failed"}
             /\ c.attempts[b].state \in {"succeeded", "failed"} =>
               c.attempts[b].state = "failed" /\ c.settled[b].units = Reserved(b).units
    BY DEF Keeps
  <2> QED BY <2>1, <2>2
<1>2. ASSUME NEW r \in c.refs
      PROVE
       \/ \E q \in d.refs : q.attempt = r.attempt /\ q.ordinal = r.ordinal /\ q.patch = r.patch
       \/ /\ r.attempt = a /\ r.patch = o.patches[r.ordinal]
          /\ d.attempts[a].state \notin {"succeeded", "failed"}
  <2>1. PICK s \in e.refs : s.attempt = r.attempt /\ s.ordinal = r.ordinal /\ s.patch = r.patch
    BY DEF Keeps
  <2>2. \/ \E q \in d.refs : q.attempt = s.attempt /\ q.ordinal = s.ordinal /\ q.patch = s.patch
        \/ /\ s.attempt = a /\ s.patch = o.patches[s.ordinal]
           /\ d.attempts[a].state \notin {"succeeded", "failed"}
    BY DEF Moves
  <2> QED BY <2>1, <2>2
<1> QED BY <1>1, <1>2 DEF Moves

\* The rows are ready for a reconciliation between transactions.
LEMMA RowsReady ==
  ASSUME CoreOK(db), RunOK(db), db.run.state # "absent" PROVE Ready(db)
<1>1. db.run.state \in {"created", "running"} => db.publication = <<>>
  BY DEF RunOK, PublicationOK
<1>2. db.run.state \in {"created", "running"} => Undecided(db)
  BY DEF RunOK, DecisionOK
<1> QED BY <1>1, <1>2 DEF Ready, RunOK, CountedOK

\* An attempt runs in a run that is not decided.
LEMMA RunningInUse ==
  ASSUME CoreOK(db), RunOK(db), NEW a \in Live(db)
  PROVE  /\ db.run.state \in {"created", "running"} /\ a \in Rows(db) /\ a \in AttemptIds
         /\ a[1] \in Generators
<1>1. a \in Rows(db) /\ a \in AttemptIds
  BY DEF Live, Running, Unclaimed, Rows
<1>2. db.run.state \in {"created", "running"}
  BY DEF RunOK, DecisionOK
<1> QED BY <1>1, <1>2 DEF CoreOK, InTurn

\* reconcile_generation_run keeps the rows in order.
LEMMA ReconcileStep ==
  ASSUME RowsInv, db.run.state # "absent", ReconcileFrom(db)
  PROVE  CoreOK(db') /\ RunOK(db') /\ Keeps(db, db')
<1>1. Ready(db)
  BY RowsReady DEF RowsInv
<1> QED BY <1>1, ReconcileOK DEF RowsInv

\* settle_generation_attempt, in time, late or again, keeps the rows in order.
LEMMA SettleStep ==
  ASSUME RowsInv, NEW a \in AttemptIds, NEW o \in Outcomes, SettleAttempt(a, o)
  PROVE  CoreOK(db') /\ RunOK(db') /\ Moves(db, db', a, o)
<1>0. plan \in Plans /\ CoreOK(db) /\ RunOK(db)
  BY DEF RowsInv
<1>1. CASE UNCHANGED db
  <2>1. Keeps(db, db)
    BY KeepsItself
  <2>2. Keeps(db, db')
    BY <1>1, <2>1
  <2>3. CoreOK(db') /\ RunOK(db')
    BY <1>0, <1>1
  <2> QED BY <2>2, <2>3, KeepsMoves
<1>2. CASE a \in Stale(db) /\ ReconcileFrom(db)
  <2>1. a \in Live(db)
    BY <1>2 DEF Stale, Live
  <2>2. db.run.state # "absent"
    BY <1>0, <2>1, RunningInUse
  <2>3. CoreOK(db') /\ RunOK(db') /\ Keeps(db, db')
    BY <1>2, <2>2, ReconcileStep
  <2> QED BY <2>3, KeepsMoves
<1>3. CASE /\ a \in Running(db) \ Stale(db)
           /\ \E ended \in {Ended(db, {a}, IF Accepted(a, o) THEN "succeeded" ELSE "failed",
                                  [b \in {a} |-> SettledUsage(a, o)])} :
                ReconcileFrom([ended EXCEPT !.refs =
                                 IF Accepted(a, o) THEN @ \cup NewRefs(a, o) ELSE @])
  <2>1. PICK e : e = AfterSettle(db, a, o)
    OBVIOUS
  <2>2. ReconcileFrom(e) /\ a \in Running(db) /\ a \in Live(db)
    BY <1>3, <2>1 DEF AfterSettle, Live
  <2>3. /\ CoreOK(e) /\ e.run = db.run /\ e.publication = db.publication
        /\ e.attempts[a].state = IF Accepted(a, o) THEN "succeeded" ELSE "failed"
        /\ e.settled[a] = SettledUsage(a, o)
        /\ \A b \in AttemptIds \ {a} : e.attempts[b] = db.attempts[b]
                                       /\ e.settled[b] = db.settled[b]
        /\ e.refs = IF Accepted(a, o) THEN db.refs \cup NewRefs(a, o) ELSE db.refs
    <3>1. CoreOK(e) /\ IsSettled(db, e, a, o)
      BY <1>0, <2>1, <2>2, SettleCore
    <3> QED BY <3>1 DEF IsSettled
  <2>4. db.run.state \in {"created", "running"} /\ a[1] \in Generators
    BY <1>0, <2>2, RunningInUse
  <2>5. db.publication = <<>> /\ Undecided(db) /\ db.run.error # "generation_budget_corrupt"
    BY <1>0, <2>4, RowsReady DEF Ready
  <2>6. \A r \in NewRefs(a, o) : /\ r.attempt = a /\ r.patch = o.patches[r.ordinal]
                                 /\ r.disposition = "pending"
    BY NewRefFacts
  <2>7. Ready(e)
    <3>1. Undecided(e)
      BY <2>3, <2>5, <2>6 DEF Undecided
    <3> QED BY <2>3, <2>4, <2>5, <3>1 DEF Ready
  <2>8. CoreOK(db') /\ RunOK(db') /\ Keeps(e, db')
    BY <1>0, <2>2, <2>7, ReconcileOK
  <2>9. db.attempts[a].state = "running"
    BY <2>2 DEF Running
  <2>10. Moves(db, e, a, o)
    <3>1. /\ Accepted(a, o) => SettledUsage(a, o).units = o.units
          /\ SettledUsage(a, o).units \in {o.units, Reserved(a).units}
      BY <1>0, <2>4, SettleCharge
    <3>2. ASSUME NEW b \in AttemptIds
          PROVE
           /\ db.attempts[b].state \in {"succeeded", "failed"} =>
                e.attempts[b] = db.attempts[b] /\ e.settled[b] = db.settled[b]
           /\ db.attempts[b].state = "running" =>
                e.attempts[b].state \in {"running", "failed", "succeeded"}
           /\ db.attempts[b].state \notin {"succeeded", "failed"} /\ e.attempts[b].state = "failed" =>
                \/ e.settled[b].units = Reserved(b).units
                \/ b = a /\ e.settled[b].units = o.units
           /\ db.attempts[b].state \notin {"succeeded", "failed"} /\ e.attempts[b].state = "succeeded" =>
                b = a /\ e.settled[b].units = o.units
      <4>1. CASE b = a
        BY <2>3, <2>9, <3>1, <4>1
      <4>2. CASE b # a
        BY <2>3, <4>2
      <4> QED BY <4>1, <4>2
    <3>3. ASSUME NEW r \in e.refs
          PROVE
           \/ \E q \in db.refs : q.attempt = r.attempt /\ q.ordinal = r.ordinal /\ q.patch = r.patch
           \/ /\ r.attempt = a /\ r.patch = o.patches[r.ordinal]
              /\ db.attempts[a].state \notin {"succeeded", "failed"}
      BY <2>3, <2>6, <2>9
    <3> QED BY <3>2, <3>3 DEF Moves
  <2>11. Moves(db, db', a, o)
    BY <1>0, <2>8, <2>9, <2>10, MovesOn DEF CoreOK
  <2> QED BY <2>8, <2>11
<1> QED BY <1>1, <1>2, <1>3 DEF SettleAttempt

-----------------------------------------------------------------------------
(* The transactions that touch one row.                                    *)

\* The first half of a start makes the first attempt of every generator.
LEMMA CreateStep ==
  ASSUME RowsInv, CreateGenerationRun
  PROVE  CoreOK(db') /\ RunOK(db') /\ Keeps(db, db')
<1>0. plan \in Plans /\ CoreOK(db) /\ RunOK(db) /\ db.run.state = "absent" /\ RowTypes(db)
      /\ FewRun(db) /\ LedgerOK(db) /\ RefsOK(db)
  BY DEF RowsInv, CoreOK, CreateGenerationRun, Exists
<1>1. PICK A, first : /\ A = {<<g, 1>> : g \in Generators} /\ first = WithPending(db, A)
                      /\ db' = [first EXCEPT !.run.state = "created",
                                             !.run.reserved = OutstandingReserved(first)]
  BY DEF CreateGenerationRun
<1>2. Rows(db) = {} /\ db.refs = {}
  <2>1. Rows(db) = {}
    BY <1>0 DEF CoreOK, InTurn
  <2>2. \A r \in db.refs : r.attempt \in Rows(db)
    BY <1>0, RowFacts DEF RefsOK, RefRow, Rows
  <2> QED BY <2>1, <2>2
<1>3. A \subseteq AttemptIds /\ \A g \in Generators : <<g, 1>> \in A
  <2>1. \A g \in Generators : g \in 1 .. MaxGenerators /\ 1 \in 1 .. MaxAttempts
    BY <1>0, PlanFacts, BoundsAssumption
  <2> QED BY <1>1, <2>1 DEF AttemptIds
<1>4. /\ RowTypes(first) /\ FewRun(first) /\ LedgerOK(first) /\ RefsOK(first)
      /\ Rows(first) = A /\ Keeps(db, first)
  BY <1>0, <1>1, <1>2, <1>3, PendingCore
<1>5. /\ first.run = db.run /\ first.settled = db.settled /\ first.refs = {}
      /\ first.publication = db.publication /\ IsRows(first)
  BY <1>0, <1>1, <1>2, <1>3, PendingIs
<1>6. PICK e : e = [first EXCEPT !.run.state = "created"]
  OBVIOUS
<1>7. /\ e.attempts = first.attempts /\ e.settled = first.settled /\ e.reserves = first.reserves
      /\ e.refs = {} /\ e.publication = first.publication
      /\ e.run = [first.run EXCEPT !.state = "created"] /\ IsRows(e)
  BY <1>5, <1>6 DEF IsRows
<1>8. e.run \in RunRow /\ e.run.state = "created" /\ e.run.error = db.run.error
      /\ e.run.consumed = db.run.consumed
  <2>1. db.run \in RunRow
    BY <1>0, RowFacts
  <2> QED BY <1>5, <1>7, <2>1 DEF RunRow
<1>9. CoreOK(e)
  <2>1. RowTypes(e)
    BY <1>4, <1>7, <1>8, RowFacts, MakeRows
  <2>2. Rows(e) = A /\ Running(e) = Running(first)
    BY <1>4, <1>7 DEF Rows, Running
  <2>3. FewRun(e)
    BY <1>4, <2>2 DEF FewRun
  <2>4. LedgerOK(e)
    BY <1>4, <1>7, <2>2 DEF LedgerOK, EntryOK
  <2>5. RefsOK(e)
    BY <1>4, <1>5, <1>7 DEF RefsOK
  <2>6. InTurn(e)
    <3>1. \A a \in A : a[1] \in Generators
      BY <1>1
    <3>2. ASSUME NEW g \in Generators
          PROVE  \E k \in 1 .. plan.generators[g].max_attempts : HasMade(e, g, k)
      <4>1. RowsOf(e, g) = {g} \X (1 .. 1)
        <5>1. RowsOf(e, g) = {a \in A : a[1] = g}
          BY <2>2 DEF RowsOf
        <5>2. {a \in A : a[1] = g} = {<<g, 1>>}
          BY <1>1
        <5>3. {g} \X (1 .. 1) = {<<g, 1>>}
          OBVIOUS
        <5> QED BY <5>1, <5>2, <5>3
      <4>2. HasMade(e, g, 1)
        BY <4>1 DEF HasMade
      <4>3. 1 \in 1 .. plan.generators[g].max_attempts
        BY <1>0, PlanFacts
      <4> QED BY <4>2, <4>3
    <3> QED BY <1>8, <2>2, <3>1, <3>2 DEF InTurn
  <2> QED BY <2>1, <2>3, <2>4, <2>5, <2>6 DEF CoreOK
<1>10. PICK res : res = OutstandingReserved(first)
  OBVIOUS
<1>11. res = OutstandingReserved(e) /\ res \in GenerationBudgetUsage
  <2>1. res = OutstandingReserved(e)
    BY <1>7, <1>10, SameSums
  <2> QED BY <1>0, <1>9, <2>1, BudgetFits
<1>12. PICK c : c = db'
  OBVIOUS
<1>13. /\ c.attempts = e.attempts /\ c.settled = e.settled /\ c.reserves = e.reserves
       /\ c.refs = {} /\ c.publication = db.publication
       /\ c.run = [e.run EXCEPT !.reserved = res] /\ IsRows(c)
  <2>1. c = [first EXCEPT !.run.state = "created", !.run.reserved = res]
    BY <1>1, <1>10, <1>12
  <2> QED BY <1>5, <1>7, <2>1 DEF IsRows
<1>14. c.run \in RunRow /\ c.run.state = "created" /\ c.run.error = db.run.error
       /\ c.run.consumed = db.run.consumed /\ c.run.reserved = res
  BY <1>8, <1>11, <1>13 DEF RunRow
<1>15. CoreOK(c)
  <2>1. RowTypes(c)
    <3>1. RowTypes(e)
      BY <1>9 DEF CoreOK
    <3>2. c.refs = e.refs
      BY <1>7, <1>13
    <3> QED BY <3>1, <3>2, <1>13, <1>14, RowFacts, MakeRows
  <2>2. InTurn(c) /\ FewRun(c) /\ LedgerOK(c)
    BY <1>0, <1>8, <1>9, <1>13, <1>14, <2>1, SameRows
  <2>3. RefsOK(c)
    BY <1>7, <1>9, <1>13 DEF CoreOK, RefsOK
  <2> QED BY <2>1, <2>2, <2>3 DEF CoreOK
<1>16. CountedOK(c)
  <2>1. OutstandingReserved(c) = res
    BY <1>11, <1>13, SameSums
  <2>2. ConsumedBudget(c) = ConsumedBudget(db)
    BY <1>5, <1>7, <1>13 DEF ConsumedBudget
  <2> QED BY <1>0, <1>14, <2>1, <2>2 DEF CountedOK, RunOK
<1>17. DecisionOK(c) /\ PublicationOK(c)
  <2>1. db.publication = <<>>
    BY <1>0 DEF RunOK, PublicationOK
  <2> QED BY <1>13, <1>14, <2>1 DEF DecisionOK, Undecided, PublicationOK
<1>18. Keeps(db, c)
  BY <1>4, <1>5, <1>7, <1>13 DEF Keeps
<1> QED BY <1>12, <1>15, <1>16, <1>17, <1>18 DEF RunOK

\* One live attempt gets a lease, runs on without one, or is claimed.
LEMMA LeaseStep ==
  ASSUME RowsInv, NEW a \in Live(db), NEW row \in AttemptRow, row.state = "running",
         db' = [db EXCEPT !.attempts[a] = row],
         db.attempts[a].state = "running" \/ Cardinality(Running(db)) < plan.max_concurrency
  PROVE  CoreOK(db') /\ RunOK(db') /\ Keeps(db, db')
<1>0. /\ plan \in Plans /\ CoreOK(db) /\ RunOK(db) /\ RowTypes(db)
      /\ db.run.state \in {"created", "running"} /\ a \in Rows(db) /\ a \in AttemptIds
      /\ db.attempts[a].state \in {"pending", "running"}
  BY RunningInUse DEF RowsInv, CoreOK, Live, Running, Unclaimed
<1>1. PICK e : e = db'
  OBVIOUS
<1>2. /\ e.run = db.run /\ e.settled = db.settled /\ e.reserves = db.reserves
      /\ e.refs = db.refs /\ e.publication = db.publication /\ IsRows(e)
      /\ e.attempts = [db.attempts EXCEPT ![a] = row]
  BY <1>0, <1>1 DEF RowTypes, IsRows
<1>3. e.attempts[a] = row /\ \A b \in AttemptIds \ {a} : e.attempts[b] = db.attempts[b]
  BY <1>0, <1>2, RowFacts
<1>4. RowTypes(e)
  <2>1. e.attempts \in [AttemptIds -> AttemptRow]
    BY <1>0, <1>2, RowFacts
  <2> QED BY <1>0, <1>2, <2>1, RowFacts, MakeRows
<1>5. Rows(e) = Rows(db) /\ Live(e) = Live(db) /\ Running(e) = Running(db) \cup {a}
  <2>1. Rows(e) = Rows(db)
    BY <1>0, <1>3 DEF Rows
  <2>2. Running(e) = Running(db) \cup {a}
    BY <1>0, <1>3, <2>1 DEF Running, Rows
  <2>3. Live(e) = Live(db)
    BY <1>0, <1>3, <2>1 DEF Live, Running, Unclaimed, Rows
  <2> QED BY <2>1, <2>2, <2>3
<1>6. FewRun(e)
  <2>1. CASE db.attempts[a].state = "running"
    <3>1. Running(e) = Running(db)
      BY <1>0, <1>5, <2>1 DEF Running
    <3> QED BY <1>0, <3>1 DEF CoreOK, FewRun
  <2>2. CASE Cardinality(Running(db)) < plan.max_concurrency
    <3>1. IsFiniteSet(Running(db))
      BY FiniteAttempts, FS_Subset DEF Running, Rows
    <3>2. PICK R : R = Running(db)
      OBVIOUS
    <3>3. /\ IsFiniteSet(R \cup {a})
          /\ \/ Cardinality(R \cup {a}) = Cardinality(R)
             \/ Cardinality(R \cup {a}) = Cardinality(R) + 1
      BY <3>1, <3>2, FS_AddElement
    <3>4. Cardinality(R) \in Nat /\ Running(e) = R \cup {a}
      BY <1>5, <3>1, <3>2, FS_CardinalityType
    <3>5. Cardinality(R) < plan.max_concurrency
      BY <2>2, <3>2
    <3> QED BY <1>0, <3>3, <3>4, <3>5, PlanFacts DEF FewRun
  <2> QED BY <2>1, <2>2
<1>7. InTurn(e)
  <2>1. \A g \in Generators : \A k \in 1 .. plan.generators[g].max_attempts :
          HasMade(db, g, k) => HasMade(e, g, k)
    <3> TAKE g \in Generators
    <3> TAKE k \in 1 .. plan.generators[g].max_attempts
    <3> HAVE HasMade(db, g, k)
    <3>1. \A n \in 1 .. k - 1 : e.attempts[<<g, n>>].state = "failed"
      <4> TAKE n \in 1 .. k - 1
      <4>1. db.attempts[<<g, n>>].state = "failed"
        BY DEF HasMade
      <4>2. <<g, n>> \in AttemptIds
        <5>1. g \in 1 .. MaxGenerators /\ k \in 1 .. MaxAttempts
          BY <1>0, PlanFacts, BoundsAssumption
        <5> QED BY <5>1, BoundsAssumption DEF AttemptIds
      <4> QED BY <1>0, <1>3, <4>1, <4>2
    <3> QED BY <1>5, <3>1 DEF HasMade, RowsOf
  <2> QED BY <1>0, <1>2, <1>5, <2>1 DEF CoreOK, InTurn
<1>8. LedgerOK(e)
  <2>1. \A b \in AttemptIds : EntryOK(e, b)
    <3> TAKE b \in AttemptIds
    <3>1. EntryOK(db, b)
      BY <1>0 DEF CoreOK, LedgerOK
    <3>2. CASE b = a
      BY <1>0, <1>2, <1>3, <3>1, <3>2 DEF EntryOK
    <3>3. CASE b # a
      BY <1>2, <1>3, <3>1, <3>3 DEF EntryOK
    <3> QED BY <3>2, <3>3
  <2> QED BY <1>0, <1>2, <1>5, <2>1 DEF CoreOK, LedgerOK
<1>9. RefsOK(e)
  <2>1. \A r \in db.refs : r.attempt \in AttemptIds
    BY <1>0, RowFacts DEF RefRow
  <2>2. \A b \in AttemptIds : e.attempts[b].state = "succeeded" <=>
                              db.attempts[b].state = "succeeded"
    BY <1>0, <1>3
  <2> QED BY <1>0, <1>2, <2>1, <2>2 DEF CoreOK, RefsOK
<1>10. CountedOK(e)
  <2>1. OutstandingReserved(e) = OutstandingReserved(db) /\ ConsumedBudget(e) = ConsumedBudget(db)
    BY <1>2, <1>5 DEF OutstandingReserved, ConsumedBudget
  <2> QED BY <1>0, <1>2, <2>1 DEF RunOK, CountedOK
<1>11. DecisionOK(e) /\ PublicationOK(e)
  <2>1. Undecided(e)
    BY <1>0, <1>2 DEF RunOK, DecisionOK, Undecided
  <2>2. db.publication = <<>>
    BY <1>0 DEF RunOK, PublicationOK
  <2> QED BY <1>0, <1>2, <2>1, <2>2 DEF DecisionOK, PublicationOK
<1>12. Keeps(db, e)
  <2>1. ASSUME NEW b \in AttemptIds
        PROVE  /\ db.attempts[b].state \in {"succeeded", "failed"} =>
                    e.attempts[b] = db.attempts[b] /\ e.settled[b] = db.settled[b]
               /\ db.attempts[b].state = "running" => e.attempts[b].state \in {"running", "failed"}
               /\ db.attempts[b].state \notin {"succeeded", "failed"}
                    /\ e.attempts[b].state \in {"succeeded", "failed"} =>
                      e.attempts[b].state = "failed" /\ e.settled[b].units = Reserved(b).units
    BY <1>0, <1>2, <1>3
  <2> QED BY <1>2, <2>1 DEF Keeps
<1> QED BY <1>1, <1>4, <1>6, <1>7, <1>8, <1>9, <1>10, <1>11, <1>12 DEF CoreOK, RunOK

\* A lease runs out.
LEMMA ExpireStep ==
  ASSUME RowsInv, NEW a \in AttemptIds, Expire(a)
  PROVE  CoreOK(db') /\ RunOK(db') /\ Keeps(db, db')
<1>0. a \in Running(db) /\ a \in Live(db) /\ db.attempts[a].state = "running"
      /\ db.attempts[a] \in AttemptRow /\ RowTypes(db)
  BY RowFacts DEF Expire, Live, Running, RowsInv, CoreOK
<1>1. PICK row : row = [db.attempts[a] EXCEPT !.lease = "expired"]
  OBVIOUS
<1>2. row \in AttemptRow /\ row.state = "running"
  BY <1>0, <1>1 DEF AttemptRow
<1>3. db' = [db EXCEPT !.attempts[a] = row]
  BY <1>1 DEF Expire
<1> QED BY <1>0, <1>2, <1>3, LeaseStep

\* claim_generation_attempt gives a lease to an attempt that was pending.
LEMMA ClaimStep ==
  ASSUME RowsInv, NEW a \in Claimable(db), db' = Claimed(db, a)
  PROVE  CoreOK(db') /\ RunOK(db') /\ Keeps(db, db') /\ db.attempts[a].state = "pending"
         /\ a \in AttemptIds /\ db'.attempts[a].state = "running"
<1>0. a \in Live(db) /\ Cardinality(Running(db)) < plan.max_concurrency
      /\ db.attempts[a].state = "pending" /\ a \in AttemptIds
  BY DEF Claimable, Live, Unclaimed, Rows
<1>1. PICK row : row = [state |-> "running", lease |-> "live"]
  OBVIOUS
<1>2. row \in AttemptRow /\ row.state = "running"
  BY <1>1 DEF AttemptRow
<1>3. db' = [db EXCEPT !.attempts[a] = row]
  BY <1>1 DEF Claimed
<1>4. db'.attempts[a] = row
  BY <1>0, <1>3 DEF RowsInv, CoreOK, RowTypes
<1> QED BY <1>0, <1>2, <1>3, <1>4, LeaseStep

\* The review of the run is completed.
LEMMA CompleteStep ==
  ASSUME RowsInv, CompleteReview
  PROVE  CoreOK(db') /\ RunOK(db') /\ Keeps(db, db')
<1>0. plan \in Plans /\ CoreOK(db) /\ RunOK(db) /\ RowTypes(db)
      /\ db.run.state = "awaiting_review" /\ db' = [db EXCEPT !.run.state = "completed"]
  BY DEF RowsInv, CoreOK, CompleteReview
<1>1. PICK e : e = db'
  OBVIOUS
<1>2. /\ e.attempts = db.attempts /\ e.settled = db.settled /\ e.reserves = db.reserves
      /\ e.refs = db.refs /\ e.publication = db.publication /\ IsRows(e)
      /\ e.run = [db.run EXCEPT !.state = "completed"]
  BY <1>0, <1>1 DEF RowTypes, IsRows
<1>3. /\ e.run \in RunRow /\ e.run.state = "completed" /\ e.run.error = db.run.error
      /\ e.run.reserved = db.run.reserved /\ e.run.consumed = db.run.consumed
  <2>1. db.run \in RunRow
    BY <1>0, RowFacts
  <2> QED BY <1>2, <2>1 DEF RunRow, Over
<1>4. RowTypes(e)
  BY <1>0, <1>2, <1>3, RowFacts, MakeRows
<1>5. InTurn(e) /\ FewRun(e) /\ LedgerOK(e) /\ Live(e) = Live(db)
  BY <1>0, <1>2, <1>3, <1>4, SameRows
<1>6. RefsOK(e) /\ Keeps(db, e)
  BY <1>0, <1>2 DEF CoreOK, RefsOK, Keeps
<1>7. CountedOK(e)
  BY <1>0, <1>2, <1>3, SameSums DEF RunOK, CountedOK
<1>8. DecisionOK(e)
  BY <1>0, <1>2, <1>3, <1>5, SameFamily DEF RunOK, DecisionOK
<1>9. PublicationOK(e)
  BY <1>0, <1>2 DEF RunOK, PublicationOK
<1> QED BY <1>1, <1>4, <1>5, <1>6, <1>7, <1>8, <1>9 DEF CoreOK, RunOK

\* The evidence that is published is what the rows say.
LEMMA PublishStep ==
  ASSUME RowsInv, PublishEvidence
  PROVE  CoreOK(db') /\ RunOK(db') /\ Keeps(db, db')
<1>0. plan \in Plans /\ CoreOK(db) /\ RunOK(db) /\ RowTypes(db)
      /\ db.run.state \in {"completed", "failed"}
      /\ db' = [db EXCEPT !.publication = <<Content(db)>>]
  BY DEF RowsInv, CoreOK, PublishEvidence
<1>1. PICK e, pub : e = db' /\ pub = <<Content(db)>>
  OBVIOUS
<1>2. /\ e.attempts = db.attempts /\ e.settled = db.settled /\ e.reserves = db.reserves
      /\ e.refs = db.refs /\ e.run = db.run /\ e.publication = pub /\ IsRows(e)
  BY <1>0, <1>1 DEF RowTypes, IsRows
<1>3. RowTypes(e)
  BY <1>0, <1>2, RowFacts, MakeRows
<1>4. InTurn(e) /\ FewRun(e) /\ LedgerOK(e) /\ Live(e) = Live(db)
  BY <1>0, <1>2, <1>3, SameRows
<1>5. RefsOK(e) /\ Keeps(db, e)
  BY <1>0, <1>2 DEF CoreOK, RefsOK, Keeps
<1>6. CountedOK(e)
  BY <1>0, <1>2, SameSums DEF RunOK, CountedOK
<1>7. DecisionOK(e)
  BY <1>0, <1>2, <1>4, SameFamily DEF RunOK, DecisionOK
<1>8. PublicationOK(e)
  BY <1>0, <1>1, <1>2 DEF PublicationOK, Content
<1> QED BY <1>1, <1>3, <1>4, <1>5, <1>6, <1>7, <1>8 DEF CoreOK, RunOK

-----------------------------------------------------------------------------
(* The files and the commands of the dispatcher, when rows change.         *)

\* What is said of the rows that are about to be written holds of them then.
LEMMA RowsNext ==
  ASSUME plan' = plan, CoreOK(db'), RunOK(db') PROVE CoreOK(db)' /\ RunOK(db)'
<1>1. OutstandingReserved(db)' = OutstandingReserved(db')
  BY DEF OutstandingReserved, Reserved
<1>2. CoreOK(db)'
  <2>1. RowTypes(db)' /\ RefsOK(db)'
    BY DEF CoreOK, RowTypes, RefsOK
  <2>2. FewRun(db)'
    BY DEF CoreOK, FewRun
  <2>3. LedgerOK(db)'
    BY DEF CoreOK, LedgerOK, EntryOK, Reserved
  <2>4. InTurn(db)'
    <3>1. Generators' = Generators
      BY DEF Generators
    <3> QED BY <3>1 DEF CoreOK, InTurn
  <2> QED BY <2>1, <2>2, <2>3, <2>4 DEF CoreOK
<1>3. RunOK(db)'
  BY <1>1 DEF RunOK, CountedOK, DecisionOK, PublicationOK
<1> QED BY <1>2, <1>3

\* An attempt that has begun has begun for good.
LEMMA BegunStays ==
  ASSUME RowTypes(db), NEW a, NEW o, Moves(db, db', a, o), NEW b \in AttemptIds, Begun(b)
  PROVE  Begun(b)'
<1>1. db.attempts[b].state \in {"running", "succeeded", "failed"}
  BY StateFacts DEF Begun
<1>2. /\ db.attempts[b].state \in {"succeeded", "failed"} => db'.attempts[b] = db.attempts[b]
      /\ db.attempts[b].state = "running" =>
            db'.attempts[b].state \in {"running", "failed", "succeeded"}
  BY DEF Moves
<1> QED BY <1>1, <1>2 DEF Begun

\* The receipts tell what the rows say, before a transaction and after it.
LEMMA TellKept ==
  ASSUME CoreOK(db), CoreOK(db'), ReceiptsTell, NEW a, NEW o, Moves(db, db', a, o),
         plan' = plan, receipts' = receipts,
         plan.messages /\ a \in AttemptIds => receipts[a] = <<o>>
  PROVE  ReceiptsTell'
<1> SUFFICES ASSUME plan.messages, NEW b \in AttemptIds
    PROVE  /\ db'.attempts[b].state = "failed" =>
                \/ db'.settled[b].units = Reserved(b).units
                \/ receipts[b] # <<>> /\ db'.settled[b].units = receipts[b][1].units
           /\ db'.attempts[b].state = "succeeded" =>
                /\ receipts[b] # <<>> /\ db'.settled[b].units = receipts[b][1].units
                /\ \A r \in db'.refs : r.attempt = b =>
                     r.patch = receipts[b][1].patches[r.ordinal]
  BY DEF ReceiptsTell, Reserved
<1>1. /\ db.attempts[b].state = "failed" =>
           \/ db.settled[b].units = Reserved(b).units
           \/ receipts[b] # <<>> /\ db.settled[b].units = receipts[b][1].units
      /\ db.attempts[b].state = "succeeded" =>
           /\ receipts[b] # <<>> /\ db.settled[b].units = receipts[b][1].units
           /\ \A r \in db.refs : r.attempt = b =>
                r.patch = receipts[b][1].patches[r.ordinal]
  BY DEF ReceiptsTell
<1>2. /\ db.attempts[b].state \in {"succeeded", "failed"} =>
           db'.attempts[b] = db.attempts[b] /\ db'.settled[b] = db.settled[b]
      /\ db.attempts[b].state \notin {"succeeded", "failed"} /\ db'.attempts[b].state = "failed" =>
           \/ db'.settled[b].units = Reserved(b).units
           \/ b = a /\ db'.settled[b].units = o.units
      /\ db.attempts[b].state \notin {"succeeded", "failed"} /\ db'.attempts[b].state = "succeeded" =>
           b = a /\ db'.settled[b].units = o.units
  BY DEF Moves
<1>3. \A r \in db'.refs :
       \/ \E q \in db.refs : q.attempt = r.attempt /\ q.ordinal = r.ordinal /\ q.patch = r.patch
       \/ /\ r.attempt = a /\ r.patch = o.patches[r.ordinal]
          /\ db.attempts[a].state \notin {"succeeded", "failed"}
  BY DEF Moves
<1>4. b = a => receipts[b] # <<>> /\ receipts[b][1] = o
  OBVIOUS
<1>5. \A q \in db.refs : db.attempts[q.attempt].state = "succeeded"
  BY DEF CoreOK, RefsOK
<1>6. CASE db.attempts[b].state = "succeeded"
  BY <1>1, <1>2, <1>3, <1>6
<1>7. CASE db.attempts[b].state = "failed"
  BY <1>1, <1>2, <1>7
<1>8. CASE db.attempts[b].state \notin {"succeeded", "failed"}
  BY <1>2, <1>3, <1>4, <1>5, <1>8
<1> QED BY <1>6, <1>7, <1>8

\* A transaction does not disturb what the files say.
LEMMA FilesKept ==
  ASSUME CoreOK(db), FilesOK, NEW a, NEW o, Moves(db, db', a, o),
         plan' = plan, UNCHANGED <<files, receipts, calls>>
  PROVE  FilesOK'
<1>1. \A b \in AttemptIds : Begun(b) => Begun(b)'
  BY BegunStays DEF CoreOK
<1> QED BY <1>1 DEF FilesOK

\* A command ends, or none does.
LEMMA DispatchersKept ==
  ASSUME CoreOK(db), DiskTypes, DispatchersOK, NEW a, NEW o, Moves(db, db', a, o),
         plan' = plan, UNCHANGED <<files, receipts, calls>>,
         \/ UNCHANGED dispatch
         \/ \E p \in Dispatchers : dispatch' = [dispatch EXCEPT ![p] = AtRest]
  PROVE  DiskTypes' /\ DispatchersOK'
<1>1. \A b \in AttemptIds : Begun(b) => Begun(b)'
  BY BegunStays DEF CoreOK
<1>2. \A p \in Dispatchers : dispatch'[p] = dispatch[p] \/ dispatch'[p].pc = "idle"
  BY DEF DiskTypes, AtRest
<1>3. DiskTypes'
  <2>1. PICK D : D = [pc : {"idle", "claimed", "published", "started", "ran", "indexed"},
                      attempt : AttemptIds \cup {NoAttempt}, result : Paid]
    OBVIOUS
  <2>2. AtRest \in D
    BY <2>1 DEF AtRest, Paid
  <2>3. dispatch \in [Dispatchers -> D]
    BY <2>1 DEF DiskTypes
  <2>4. dispatch' \in [Dispatchers -> D]
    BY <2>2, <2>3
  <2> QED BY <2>1, <2>4 DEF DiskTypes
<1>4. ASSUME NEW p \in Dispatchers, ~(At(p, "idle")')
      PROVE  /\ plan.messages /\ Mine(p)' = Mine(p) /\ Mine(p) \in AttemptIds /\ Begun(Mine(p))
             /\ \A q \in Dispatchers : ~At(q, "idle") /\ Mine(q) = Mine(p) => p = q
             /\ At(p, "started") => "started" \in files[Mine(p)] /\ calls[Mine(p)] = <<>>
             /\ At(p, "ran") => calls[Mine(p)] # <<>> /\ dispatch[p].result = calls[Mine(p)]
             /\ At(p, "indexed") => receipts[Mine(p)] # <<>>
             /\ dispatch'[p] = dispatch[p]
  <2>1. ~At(p, "idle") /\ dispatch'[p] = dispatch[p]
    BY <1>2, <1>4 DEF At
  <2> QED BY <2>1 DEF DispatchersOK, Mine
<1>5. DispatchersOK'
  <2> SUFFICES ASSUME NEW p \in Dispatchers, ~(At(p, "idle")')
      PROVE  /\ plan'.messages /\ Mine(p)' \in AttemptIds /\ Begun(Mine(p))'
             /\ \A q \in Dispatchers : ~At(q, "idle")' /\ Mine(q)' = Mine(p)' => p = q
             /\ At(p, "started")' => "started" \in files[Mine(p)]' /\ calls[Mine(p)]' = <<>>
             /\ At(p, "ran")' => calls[Mine(p)]' # <<>> /\ dispatch[p].result' = calls[Mine(p)]'
             /\ At(p, "indexed")' => receipts[Mine(p)]' # <<>>
    BY DEF DispatchersOK
  <2>1. Begun(Mine(p))'
    <3>1. PICK b \in AttemptIds : b = Mine(p) /\ Begun(b) /\ Mine(p)' = b
      BY <1>4
    <3>2. Begun(b)'
      BY <1>1, <3>1
    <3> QED BY <3>1, <3>2 DEF Begun
  <2>2. \A q \in Dispatchers : ~At(q, "idle")' /\ Mine(q)' = Mine(p)' => p = q
    BY <1>4, <1>2 DEF At
  <2> QED BY <1>4, <2>1, <2>2 DEF At
<1> QED BY <1>3, <1>5

-----------------------------------------------------------------------------
(* Steps of clients and operators, settlements and deaths of commands.     *)

DiskOK == DiskTypes /\ DispatchersOK /\ FilesOK /\ ReceiptsTell
\* All that is proved of a generation run.
GenerationInv == plan \in Plans /\ GenInvariant

\* A transaction that settles attempt a, which the dispatcher does only with
\* its receipt.
LEMMA MovesDisk ==
  ASSUME CoreOK(db), CoreOK(db'), DiskOK, NEW a, NEW o, Moves(db, db', a, o),
         plan.messages /\ a \in AttemptIds => receipts[a] = <<o>>,
         plan' = plan, UNCHANGED <<files, receipts, calls>>,
         \/ UNCHANGED dispatch
         \/ \E p \in Dispatchers : dispatch' = [dispatch EXCEPT ![p] = AtRest]
  PROVE  DiskOK'
<1>1. DiskTypes /\ DispatchersOK /\ FilesOK /\ ReceiptsTell
  BY DEF DiskOK
<1>2. DiskTypes' /\ DispatchersOK'
  BY <1>1, DispatchersKept
<1>3. FilesOK'
  BY <1>1, FilesKept
<1>4. ReceiptsTell'
  BY <1>1, TellKept
<1> QED BY <1>2, <1>3, <1>4 DEF DiskOK

\* One that settles none.
LEMMA KeepsDisk ==
  ASSUME CoreOK(db), CoreOK(db'), DiskOK, Keeps(db, db'),
         plan' = plan, UNCHANGED <<files, receipts, calls>>,
         \/ UNCHANGED dispatch
         \/ \E p \in Dispatchers : dispatch' = [dispatch EXCEPT ![p] = AtRest]
  PROVE  DiskOK'
<1>1. PICK a, o : a = <<0, 0>> /\ o = 0
  OBVIOUS
<1>2. a \notin AttemptIds
  BY <1>1, BoundsAssumption DEF AttemptIds
<1>3. Moves(db, db', a, o)
  BY KeepsMoves
<1> QED BY <1>2, <1>3, MovesDisk

\* What a step has to show that leaves the plan alone.
LEMMA RowsEnough ==
  ASSUME plan \in Plans, plan' = plan, CoreOK(db'), RunOK(db'), DiskOK'
  PROVE  GenerationInv'
<1>1. CoreOK(db)' /\ RunOK(db)'
  BY RowsNext
<1> QED BY <1>1 DEF GenerationInv, GenInvariant, DiskOK

\* The parts of the invariant.
LEMMA InvParts ==
  ASSUME GenerationInv
  PROVE  /\ RowsInv /\ DiskOK /\ plan \in Plans /\ CoreOK(db) /\ RunOK(db) /\ RowTypes(db)
         /\ DiskTypes /\ DispatchersOK /\ FilesOK /\ ReceiptsTell
BY DEF GenerationInv, GenInvariant, RowsInv, DiskOK, CoreOK

\* The steps of clients and operators leave the files alone.
LEMMA AuthorityStep ==
  ASSUME GenerationInv, UNCHANGED <<plan, Disk>>, CoreOK(db'), RunOK(db'), Keeps(db, db')
  PROVE  GenerationInv'
<1>1. DiskOK'
  BY InvParts, KeepsDisk DEF Disk
<1> QED BY <1>1, InvParts, RowsEnough

\* A client settles its attempt; there are no files.
LEMMA ClientSettleStep ==
  ASSUME GenerationInv, NEW a \in AttemptIds, NEW o \in Outcomes, ClientSettle(a, o)
  PROVE  GenerationInv'
<1>1. CoreOK(db') /\ RunOK(db') /\ Moves(db, db', a, o)
  BY InvParts, SettleStep DEF ClientSettle
<1>2. DiskOK'
  BY <1>1, InvParts, MovesDisk DEF ClientSettle, Disk
<1> QED BY <1>1, <1>2, InvParts, RowsEnough DEF ClientSettle

\* A receipt is there for good and is an outcome.
LEMMA Receipt ==
  ASSUME DiskTypes, NEW a \in AttemptIds, receipts[a] # <<>>
  PROVE  receipts[a][1] \in Outcomes /\ receipts[a] = <<receipts[a][1]>>
<1>1. receipts[a] \in Paid
  BY DEF DiskTypes
<1>2. PICK o \in Outcomes : receipts[a] = <<o>>
  BY <1>1 DEF Paid
<1> QED BY <1>2

\* The recovery command settles an attempt from its receipt.
LEMMA RecoverStep ==
  ASSUME GenerationInv, NEW a \in AttemptIds, Recover(a)
  PROVE  GenerationInv'
<1>1. PICK o \in Outcomes : receipts[a] = <<o>> /\ o = receipts[a][1]
  BY InvParts, Receipt DEF Recover
<1>2. CoreOK(db') /\ RunOK(db') /\ Moves(db, db', a, o)
  BY <1>1, InvParts, SettleStep DEF Recover
<1>3. DiskOK'
  BY <1>1, <1>2, InvParts, MovesDisk DEF Recover, Disk
<1> QED BY <1>2, <1>3, InvParts, RowsEnough DEF Recover

\* The dispatcher settles the attempt it has run.
LEMMA SettleClaimStep ==
  ASSUME GenerationInv, NEW p \in Dispatchers, SettleClaim(p)
  PROVE  GenerationInv'
<1>0. Mine(p) \in AttemptIds /\ receipts[Mine(p)] # <<>>
  BY InvParts DEF SettleClaim, DispatchersOK, At
<1>1. PICK a \in AttemptIds, o \in Outcomes : a = Mine(p) /\ receipts[a] = <<o>> /\ o = receipts[a][1]
  BY <1>0, InvParts, Receipt
<1>2. CoreOK(db') /\ RunOK(db') /\ Moves(db, db', a, o)
  BY <1>1, InvParts, SettleStep DEF SettleClaim
<1>3. DiskOK'
  BY <1>1, <1>2, InvParts, MovesDisk DEF SettleClaim
<1> QED BY <1>2, <1>3, InvParts, RowsEnough DEF SettleClaim

\* A command that dies, or is refused, forgets what it did.
LEMMA RestStep ==
  ASSUME GenerationInv, NEW p \in Dispatchers,
         dispatch' = [dispatch EXCEPT ![p] = AtRest],
         UNCHANGED <<plan, db, files, receipts, calls>>
  PROVE  GenerationInv'
<1>1. CoreOK(db') /\ RunOK(db') /\ Keeps(db, db')
  BY InvParts, KeepsItself
<1>2. DiskOK'
  BY <1>1, InvParts, KeepsDisk
<1> QED BY <1>1, <1>2, InvParts, RowsEnough

-----------------------------------------------------------------------------
(* Steps of the dispatcher between its claim and its settlement.           *)

DispatchRow ==
  [pc : {"idle", "claimed", "published", "started", "ran", "indexed"},
   attempt : AttemptIds \cup {NoAttempt}, result : Paid]

\* The commands and the files, one by one.
LEMMA DispatchFacts ==
  ASSUME DiskTypes
  PROVE  /\ dispatch \in [Dispatchers -> DispatchRow]
         /\ files \in [AttemptIds -> SUBSET {"claim", "started"}]
         /\ receipts \in [AttemptIds -> Paid] /\ calls \in [AttemptIds -> Paid]
BY DEF DiskTypes, DispatchRow

\* A command goes on; the others stay.
LEMMA GoToFacts ==
  ASSUME DiskTypes, NEW p \in Dispatchers,
         NEW pc \in {"idle", "claimed", "published", "started", "ran", "indexed"}, GoTo(p, pc)
  PROVE  /\ dispatch' \in [Dispatchers -> DispatchRow] /\ dispatch'[p].pc = pc
         /\ dispatch'[p].attempt = dispatch[p].attempt /\ dispatch'[p].result = dispatch[p].result
         /\ \A q \in Dispatchers \ {p} : dispatch'[q] = dispatch[q]
<1>1. PICK D, row : D = DispatchRow /\ row = dispatch[p]
  OBVIOUS
<1>2. dispatch \in [Dispatchers -> D] /\ row \in D
  BY <1>1, DispatchFacts
<1>3. PICK new : new = [row EXCEPT !.pc = pc]
  OBVIOUS
<1>4. new \in D /\ new.pc = pc /\ new.attempt = row.attempt /\ new.result = row.result
  BY <1>1, <1>2, <1>3 DEF DispatchRow
<1>5. dispatch' = [dispatch EXCEPT ![p] = new]
  BY <1>1, <1>3 DEF GoTo
<1>6. /\ dispatch' \in [Dispatchers -> D] /\ dispatch'[p] = new
      /\ \A q \in Dispatchers \ {p} : dispatch'[q] = dispatch[q]
  BY <1>2, <1>4, <1>5
<1> QED BY <1>1, <1>4, <1>6

\* What a step of the dispatcher that writes no rows has to show.
LEMMA DispatchStepOK ==
  ASSUME GenerationInv, UNCHANGED <<plan, db>>,
         files' \in [AttemptIds -> SUBSET {"claim", "started"}],
         receipts' \in [AttemptIds -> Paid], calls' \in [AttemptIds -> Paid],
         dispatch' \in [Dispatchers -> DispatchRow],
         DispatchersOK', FilesOK', ReceiptsTell'
  PROVE  GenerationInv'
<1>1. DiskTypes'
  BY DEF DiskTypes, DispatchRow
<1>2. CoreOK(db') /\ RunOK(db')
  BY InvParts
<1> QED BY <1>1, <1>2, InvParts, RowsEnough DEF DiskOK

\* The dispatcher publishes its claim.
LEMMA PublishClaimStep ==
  ASSUME GenerationInv, NEW p \in Dispatchers, PublishClaim(p)
  PROVE  GenerationInv'
<1>0. DiskTypes /\ DispatchersOK /\ FilesOK /\ ReceiptsTell /\ At(p, "claimed") /\ GoTo(p, "published")
      /\ files' = [files EXCEPT ![Mine(p)] = @ \cup {"claim"}]
      /\ UNCHANGED <<plan, db, receipts, calls>>
  BY InvParts DEF PublishClaim
<1>1. /\ dispatch' \in [Dispatchers -> DispatchRow] /\ dispatch'[p].pc = "published"
      /\ dispatch'[p].attempt = dispatch[p].attempt
      /\ \A q \in Dispatchers \ {p} : dispatch'[q] = dispatch[q]
  BY <1>0, GoToFacts
<1>2. /\ files' \in [AttemptIds -> SUBSET {"claim", "started"}]
      /\ \A a \in AttemptIds : files[a] \subseteq files'[a]
  BY <1>0, DispatchFacts DEF DispatchersOK, At
<1>3. DispatchersOK'
  BY <1>0, <1>1, <1>2 DEF DispatchersOK, At, Mine, Begun
<1>4. FilesOK'
  BY <1>0, <1>2 DEF FilesOK, Begun
<1>5. ReceiptsTell'
  BY <1>0 DEF ReceiptsTell, Reserved
<1> QED BY <1>0, <1>1, <1>2, <1>3, <1>4, <1>5, DispatchFacts, DispatchStepOK

\* The dispatcher creates the started marker, so nobody has paid for the attempt.
LEMMA StartAttemptStep ==
  ASSUME GenerationInv, NEW p \in Dispatchers, StartAttempt(p)
  PROVE  GenerationInv'
<1>0. DiskTypes /\ DispatchersOK /\ FilesOK /\ ReceiptsTell /\ At(p, "published") /\ GoTo(p, "started")
      /\ files' = [files EXCEPT ![Mine(p)] = @ \cup {"started"}]
      /\ "started" \notin files[Mine(p)] /\ Mine(p) \in AttemptIds
      /\ UNCHANGED <<plan, db, receipts, calls>>
  BY InvParts DEF StartAttempt, DispatchersOK, At
<1>1. /\ dispatch' \in [Dispatchers -> DispatchRow] /\ dispatch'[p].pc = "started"
      /\ dispatch'[p].attempt = dispatch[p].attempt
      /\ \A q \in Dispatchers \ {p} : dispatch'[q] = dispatch[q]
  BY <1>0, GoToFacts
<1>2. /\ files' \in [AttemptIds -> SUBSET {"claim", "started"}]
      /\ \A a \in AttemptIds : files[a] \subseteq files'[a]
      /\ "started" \in files'[Mine(p)]
  BY <1>0, DispatchFacts
<1>3. calls[Mine(p)] = <<>>
  BY <1>0 DEF FilesOK
<1>4. DispatchersOK'
  BY <1>0, <1>1, <1>2, <1>3 DEF DispatchersOK, At, Mine, Begun
<1>5. FilesOK'
  BY <1>0, <1>2 DEF FilesOK, Begun
<1>6. ReceiptsTell'
  BY <1>0 DEF ReceiptsTell, Reserved
<1> QED BY <1>0, <1>1, <1>2, <1>4, <1>5, <1>6, DispatchFacts, DispatchStepOK

\* The provider is paid for an attempt it was not paid for.
LEMMA CallProviderStep ==
  ASSUME GenerationInv, NEW p \in Dispatchers, CallProvider(p)
  PROVE  GenerationInv'
<1>0. DiskTypes /\ DispatchersOK /\ FilesOK /\ ReceiptsTell /\ At(p, "started")
      /\ UNCHANGED <<plan, db, files, receipts>>
  BY InvParts DEF CallProvider
<1>1. /\ plan.messages /\ Mine(p) \in AttemptIds /\ Begun(Mine(p))
      /\ "started" \in files[Mine(p)] /\ calls[Mine(p)] = <<>>
      /\ \A q \in Dispatchers : ~At(q, "idle") /\ Mine(q) = Mine(p) => p = q
  BY <1>0 DEF DispatchersOK, At
<1>2. PICK o \in Outcomes : /\ calls' = [calls EXCEPT ![Mine(p)] = Append(@, o)]
                            /\ dispatch' = [dispatch EXCEPT ![p].pc = "ran", ![p].result = <<o>>]
  BY DEF CallProvider
<1>3. PICK paid : paid = <<o>>
  OBVIOUS
<1>4. paid \in Paid /\ paid # <<>> /\ Append(<<>>, o) = paid
  BY <1>3 DEF Paid
<1>5. /\ calls' \in [AttemptIds -> Paid] /\ calls'[Mine(p)] = paid
      /\ \A a \in AttemptIds \ {Mine(p)} : calls'[a] = calls[a]
  BY <1>0, <1>1, <1>2, <1>4, DispatchFacts
<1>6. /\ dispatch' \in [Dispatchers -> DispatchRow] /\ dispatch'[p].pc = "ran"
      /\ dispatch'[p].attempt = dispatch[p].attempt /\ dispatch'[p].result = paid
      /\ \A q \in Dispatchers \ {p} : dispatch'[q] = dispatch[q]
  <2>1. PICK D, row : D = DispatchRow /\ row = dispatch[p]
    OBVIOUS
  <2>2. dispatch \in [Dispatchers -> D] /\ row \in D
    BY <1>0, <2>1, DispatchFacts
  <2>3. PICK new : new = [row EXCEPT !.pc = "ran", !.result = paid]
    OBVIOUS
  <2>4. new \in D /\ new.pc = "ran" /\ new.attempt = row.attempt /\ new.result = paid
    BY <1>4, <2>1, <2>2, <2>3 DEF DispatchRow
  <2>5. dispatch' = [dispatch EXCEPT ![p] = new]
    BY <1>2, <1>3, <2>1, <2>2, <2>3
  <2>6. /\ dispatch' \in [Dispatchers -> D] /\ dispatch'[p] = new
        /\ \A q \in Dispatchers \ {p} : dispatch'[q] = dispatch[q]
    BY <2>2, <2>4, <2>5
  <2> QED BY <2>1, <2>4, <2>6
<1>7. DispatchersOK'
  <2>1. ASSUME NEW q \in Dispatchers, q # p, ~(At(q, "idle")')
        PROVE  Mine(q) # Mine(p) /\ dispatch'[q] = dispatch[q] /\ calls'[Mine(q)] = calls[Mine(q)]
               /\ Mine(q)' = Mine(q)
    BY <1>0, <1>1, <1>5, <1>6, <2>1 DEF DispatchersOK, At, Mine
  <2>2. Mine(p)' = Mine(p)
    BY <1>6 DEF Mine
  <2> QED BY <1>0, <1>1, <1>4, <1>5, <1>6, <2>1, <2>2 DEF DispatchersOK, At, Mine, Begun
<1>8. FilesOK'
  <2>1. receipts[Mine(p)] = <<>>
    BY <1>0, <1>1 DEF FilesOK
  <2> QED BY <1>0, <1>1, <1>4, <1>5, <2>1 DEF FilesOK, Begun
<1>9. ReceiptsTell'
  BY <1>0 DEF ReceiptsTell, Reserved
<1> QED BY <1>0, <1>5, <1>6, <1>7, <1>8, <1>9, DispatchFacts, DispatchStepOK

\* The receipt that is published is the one of the payment.
LEMMA PublishReceiptStep ==
  ASSUME GenerationInv, NEW p \in Dispatchers, PublishReceipt(p)
  PROVE  GenerationInv'
<1>0. DiskTypes /\ DispatchersOK /\ FilesOK /\ ReceiptsTell /\ At(p, "ran") /\ GoTo(p, "indexed")
      /\ UNCHANGED <<plan, db, files, calls>>
  BY InvParts DEF PublishReceipt
<1>1. /\ plan.messages /\ Mine(p) \in AttemptIds
      /\ calls[Mine(p)] # <<>> /\ dispatch[p].result = calls[Mine(p)]
      /\ \A q \in Dispatchers : ~At(q, "idle") /\ Mine(q) = Mine(p) => p = q
  BY <1>0 DEF DispatchersOK, At
<1>2. /\ dispatch' \in [Dispatchers -> DispatchRow] /\ dispatch'[p].pc = "indexed"
      /\ dispatch'[p].attempt = dispatch[p].attempt
      /\ \A q \in Dispatchers \ {p} : dispatch'[q] = dispatch[q]
  BY <1>0, GoToFacts
<1>3. PICK got : got = IF receipts[Mine(p)] = <<>> THEN dispatch[p].result ELSE receipts[Mine(p)]
  OBVIOUS
<1>4. got = calls[Mine(p)] /\ got \in Paid /\ (receipts[Mine(p)] # <<>> => got = receipts[Mine(p)])
  BY <1>0, <1>1, <1>3, DispatchFacts DEF FilesOK
<1>5. /\ receipts' \in [AttemptIds -> Paid] /\ receipts'[Mine(p)] = got
      /\ \A a \in AttemptIds : receipts[a] # <<>> => receipts'[a] = receipts[a]
      /\ \A a \in AttemptIds : a # Mine(p) => receipts'[a] = receipts[a]
  BY <1>1, <1>0, <1>3, <1>4, DispatchFacts DEF PublishReceipt
<1>6. DispatchersOK'
  <2>1. ASSUME NEW q \in Dispatchers, q # p, ~(At(q, "idle")')
        PROVE  Mine(q) # Mine(p) /\ dispatch'[q] = dispatch[q] /\ receipts'[Mine(q)] = receipts[Mine(q)]
               /\ Mine(q)' = Mine(q)
    BY <1>0, <1>1, <1>5, <1>2, <2>1 DEF DispatchersOK, At, Mine
  <2>2. Mine(p)' = Mine(p)
    BY <1>2 DEF Mine
  <2> QED BY <1>0, <1>1, <1>4, <1>5, <1>2, <2>1, <2>2 DEF DispatchersOK, At, Mine, Begun
<1>7. FilesOK'
  BY <1>0, <1>4, <1>5 DEF FilesOK, Begun
<1>8. ReceiptsTell'
  BY <1>0, <1>5 DEF ReceiptsTell, Reserved
<1> QED BY <1>0, <1>2, <1>5, <1>6, <1>7, <1>8, DispatchFacts, DispatchStepOK

\* The dispatcher claims an attempt nobody else has.
LEMMA RunOnceStep ==
  ASSUME GenerationInv, NEW p \in Dispatchers, RunOnce(p)
  PROVE  GenerationInv'
<1>0. /\ DiskTypes /\ DispatchersOK /\ FilesOK /\ ReceiptsTell /\ At(p, "idle") /\ plan.messages
      /\ UNCHANGED <<plan, files, receipts, calls>> /\ CoreOK(db)
  BY InvParts DEF RunOnce
<1>1. PICK a \in Claimable(db) :
         /\ db' = Claimed(db, a)
         /\ dispatch' = [dispatch EXCEPT ![p].pc = "claimed", ![p].attempt = a]
  BY DEF RunOnce
<1>2. /\ CoreOK(db') /\ RunOK(db') /\ Keeps(db, db') /\ db.attempts[a].state = "pending"
      /\ a \in AttemptIds /\ db'.attempts[a].state = "running"
  BY <1>1, InvParts, ClaimStep
<1>3. PICK out, o : out = <<0, 0>> /\ o = 0 /\ out \notin AttemptIds /\ Moves(db, db', out, o)
  <2>1. <<0, 0>> \notin AttemptIds
    BY BoundsAssumption DEF AttemptIds
  <2> QED BY <1>2, <2>1, KeepsMoves
<1>4. \A b \in AttemptIds : Begun(b) => Begun(b)'
  BY <1>0, <1>3, BegunStays DEF CoreOK
<1>5. FilesOK'
  BY <1>0, <1>3, FilesKept
<1>6. ReceiptsTell'
  BY <1>0, <1>2, <1>3, TellKept
<1>7. /\ dispatch' \in [Dispatchers -> DispatchRow] /\ dispatch'[p].pc = "claimed"
      /\ dispatch'[p].attempt = a
      /\ \A q \in Dispatchers \ {p} : dispatch'[q] = dispatch[q]
  <2>1. PICK D, row : D = DispatchRow /\ row = dispatch[p]
    OBVIOUS
  <2>2. dispatch \in [Dispatchers -> D] /\ row \in D
    BY <1>0, <2>1, DispatchFacts
  <2>3. PICK new : new = [row EXCEPT !.pc = "claimed", !.attempt = a]
    OBVIOUS
  <2>4. new \in D /\ new.pc = "claimed" /\ new.attempt = a
    BY <1>2, <2>1, <2>2, <2>3 DEF DispatchRow
  <2>5. dispatch' = [dispatch EXCEPT ![p] = new]
    BY <1>1, <2>1, <2>2, <2>3
  <2>6. /\ dispatch' \in [Dispatchers -> D] /\ dispatch'[p] = new
        /\ \A q \in Dispatchers \ {p} : dispatch'[q] = dispatch[q]
    BY <2>2, <2>4, <2>5
  <2> QED BY <2>1, <2>4, <2>6
<1>8. DispatchersOK'
  <2>1. ~Begun(a)
    BY <1>2 DEF Begun
  <2>2. ASSUME NEW q \in Dispatchers, q # p, ~(At(q, "idle")')
        PROVE  /\ dispatch'[q] = dispatch[q] /\ ~At(q, "idle") /\ Mine(q) # a
               /\ Mine(q) \in AttemptIds /\ Mine(q)' = Mine(q) /\ Begun(Mine(q))
    BY <1>0, <1>7, <2>1, <2>2 DEF DispatchersOK, At, Mine
  <2>3. Mine(p)' = a /\ At(p, "claimed")'
    BY <1>7 DEF Mine, At
  <2>4. Begun(a)'
    BY <1>2 DEF Begun
  <2> SUFFICES ASSUME NEW q \in Dispatchers, ~(At(q, "idle")')
      PROVE  /\ plan'.messages /\ Mine(q)' \in AttemptIds /\ Begun(Mine(q))'
             /\ \A s \in Dispatchers : ~At(s, "idle")' /\ Mine(s)' = Mine(q)' => q = s
             /\ At(q, "started")' => "started" \in files[Mine(q)]' /\ calls[Mine(q)]' = <<>>
             /\ At(q, "ran")' => calls[Mine(q)]' # <<>> /\ dispatch[q].result' = calls[Mine(q)]'
             /\ At(q, "indexed")' => receipts[Mine(q)]' # <<>>
    BY DEF DispatchersOK
  <2>5. CASE q = p
    <3>1. Begun(Mine(q))'
      BY <2>3, <2>4, <2>5 DEF Begun
    <3> QED BY <1>0, <1>2, <1>7, <2>2, <2>3, <2>5, <3>1 DEF At
  <2>6. CASE q # p
    <3>1. PICK b \in AttemptIds : b = Mine(q) /\ Begun(b) /\ Mine(q)' = b /\ b # a
      BY <2>2, <2>6
    <3>2. Begun(Mine(q))'
      <4>1. Begun(b)'
        BY <1>4, <3>1
      <4> QED BY <3>1, <4>1 DEF Begun
    <3>3. \A s \in Dispatchers : ~At(s, "idle")' /\ Mine(s)' = Mine(q)' => q = s
      <4> TAKE s \in Dispatchers
      <4> HAVE ~At(s, "idle")' /\ Mine(s)' = Mine(q)'
      <4>1. s # p
        BY <2>3, <3>1
      <4>2. ~At(s, "idle") /\ Mine(s) = Mine(q) /\ ~At(q, "idle")
        BY <2>2, <2>6, <4>1
      <4> QED BY <1>0, <4>2 DEF DispatchersOK
    <3> QED BY <1>0, <2>2, <2>6, <3>1, <3>2, <3>3 DEF DispatchersOK, At
  <2> QED BY <2>5, <2>6
<1>9. DiskOK'
  <2>1. DiskTypes'
    BY <1>0, <1>7, DispatchFacts DEF DiskTypes, DispatchRow
  <2> QED BY <1>5, <1>6, <1>8, <2>1 DEF DiskOK
<1> QED BY <1>0, <1>2, <1>9, InvParts, RowsEnough

-----------------------------------------------------------------------------
(* The invariant.                                                          *)

\* Where nothing is used the sums are none.
LEMMA NothingUsed ==
  ASSUME NEW f, IsFiniteSet(DOMAIN f), \A x \in DOMAIN f : f[x] = NoUsage
  PROVE  SumUsage(f) = NoUsage
<1>1. PICK fa, fu, fp : /\ fa = [x \in DOMAIN f |-> f[x].attempts]
                        /\ fu = [x \in DOMAIN f |-> f[x].units]
                        /\ fp = [x \in DOMAIN f |-> f[x].proposals]
  OBVIOUS
<1>2. /\ DOMAIN fa = DOMAIN f /\ DOMAIN fu = DOMAIN f /\ DOMAIN fp = DOMAIN f
      /\ \A x \in DOMAIN f : fa[x] = 0 /\ fu[x] = 0 /\ fp[x] = 0
  BY <1>1 DEF NoUsage
<1>3. /\ SumFunctionOnSet(fa, DOMAIN f) = 0 /\ SumFunctionOnSet(fu, DOMAIN f) = 0
      /\ SumFunctionOnSet(fp, DOMAIN f) = 0
  BY <1>2, SumZero
<1>4. SumFunction(fa) = 0 /\ SumFunction(fu) = 0 /\ SumFunction(fp) = 0
  BY <1>2, <1>3 DEF SumFunction
<1> QED BY <1>1, <1>4 DEF SumUsage, NoUsage

\* The invariant holds at the start: nothing is reserved or consumed.
LEMMA GenerationStarts == GenerationInit => GenerationInv
<1> SUFFICES ASSUME GenerationInit PROVE GenerationInv
  OBVIOUS
<1>1. /\ plan \in Plans /\ IsRows(db)
      /\ db.run = [state |-> "absent", error |-> "none",
                   reserved |-> NoUsage, consumed |-> NoUsage]
      /\ db.attempts = [a \in AttemptIds |-> [state |-> "absent", lease |-> "none"]]
      /\ db.reserves = {} /\ db.settled = [a \in AttemptIds |-> NoUsage]
      /\ db.refs = {} /\ db.publication = <<>>
      /\ files = [a \in AttemptIds |-> {}]
      /\ receipts = [a \in AttemptIds |-> <<>>]
      /\ calls = [a \in AttemptIds |-> <<>>]
      /\ dispatch = [p \in Dispatchers |-> AtRest]
  BY DEF GenerationInit, IsRows
<1>2. NoUsage \in GenerationBudgetUsage
  BY DEF NoUsage, GenerationBudgetUsage
<1>3. /\ db.run \in RunRow /\ db.run.state = "absent" /\ db.run.error = "none"
      /\ db.run.reserved = NoUsage /\ db.run.consumed = NoUsage
  BY <1>1, <1>2 DEF RunRow
<1>4. /\ db.attempts \in [AttemptIds -> AttemptRow]
      /\ \A a \in AttemptIds : db.attempts[a].state = "absent"
      /\ db.settled \in [AttemptIds -> GenerationBudgetUsage]
      /\ \A a \in AttemptIds : db.settled[a] = NoUsage
  BY <1>1, <1>2 DEF AttemptRow
<1>5. RowTypes(db)
  BY <1>1, <1>3, <1>4, MakeRows
<1>6. Rows(db) = {} /\ Running(db) = {} /\ Live(db) = {}
  BY <1>4 DEF Rows, Running, Live, Unclaimed
<1>7. CoreOK(db)
  <2>1. FewRun(db)
    BY <1>1, <1>6, FS_EmptySet, PlanFacts DEF FewRun
  <2>2. LedgerOK(db)
    BY <1>1, <1>4, <1>6 DEF LedgerOK, EntryOK
  <2>3. RefsOK(db)
    BY <1>1, <1>4 DEF RefsOK
  <2>4. InTurn(db)
    BY <1>3, <1>6 DEF InTurn
  <2> QED BY <1>5, <2>1, <2>2, <2>3, <2>4 DEF CoreOK
<1>8. CountedOK(db)
  <2>1. OutstandingReserved(db) = NoUsage
    <3>1. PICK f : f = [a \in Live(db) |-> Reserved(a)]
      OBVIOUS
    <3>2. DOMAIN f = {} /\ IsFiniteSet({})
      BY <1>6, <3>1, FS_EmptySet
    <3> QED BY <3>1, <3>2, NothingUsed DEF OutstandingReserved
  <2>2. ConsumedBudget(db) = NoUsage
    BY <1>1, FiniteAttempts, NothingUsed DEF ConsumedBudget
  <2> QED BY <1>3, <2>1, <2>2 DEF CountedOK
<1>9. DecisionOK(db) /\ PublicationOK(db)
  BY <1>1, <1>3, <1>6 DEF DecisionOK, Undecided, PublicationOK
<1>10. DiskTypes
  <2>1. AtRest \in DispatchRow
    BY DEF AtRest, DispatchRow, Paid
  <2>2. dispatch \in [Dispatchers -> DispatchRow]
    BY <1>1, <2>1
  <2> QED BY <1>1, <2>2 DEF DiskTypes, DispatchRow, Paid
<1>11. DispatchersOK /\ FilesOK /\ ReceiptsTell
  BY <1>1, <1>4 DEF DispatchersOK, At, AtRest, FilesOK, ReceiptsTell
<1> QED BY <1>1, <1>7, <1>8, <1>9, <1>10, <1>11 DEF GenerationInv, GenInvariant, RunOK

\* Every step keeps the invariant.
LEMMA GenerationMoves ==
  GenerationInv /\ [GenerationNext]_gvars => GenerationInv'
<1> SUFFICES ASSUME GenerationInv, [GenerationNext]_gvars PROVE GenerationInv'
  OBVIOUS
<1>0. RowsInv
  BY InvParts
<1>1. CASE CreateGenerationRun
  BY <1>0, <1>1, CreateStep, AuthorityStep DEF CreateGenerationRun
<1>2. CASE Reconcile
  BY <1>0, <1>2, ReconcileStep, AuthorityStep DEF Reconcile, Exists
<1>3. CASE CompleteReview
  BY <1>0, <1>3, CompleteStep, AuthorityStep DEF CompleteReview
<1>4. CASE PublishEvidence
  BY <1>0, <1>4, PublishStep, AuthorityStep DEF PublishEvidence
<1>5. ASSUME NEW a \in AttemptIds, Expire(a) PROVE GenerationInv'
  BY <1>0, <1>5, ExpireStep, AuthorityStep DEF Expire
<1>6. ASSUME NEW a \in AttemptIds, ClientClaim(a) PROVE GenerationInv'
  BY <1>0, <1>6, ClaimStep, AuthorityStep DEF ClientClaim
<1>7. ASSUME NEW a \in AttemptIds, ClientRenew(a) PROVE GenerationInv'
  <2>1. db.run.state # "absent"
    BY <1>0, <1>7, RunningInUse DEF RowsInv, ClientRenew, Stale, Live
  <2> QED BY <1>0, <1>7, <2>1, ReconcileStep, AuthorityStep DEF ClientRenew
<1>8. ASSUME NEW a \in AttemptIds, Recover(a) PROVE GenerationInv'
  BY <1>8, RecoverStep
<1>9. ASSUME NEW a \in AttemptIds, NEW o \in Outcomes, ClientSettle(a, o)
      PROVE  GenerationInv'
  BY <1>9, ClientSettleStep
<1>10. ASSUME NEW p \in Dispatchers, RunOnce(p) PROVE GenerationInv'
  BY <1>10, RunOnceStep
<1>11. ASSUME NEW p \in Dispatchers, DispatchStep(p) PROVE GenerationInv'
  <2>1. CASE PublishClaim(p)
    BY <2>1, PublishClaimStep
  <2>2. CASE StartAttempt(p)
    BY <2>2, StartAttemptStep
  <2>3. CASE Refuse(p)
    BY <2>3, RestStep DEF Refuse
  <2>4. CASE CallProvider(p)
    BY <2>4, CallProviderStep
  <2>5. CASE PublishReceipt(p)
    BY <2>5, PublishReceiptStep
  <2>6. CASE SettleClaim(p)
    BY <2>6, SettleClaimStep
  <2> QED BY <1>11, <2>1, <2>2, <2>3, <2>4, <2>5, <2>6 DEF DispatchStep
<1>12. ASSUME NEW p \in Dispatchers, Crash(p) PROVE GenerationInv'
  BY <1>12, RestStep DEF Crash
<1>13. CASE UNCHANGED gvars
  <2>1. /\ CoreOK(db') /\ RunOK(db') /\ Keeps(db, db') /\ UNCHANGED <<plan, Disk>>
    BY <1>13, InvParts, KeepsItself DEF gvars, Disk
  <2> QED BY <2>1, AuthorityStep
<1> QED BY <1>1, <1>2, <1>3, <1>4, <1>5, <1>6, <1>7, <1>8, <1>9, <1>10, <1>11, <1>12, <1>13
        DEF GenerationNext

\* Every run keeps the invariant.
THEOREM GenerationInvariant == GenerationSpec => []GenerationInv
BY GenerationStarts, GenerationMoves, PTL DEF GenerationSpec

-----------------------------------------------------------------------------
(* The properties.                                                         *)

\* Attempts in turn.
LEMMA InvTurn == ASSUME GenerationInv PROVE AttemptsInTurn
<1>1. CoreOK(db) /\ RunOK(db)
  BY InvParts
<1>2. ASSUME Exists, NEW g \in Generators
      PROVE  \E k \in 1 .. plan.generators[g].max_attempts :
               /\ RowsOf(db, g) = {g} \X (1 .. k)
               /\ \A n \in 1 .. k - 1 : db.attempts[<<g, n>>].state = "failed"
  BY <1>1, <1>2 DEF CoreOK, InTurn, HasMade, Exists
<1>3. Cardinality(Running(db)) <= plan.max_concurrency
  BY <1>1 DEF CoreOK, FewRun
<1>4. db.run.state \notin {"created", "running"} => Live(db) = {}
  BY <1>1 DEF RunOK, DecisionOK
<1> QED BY <1>2, <1>3, <1>4 DEF AttemptsInTurn

\* The ledger has the sums of the rows, and they fit the budget of the plan.
LEMMA InvBudget == ASSUME GenerationInv PROVE BudgetKept
<1>1. plan \in Plans /\ CoreOK(db) /\ CountedOK(db)
  BY InvParts DEF RunOK
<1>2. Fits(Plus(OutstandingReserved(db), ConsumedBudget(db)), plan.budget)
  BY <1>1, BudgetFits
<1> QED BY <1>1, <1>2 DEF CountedOK, BudgetKept

\* An attempt is charged and paid for once.
LEMMA InvCharged == ASSUME GenerationInv PROVE ChargedOnce
<1> SUFFICES ASSUME NEW a \in AttemptIds
    PROVE  /\ a \in db.reserves <=> a \in Rows(db)
           /\ Charged(db, a) <=> db.attempts[a].state \in {"succeeded", "failed"}
           /\ calls[a] # <<>> =>
                /\ Len(calls[a]) = 1 /\ a \in db.reserves
                /\ Charged(db, a) =>
                     \/ calls[a][1].units <= db.settled[a].units
                     \/ db.settled[a].units = Reserved(a).units
  BY DEF ChargedOnce
<1>0. /\ CoreOK(db) /\ RowTypes(db) /\ LedgerOK(db) /\ EntryOK(db, a)
      /\ DiskTypes /\ FilesOK /\ ReceiptsTell
  BY InvParts DEF CoreOK, LedgerOK
<1>1. a \in db.reserves <=> a \in Rows(db)
  BY <1>0 DEF LedgerOK
<1>2. Charged(db, a) <=> db.attempts[a].state \in {"succeeded", "failed"}
  <2>1. NoUsage.attempts = 0
    BY DEF NoUsage
  <2> QED BY <1>0, <2>1 DEF EntryOK, Charged
<1>3. ASSUME calls[a] # <<>>
      PROVE  /\ Len(calls[a]) = 1 /\ a \in db.reserves
             /\ Charged(db, a) =>
                  \/ calls[a][1].units <= db.settled[a].units
                  \/ db.settled[a].units = Reserved(a).units
  <2>1. Len(calls[a]) = 1
    <3>1. calls[a] \in Paid
      BY <1>0 DEF DiskTypes
    <3>2. PICK o \in Outcomes : calls[a] = <<o>>
      BY <1>3, <3>1 DEF Paid
    <3> QED BY <3>2
  <2>2. plan.messages /\ Begun(a) /\ (receipts[a] # <<>> => receipts[a] = calls[a])
    BY <1>0, <1>3 DEF FilesOK
  <2>3. a \in db.reserves
    BY <1>1, <2>2 DEF Begun, Rows
  <2>4. ASSUME Charged(db, a)
        PROVE  \/ calls[a][1].units <= db.settled[a].units
               \/ db.settled[a].units = Reserved(a).units
    <3>1. \/ db.settled[a].units = Reserved(a).units
          \/ receipts[a] # <<>> /\ db.settled[a].units = receipts[a][1].units
      BY <1>0, <1>2, <2>2, <2>4 DEF ReceiptsTell
    <3>2. db.settled[a].units \in Nat
      BY <1>0, StateFacts
    <3> QED BY <2>2, <3>1, <3>2
  <2> QED BY <2>1, <2>3, <2>4
<1> QED BY <1>1, <1>2, <1>3

\* AttemptsAccounted: the attempts of every generator are numbered without a
\* gap, each is charged once, the provider's payment is covered, and the budget
\* of the plan is never exceeded (claim_generation_attempt,
\* settle_generation_attempt and reconcile_generation_run, in any order and
\* with any crash of the dispatcher).
THEOREM AttemptsAreAccounted == GenerationSpec => []AttemptsAccounted
<1>1. GenerationInv => AttemptsAccounted
  BY InvTurn, InvBudget, InvCharged DEF AttemptsAccounted, LedgerKept
<1> QED BY <1>1, GenerationInvariant, PTL

\* The proposals of an attempt are numbered by what it was charged for.
LEMMA ProposalsCounted ==
  ASSUME NEW d, RowTypes(d), LedgerOK(d), RefsOK(d), NEW a \in AttemptIds, NEW mine,
         mine = {r \in d.refs : r.attempt = a}
  PROVE  /\ Cardinality(mine) = d.settled[a].proposals
         /\ d.attempts[a].state = "succeeded" => mine # {}
<1>0. EntryOK(d, a) /\ d.settled[a].proposals \in Nat
  BY StateFacts DEF LedgerOK
<1>1. CASE d.attempts[a].state = "succeeded"
  <2>1. PICK n : n = d.settled[a].proposals
    OBVIOUS
  <2>2. n \in Nat /\ n >= 1
    <3>1. n \in 1 .. Reserved(a).proposals
      BY <1>0, <1>1, <2>1 DEF EntryOK
    <3> QED BY <1>0, <2>1, <3>1
  <2>3. \A i \in 1 .. n : \E r \in mine : r.ordinal = i
    BY <1>1, <2>1 DEF RefsOK
  <2>4. \A r \in mine : r.ordinal \in 1 .. n
    BY <2>1 DEF RefsOK
  <2>5. \A r, q \in mine : r.ordinal = q.ordinal => r = q
    BY DEF RefsOK
  <2> DEFINE f == [i \in 1 .. n |-> CHOOSE r \in mine : r.ordinal = i]
  <2>6. \A i \in 1 .. n : f[i] \in mine /\ f[i].ordinal = i
    BY <2>3
  <2>7. f \in [1 .. n -> mine]
    BY <2>6
  <2> HIDE DEF f
  <2>8. \A i, j \in 1 .. n : f[i] = f[j] => i = j
    BY <2>6
  <2>9. \A r \in mine : \E i \in 1 .. n : f[i] = r
    BY <2>4, <2>5, <2>6
  <2>10. f \in Bijection(1 .. n, mine)
    BY <2>7, <2>8, <2>9 DEF Bijection, Injection, Surjection, IsInjective
  <2>11. ExistsBijection(1 .. n, mine)
    BY <2>10 DEF ExistsBijection
  <2>12. Cardinality(mine) = n
    BY <2>2, <2>11, FS_CountingElements
  <2>13. mine # {}
    BY <2>2, <2>3
  <2> QED BY <2>1, <2>12, <2>13
<1>2. CASE d.attempts[a].state # "succeeded"
  <2>1. mine = {}
    BY <1>2 DEF RefsOK
  <2>2. d.settled[a].proposals = 0
    BY <1>0, <1>2 DEF EntryOK, NoUsage
  <2> QED BY <1>2, <2>1, <2>2, FS_EmptySet
<1> QED BY <1>1, <1>2

\* FamilyDecided: what is under review is exactly what the attempts that
\* succeeded were charged for, and of every patch one proposal is retained
\* (Decided, in reconcile_generation_run).
THEOREM FamiliesAreDecided == GenerationSpec => []FamilyDecided
<1>1. ASSUME GenerationInv PROVE FamilyDecided
  <2>0. /\ CoreOK(db) /\ RowTypes(db) /\ LedgerOK(db) /\ RefsOK(db) /\ DecisionOK(db)
        /\ FilesOK /\ ReceiptsTell
    BY <1>1, InvParts DEF CoreOK, RunOK
  <2>1. \A r \in db.refs : db.attempts[r.attempt].state = "succeeded"
    BY <2>0 DEF RefsOK
  <2>2. ASSUME NEW a \in AttemptIds
        PROVE  LET mine == {r \in db.refs : r.attempt = a}
               IN  /\ Cardinality(mine) = db.settled[a].proposals
                   /\ db.attempts[a].state = "succeeded" => mine # {}
                   /\ mine # {} /\ receipts[a] # <<>> =>
                        \A r \in mine : r.patch = receipts[a][1].patches[r.ordinal]
    <3>1. PICK mine : mine = {r \in db.refs : r.attempt = a}
      OBVIOUS
    <3>2. /\ Cardinality(mine) = db.settled[a].proposals
          /\ db.attempts[a].state = "succeeded" => mine # {}
      BY <2>0, <3>1, ProposalsCounted
    <3>3. ASSUME receipts[a] # <<>>, NEW r \in mine
          PROVE  r.patch = receipts[a][1].patches[r.ordinal]
      <4>1. plan.messages
        BY <2>0, <3>3 DEF FilesOK
      <4>2. db.attempts[a].state = "succeeded" /\ r \in db.refs /\ r.attempt = a
        BY <2>1, <3>1
      <4> QED BY <2>0, <4>1, <4>2 DEF ReceiptsTell
    <3> QED BY <3>1, <3>2, <3>3
  <2>3. db.run.state \in {"awaiting_review", "completed"} => FamilyFinal(db) /\ db.refs # {}
    BY <2>0 DEF DecisionOK
  <2>4. db.run.state \notin {"awaiting_review", "completed"} =>
           \A r \in db.refs : r.disposition = "pending"
    BY <2>0 DEF DecisionOK, Undecided
  <2>5. db.run.state = "failed" => db.refs = {}
    BY <2>0 DEF DecisionOK
  <2> QED BY <2>1, <2>2, <2>3, <2>4, <2>5 DEF FamilyDecided, FamilyFinal
<1> QED BY <1>1, GenerationInvariant, PTL

\* Nothing is live in a run that is decided, so nothing can be claimed,
\* renewed, settled or made to expire.
LEMMA SettledForGood ==
  ASSUME GenerationInv, db.run.state \in Over, NEW a, NEW o, SettleAttempt(a, o)
  PROVE  UNCHANGED db
<1>1. Live(db) = {}
  BY InvParts DEF RunOK, DecisionOK, Over
<1> QED BY <1>1 DEF SettleAttempt, Live, Stale

\* A decided run is completed or published, or its rows stay.
LEMMA DecidedStep ==
  ASSUME GenerationInv, GenerationNext, db.run.state \in Over
  PROVE  UNCHANGED db \/ CompleteReview \/ PublishEvidence
<1>0. Live(db) = {} /\ Running(db) = {} /\ Unclaimed(db) = {} /\ Stale(db) = {}
  BY InvParts DEF RunOK, DecisionOK, Over, Live, Stale
<1>1. ~CreateGenerationRun
  BY DEF CreateGenerationRun, Exists, Over
<1>2. CASE Reconcile
  BY <1>2 DEF Reconcile, ReconcileFrom, Over
<1>3. CASE \E a \in AttemptIds :
             \/ Expire(a) \/ ClientClaim(a) \/ ClientRenew(a) \/ Recover(a)
             \/ \E o \in Outcomes : ClientSettle(a, o)
  BY <1>0, <1>3, SettledForGood DEF Expire, ClientClaim, Claimable, ClientRenew, Recover, ClientSettle
<1>4. ASSUME NEW p \in Dispatchers, RunOnce(p) \/ DispatchStep(p) \/ Crash(p)
      PROVE  UNCHANGED db
  <2>1. ~RunOnce(p)
    BY <1>0 DEF RunOnce, Claimable
  <2>2. CASE SettleClaim(p)
    BY <2>2, SettledForGood DEF SettleClaim
  <2> QED BY <1>4, <2>1, <2>2
          DEF DispatchStep, PublishClaim, StartAttempt, Refuse, CallProvider, PublishReceipt, Crash
<1> QED BY <1>1, <1>2, <1>3, <1>4 DEF GenerationNext

\* DecidedForGood: late settlements, renewals, recoveries and reconciliations
\* of a decided run change nothing, and its published evidence goes on to
\* describe it.
THEOREM DecisionsStand == GenerationSpec => DecidedForGood
<1>1. ASSUME GenerationInv, GenerationInv', [GenerationNext]_gvars
      PROVE  [/\ db.run.state \in {"awaiting_review", "completed", "failed"} =>
                   /\ UNCHANGED <<db.attempts, db.reserves, db.settled, db.refs>>
                   /\ \/ UNCHANGED db.run.state
                      \/ db.run.state = "awaiting_review" /\ db'.run.state = "completed"
              /\ db'.publication # <<>> => db'.publication[1] = Content(db')]_gvars
  <2> SUFFICES ASSUME GenerationNext
      PROVE  /\ db.run.state \in {"awaiting_review", "completed", "failed"} =>
                  /\ UNCHANGED <<db.attempts, db.reserves, db.settled, db.refs>>
                  /\ \/ UNCHANGED db.run.state
                     \/ db.run.state = "awaiting_review" /\ db'.run.state = "completed"
             /\ db'.publication # <<>> => db'.publication[1] = Content(db')
    BY <1>1
  <2>1. db'.publication # <<>> => db'.publication[1] = Content(db')
    <3>1. PublicationOK(db)'
      BY <1>1 DEF GenerationInv, GenInvariant, RunOK
    <3> QED BY <3>1 DEF PublicationOK, Content
  <2>2. ASSUME db.run.state \in {"awaiting_review", "completed", "failed"}
        PROVE  /\ UNCHANGED <<db.attempts, db.reserves, db.settled, db.refs>>
               /\ \/ UNCHANGED db.run.state
                  \/ db.run.state = "awaiting_review" /\ db'.run.state = "completed"
    <3>0. RowTypes(db)
      BY <1>1, InvParts
    <3>1. UNCHANGED db \/ CompleteReview \/ PublishEvidence
      BY <1>1, <2>2, DecidedStep DEF Over
    <3>2. CASE UNCHANGED db
      BY <3>2
    <3>3. CASE CompleteReview
      BY <3>0, <3>3 DEF CompleteReview, RowTypes, RunRow
    <3>4. CASE PublishEvidence
      BY <3>0, <3>4 DEF PublishEvidence, RowTypes
    <3> QED BY <3>1, <3>2, <3>3, <3>4
  <2> QED BY <2>1, <2>2
<1> QED BY <1>1, GenerationInvariant, PTL DEF GenerationSpec, DecidedForGood

-----------------------------------------------------------------------------
(* Reviews and promotions.                                                 *)
(*                                                                         *)
(* What carries the second property is what a promotion has behind it at   *)
(* each of its steps. Nothing that it has written can change any more: a   *)
(* review, a package, a registered candidate and a completed run stay what *)
(* they are, so other commands may write in between.                       *)

\* A stored review is what its key is bound to.
StoredIsBound == \A v \in reviews : binding[v.key] = v

Approved(v) == v \in reviews /\ v.decision = "approved"
Packed(v, c) == packages[v.proposal] = [candidate |-> c, review |-> v]
Registered(v, c) == candidate.key = c /\ candidate.proposal = v.proposal
Completed(v, c) == run.state = "completed" /\ run.evidence = Summary(v, c)

\* What a promotion of review v to candidate c has behind it at step pc.
BehindIt(pc, v, c) ==
  pc # "idle" =>
    /\ Approved(v)
    /\ pc # "publish" => Packed(v, c)
    /\ pc \in {"complete", "record"} => Registered(v, c)
    /\ pc = "record" => Completed(v, c)

StepsAreBehind ==
  \A p \in Promoter : BehindIt(promotion[p].pc, promotion[p].review, promotion[p].key)

\* The history that an origin event tells.
Traced(v) ==
  /\ Approved(v) /\ Packed(v, candidate.key) /\ Registered(v, candidate.key)
  /\ Completed(v, candidate.key) /\ origin = Summary(v, candidate.key)

OriginIsTraced == origin # Unreviewed => \E v \in Review : Traced(v)

AcceptedHasOrigin == candidate.state = "accepted" => origin # Unreviewed

ReviewInv ==
  /\ ReviewTypeOK
  /\ StoredIsBound
  /\ StepsAreBehind
  /\ OriginIsTraced
  /\ AcceptedHasOrigin

-----------------------------------------------------------------------------
\* The invariant holds of a run that nobody has reviewed yet.
LEMMA ReviewInitOK == ReviewInit => ReviewInv
  BY DEF ReviewInit, ReviewInv, ReviewTypeOK, StoredIsBound, StepsAreBehind, BehindIt,
         OriginIsTraced, AcceptedHasOrigin, Evidence, Unreviewed, Unregistered, Resting

\* Every step keeps the types.
LEMMA ReviewTypes == ReviewTypeOK /\ [ReviewNext]_rvars => ReviewTypeOK'
<1> SUFFICES ASSUME ReviewTypeOK, [ReviewNext]_rvars PROVE ReviewTypeOK'
  OBVIOUS
<1> USE ReviewAssumption DEF ReviewTypeOK, Evidence
<1>1. ASSUME NEW v \in Review, BeginReview(v) \/ BindReview(v) \/ StoreReview(v) \/ LeaveReview(v)
      PROVE ReviewTypeOK'
  BY <1>1 DEF BeginReview, BindReview, StoreReview, LeaveReview
<1>2. ASSUME NEW R \in SUBSET Review, BeginClosing(R) PROVE ReviewTypeOK'
  BY <1>2 DEF BeginClosing
<1>3. CASE CloseRejected
  BY <1>3 DEF CloseRejected, CompleteRun
<1>4. CASE ClosingDies
  BY <1>4 DEF ClosingDies
<1>5. ASSUME NEW p \in Promoter, NEW v \in Review, NEW c \in CandidateKey, BeginPromotion(p, v, c)
      PROVE ReviewTypeOK'
  BY <1>5 DEF BeginPromotion
<1>6. ASSUME NEW p \in Promoter, PublishPackage(p) PROVE ReviewTypeOK'
  <2>1. promotion[p].pc = "publish"
    BY <1>6 DEF PublishPackage
  <2>2. promotion[p].review \in Review /\ promotion[p].key \in CandidateKey
    BY <2>1 DEF Resting
  <2> QED
    BY <1>6, <2>1, <2>2 DEF PublishPackage, Goes, Stops, Manifest, Resting
<1>7. ASSUME NEW p \in Promoter, Register(p) PROVE ReviewTypeOK'
  <2>1. promotion[p].pc = "register"
    BY <1>7 DEF Register
  <2>2. promotion[p].review \in Review /\ promotion[p].key \in CandidateKey
    BY <2>1 DEF Resting
  <2> QED
    BY <1>7, <2>1, <2>2 DEF Register, Goes, Stops, Resting, Unregistered
<1>8. ASSUME NEW p \in Promoter, CompletePromotion(p) PROVE ReviewTypeOK'
  <2>1. promotion[p].pc = "complete"
    BY <1>8 DEF CompletePromotion
  <2>2. promotion[p].review \in Review /\ promotion[p].key \in CandidateKey
    BY <2>1 DEF Resting
  <2> QED
    BY <1>8, <2>1, <2>2 DEF CompletePromotion, CompleteRun, Summary, Goes, Stops, Resting
<1>9. ASSUME NEW p \in Promoter, RecordOrigin(p) PROVE ReviewTypeOK'
  <2>1. promotion[p].pc = "record"
    BY <1>9 DEF RecordOrigin
  <2>2. promotion[p].review \in Review /\ promotion[p].key \in CandidateKey
    BY <2>1 DEF Resting
  <2> QED
    BY <1>9, <2>1, <2>2 DEF RecordOrigin, Summary, Stops
<1>10. ASSUME NEW p \in Promoter, PromotionDies(p) PROVE ReviewTypeOK'
  BY <1>10 DEF PromotionDies, Stops
<1>11. ASSUME Adjudicate \/ \E d \in {"accepted", "rejected"} : SignCandidate(d)
       PROVE ReviewTypeOK'
  BY <1>11 DEF Adjudicate, SignCandidate, Unregistered
<1>12. CASE UNCHANGED rvars
  BY <1>12 DEF rvars
<1> QED
  BY <1>1, <1>2, <1>3, <1>4, <1>5, <1>6, <1>7, <1>8, <1>9, <1>10, <1>11, <1>12
     DEF ReviewNext, PromotionStep

\* What is written stays: bindings, reviews, packages, the candidate's
\* identity, the completed run and the origin.
Stays ==
  /\ \A k \in ReviewKey : binding[k] # NoReview => binding'[k] = binding[k]
  /\ reviews \subseteq reviews'
  /\ \A q \in Proposal : packages[q] # NoPackage => packages'[q] = packages[q]
  /\ candidate # Unregistered =>
       candidate'.key = candidate.key /\ candidate'.proposal = candidate.proposal
  /\ run.state = "completed" => run' = run
  /\ origin # Unreviewed => origin' = origin

\* Reviews, packages, a registered candidate and a completed run stay.
LEMMA WritesStay == ReviewTypeOK /\ [ReviewNext]_rvars => Stays
<1> SUFFICES ASSUME ReviewTypeOK, [ReviewNext]_rvars PROVE Stays
  OBVIOUS
<1> USE ReviewAssumption DEF ReviewTypeOK, Stays
<1>1. ASSUME NEW v \in Review, BeginReview(v) \/ BindReview(v) \/ StoreReview(v) \/ LeaveReview(v)
      PROVE Stays
  BY <1>1 DEF BeginReview, BindReview, StoreReview, LeaveReview
<1>2. ASSUME NEW R \in SUBSET Review, BeginClosing(R) PROVE Stays
  BY <1>2 DEF BeginClosing
<1>3. CASE CloseRejected \/ ClosingDies
  BY <1>3 DEF CloseRejected, ClosingDies, CompleteRun
<1>4. ASSUME NEW p \in Promoter, NEW v \in Review, NEW c \in CandidateKey, BeginPromotion(p, v, c)
      PROVE Stays
  BY <1>4 DEF BeginPromotion
<1>5. ASSUME NEW p \in Promoter, PublishPackage(p) PROVE Stays
  <2>1. promotion[p].review \in Review
    BY <1>5 DEF PublishPackage, Resting
  <2> QED
    BY <1>5, <2>1 DEF PublishPackage, PackageIsMine
<1>6. ASSUME NEW p \in Promoter, Register(p) PROVE Stays
  BY <1>6 DEF Register
<1>7. ASSUME NEW p \in Promoter, CompletePromotion(p) PROVE Stays
  BY <1>7 DEF CompletePromotion, CompleteRun
<1>8. ASSUME NEW p \in Promoter, RecordOrigin(p) PROVE Stays
  BY <1>8 DEF RecordOrigin
<1>9. ASSUME NEW p \in Promoter, PromotionDies(p) PROVE Stays
  BY <1>9 DEF PromotionDies
<1>10. CASE Adjudicate
  BY <1>10 DEF Adjudicate, Unregistered
<1>11. ASSUME NEW d \in {"accepted", "rejected"}, SignCandidate(d) PROVE Stays
  BY <1>11 DEF SignCandidate, Unregistered
<1>12. CASE UNCHANGED rvars
  BY <1>12 DEF rvars
<1> QED
  BY <1>1, <1>2, <1>3, <1>4, <1>5, <1>6, <1>7, <1>8, <1>9, <1>10, <1>11, <1>12
     DEF ReviewNext, PromotionStep

\* A review that comes into the store is the one its key is bound to.
LEMMA StoreKeptBound ==
  ReviewTypeOK /\ StoredIsBound /\ [ReviewNext]_rvars => StoredIsBound'
<1> SUFFICES ASSUME ReviewTypeOK, StoredIsBound, [ReviewNext]_rvars, Stays,
                    NEW v \in reviews'
             PROVE binding'[v.key] = v
  BY WritesStay DEF StoredIsBound
<1> USE ReviewAssumption DEF ReviewTypeOK
<1>1. CASE v \in reviews
  <2>1. binding[v.key] = v /\ v.key \in ReviewKey /\ v # NoReview
    BY <1>1 DEF StoredIsBound
  <2> QED
    BY <2>1 DEF Stays
<1>2. CASE v \notin reviews
  <2>1. PICK w \in Review : StoreReview(w)
    BY <1>2 DEF ReviewNext, rvars, BeginReview, BindReview, LeaveReview, BeginClosing,
         CloseRejected, ClosingDies, BeginPromotion, PromotionStep, PublishPackage, Register,
         CompletePromotion, RecordOrigin, PromotionDies, Adjudicate, SignCandidate
  <2> QED
    BY <1>2, <2>1 DEF StoreReview
<1> QED
  BY <1>1, <1>2

\* What a promotion has behind it stays behind it, whoever takes a step.
LEMMA BehindStays ==
  ASSUME ReviewTypeOK, Stays, NEW pc, NEW v \in Review, NEW c \in CandidateKey,
         BehindIt(pc, v, c)
  PROVE  BehindIt(pc, v, c)'
<1> USE ReviewAssumption DEF ReviewTypeOK, Stays
<1> SUFFICES ASSUME pc # "idle" PROVE BehindIt(pc, v, c)'
  BY DEF BehindIt
<1>1. Approved(v) /\ Approved(v)'
  BY DEF BehindIt, Approved
<1>2. ASSUME pc # "publish" PROVE Packed(v, c)'
  BY <1>2, <1>1 DEF BehindIt, Packed, NoPackage
<1>3. ASSUME pc \in {"complete", "record"} PROVE Registered(v, c)'
  BY <1>3 DEF BehindIt, Registered, Unregistered
<1>4. ASSUME pc = "record" PROVE Completed(v, c)'
  BY <1>4 DEF BehindIt, Completed, Summary
<1> QED
  BY <1>1, <1>2, <1>3, <1>4 DEF BehindIt

\* A promotion that goes on has done the step it goes on from.
LEMMA StepsKeptBehind ==
  ReviewTypeOK /\ StepsAreBehind /\ [ReviewNext]_rvars => StepsAreBehind'
<1> SUFFICES ASSUME ReviewTypeOK, StepsAreBehind, [ReviewNext]_rvars, Stays, ReviewTypeOK',
                    NEW p \in Promoter
             PROVE BehindIt(promotion[p].pc, promotion[p].review, promotion[p].key)'
  BY WritesStay, ReviewTypes DEF StepsAreBehind
<1> DEFINE m == promotion[p]
<1> USE ReviewAssumption
<1>1. BehindIt(m.pc, m.review, m.key)
  BY DEF StepsAreBehind
<1>2. m.pc # "idle" => m.review \in Review /\ m.key \in CandidateKey
  BY DEF ReviewTypeOK, Resting
<1>3. CASE promotion'[p] = Resting
  BY <1>3 DEF BehindIt, Resting
<1>4. CASE promotion'[p] = m
  <2>1. CASE m.pc = "idle"
    BY <1>4, <2>1 DEF BehindIt
  <2>2. CASE m.pc # "idle"
    BY <1>1, <1>2, <1>4, <2>2, BehindStays DEF BehindIt, Approved, Packed, Registered, Completed
  <2> QED
    BY <2>1, <2>2
<1>5. CASE \E v \in Review, c \in CandidateKey : BeginPromotion(p, v, c)
  BY <1>5 DEF BeginPromotion, MayPromote, BehindIt, Approved, ReviewTypeOK
<1>6. ASSUME PublishPackage(p), promotion'[p] # Resting
      PROVE BehindIt(promotion[p].pc, promotion[p].review, promotion[p].key)'
  <2>1. /\ m.pc = "publish" /\ m.review \in Review /\ m.review.proposal \in Proposal
        /\ promotion'[p].pc = "register"
        /\ promotion'[p].review = m.review /\ promotion'[p].key = m.key
        /\ packages'[m.review.proposal] = [candidate |-> m.key, review |-> m.review]
        /\ reviews' = reviews
    BY <1>2, <1>6 DEF PublishPackage, Goes, Stops, ReviewTypeOK
  <2> QED
    BY <1>1, <2>1 DEF BehindIt, Approved, Packed
<1>7. ASSUME Register(p), promotion'[p] # Resting
      PROVE BehindIt(promotion[p].pc, promotion[p].review, promotion[p].key)'
  <2>1. /\ m.pc = "register"
        /\ promotion'[p].pc = "complete"
        /\ promotion'[p].review = m.review /\ promotion'[p].key = m.key
        /\ candidate'.key = m.key /\ candidate'.proposal = m.review.proposal
        /\ reviews' = reviews /\ packages' = packages
    BY <1>7 DEF Register, Goes, Stops, ReviewTypeOK
  <2> QED
    BY <1>1, <2>1 DEF BehindIt, Approved, Packed, Registered
<1>8. ASSUME CompletePromotion(p), promotion'[p] # Resting
      PROVE BehindIt(promotion[p].pc, promotion[p].review, promotion[p].key)'
  <2>1. /\ m.pc = "complete"
        /\ promotion'[p].pc = "record"
        /\ promotion'[p].review = m.review /\ promotion'[p].key = m.key
        /\ run'.state = "completed" /\ run'.evidence = Summary(m.review, m.key)
        /\ reviews' = reviews /\ packages' = packages /\ candidate' = candidate
    BY <1>8 DEF CompletePromotion, CompleteRun, ReviewCompleted, Goes, Stops, ReviewTypeOK
  <2> QED
    BY <1>1, <2>1 DEF BehindIt, Approved, Packed, Registered, Completed, Summary
<1> QED
  <2> USE DEF ReviewTypeOK
  <2>1. CASE promotion' = promotion
    BY <1>4, <2>1
  <2>2. ASSUME NEW q \in Promoter, NEW v \in Review, NEW c \in CandidateKey,
               BeginPromotion(q, v, c)
        PROVE promotion'[p] = m \/ BeginPromotion(p, v, c)
    BY <2>2 DEF BeginPromotion
  <2>3. ASSUME NEW q \in Promoter, PublishPackage(q) \/ Register(q) \/ CompletePromotion(q)
        PROVE q = p \/ promotion'[p] = m
    BY <2>3 DEF PublishPackage, Register, CompletePromotion, Goes, Stops
  <2>4. ASSUME NEW q \in Promoter, RecordOrigin(q) \/ PromotionDies(q)
        PROVE promotion'[p] = Resting \/ promotion'[p] = m
    BY <2>4 DEF RecordOrigin, PromotionDies, Stops
  <2>5. \/ promotion' = promotion
        \/ \E q \in Promoter, v \in Review, c \in CandidateKey : BeginPromotion(q, v, c)
        \/ \E q \in Promoter : PublishPackage(q) \/ Register(q) \/ CompletePromotion(q)
        \/ \E q \in Promoter : RecordOrigin(q) \/ PromotionDies(q)
    BY DEF ReviewNext, rvars, BeginReview, BindReview, StoreReview, LeaveReview, BeginClosing,
         CloseRejected, ClosingDies, PromotionStep, Adjudicate, SignCandidate
  <2> HIDE DEF ReviewTypeOK, m
  <2> QED
    BY <1>3, <1>4, <1>5, <1>6, <1>7, <1>8, <2>1, <2>2, <2>3, <2>4, <2>5

\* An origin is recorded by a promotion that has everything behind it.
LEMMA OriginKeptTraced ==
  ReviewInv /\ [ReviewNext]_rvars => OriginIsTraced'
<1> SUFFICES ASSUME ReviewInv, [ReviewNext]_rvars, Stays, origin' # Unreviewed
             PROVE \E v \in Review : Traced(v)'
  BY WritesStay DEF ReviewInv, OriginIsTraced, Unreviewed
<1> USE ReviewAssumption DEF ReviewInv
<1>1. CASE origin # Unreviewed
  <2>1. PICK v \in Review : Traced(v)
    BY <1>1 DEF OriginIsTraced
  <2>2. candidate # Unregistered /\ candidate.key \in CandidateKey
    BY <2>1 DEF Traced, Registered, Packed, Unregistered, ReviewTypeOK, Manifest, NoPackage
  <2>3. BehindIt("record", v, candidate.key)
    BY <2>1 DEF Traced, BehindIt
  <2>4. BehindIt("record", v, candidate.key)' /\ candidate'.key = candidate.key /\ origin' = origin
    BY <1>1, <2>1, <2>2 DEF Stays, Traced, BehindIt, Approved, Packed, Registered, Completed,
         ReviewTypeOK, NoPackage
  <2> QED
    BY <2>1, <2>4 DEF Traced, BehindIt, Approved, Packed, Registered, Completed, Summary
<1>2. CASE origin = Unreviewed
  <2>1. PICK p \in Promoter : RecordOrigin(p)
    BY <1>2 DEF ReviewNext, rvars, BeginReview, BindReview, StoreReview, LeaveReview,
         BeginClosing, CloseRejected, ClosingDies, BeginPromotion, PromotionStep, PublishPackage,
         Register, CompletePromotion, PromotionDies, Adjudicate, SignCandidate
  <2>2. PICK v \in Review, c \in CandidateKey :
          v = promotion[p].review /\ c = promotion[p].key
    BY <2>1 DEF RecordOrigin, ReviewTypeOK, Resting
  <2>3. BehindIt("record", v, c)
    BY <2>1, <2>2 DEF RecordOrigin, StepsAreBehind
  <2>4. origin' = Summary(v, c) /\ UNCHANGED <<run, reviews, packages, candidate>>
    BY <1>2, <2>1, <2>2 DEF RecordOrigin
  <2>5. Traced(v)'
    BY <2>3, <2>4 DEF BehindIt, Traced, Approved, Packed, Registered, Completed, Summary
  <2> QED
    BY <2>5
<1> QED
  BY <1>1, <1>2

\* Only a sign-off accepts, and it asks for the origin.
LEMMA AcceptedKept == ReviewInv /\ [ReviewNext]_rvars => AcceptedHasOrigin'
<1> SUFFICES ASSUME ReviewInv, [ReviewNext]_rvars, Stays, candidate'.state = "accepted"
             PROVE origin' # Unreviewed
  BY WritesStay DEF ReviewInv, AcceptedHasOrigin, Unreviewed
<1> USE DEF ReviewInv
<1>1. CASE candidate.state = "accepted"
  BY <1>1 DEF AcceptedHasOrigin, Stays
<1>2. CASE candidate.state # "accepted"
  <2>1. ASSUME NEW p \in Promoter, Register(p) PROVE FALSE
    BY <1>2, <2>1 DEF Register
  <2>2. ASSUME Adjudicate PROVE FALSE
    BY <2>2 DEF Adjudicate, ReviewTypeOK, Unregistered
  <2>3. ASSUME NEW d \in {"accepted", "rejected"}, SignCandidate(d) PROVE d = "accepted"
    BY <2>3 DEF SignCandidate, ReviewTypeOK, Unregistered
  <2>4. SignCandidate("accepted")
    BY <1>2, <2>1, <2>2, <2>3 DEF ReviewNext, rvars, BeginReview, BindReview, StoreReview,
         LeaveReview, BeginClosing, CloseRejected, ClosingDies, BeginPromotion, PromotionStep,
         PublishPackage, CompletePromotion, RecordOrigin, PromotionDies
  <2> QED
    BY <2>4 DEF SignCandidate, OriginBinds, Unreviewed
<1> QED
  BY <1>1, <1>2

-----------------------------------------------------------------------------
\* The inductive invariant: wherever commands die and however they overlap,
\* each promotion under way has behind it what its next step relies on.
THEOREM ReviewInvariant == ReviewSpec => []ReviewInv
<1>1. ReviewInv /\ [ReviewNext]_rvars => ReviewInv'
  BY ReviewTypes, StoreKeptBound, StepsKeptBehind, OriginKeptTraced, AcceptedKept DEF ReviewInv
<1> QED
  BY ReviewInitOK, <1>1, PTL DEF ReviewSpec

\* An idempotency key of a review stands for one review
\* (ProposalDecisionStore.publish_review).
THEOREM KeysAreReviews == ReviewSpec => []KeyIsOneReview
<1>1. ReviewInv => KeyIsOneReview
  BY DEF ReviewInv, StoredIsBound, KeyIsOneReview
<1> QED
  BY ReviewInvariant, <1>1, PTL

\* An accepted candidate is traced to the approved review, the package and
\* the run it came from (require_bw20_agent_origin_for_approval).
THEOREM AcceptedAreTraced == ReviewSpec => []AcceptedIsTraced
<1>1. ReviewInv => AcceptedIsTraced
  BY DEF ReviewInv, AcceptedHasOrigin, OriginIsTraced, Traced, Approved, Packed, Registered,
       Completed, AcceptedIsTraced
<1> QED
  BY ReviewInvariant, <1>1, PTL

\* Both at once: what reviews and promotions leave behind is one review for a
\* key and a history without a gap (publish_review, sign_off).
THEOREM ReviewsAreTraced == ReviewSpec => []ReviewsTraced
<1>1. KeyIsOneReview /\ AcceptedIsTraced => ReviewsTraced
  BY DEF ReviewsTraced
<1> QED
  BY KeysAreReviews, AcceptedAreTraced, <1>1, PTL
=============================================================================
