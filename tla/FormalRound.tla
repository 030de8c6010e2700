----------------------------- MODULE FormalRound -----------------------------
(***************************************************************************)
(* FormalRound: a formal search round from its frozen artifacts to the     *)
(* evidence that a human is asked to sign.  Its transactions are others    *)
(* than those of a scripted round: an authority context is sealed first,   *)
(* and every later row binds it.  The budget is the same, and goes on      *)
(* taking reservations while the round awaits its sign-off.                *)
(*                                                                         *)
(* Each transaction locks the search_rounds row.  Replays and refusals     *)
(* change nothing.  How a phase failed, and what its documents say, is     *)
(* not modelled; nothing cancels a formal round.                           *)
(***************************************************************************)
EXTENDS Integers

CONSTANTS
    Finalist,    \* members of the frozen family
    Charge,      \* ids of budget reservations
    Nothing

VARIABLES
    formal,      \* the search_rounds row, its task and the members' states
    record,      \* the rows of the formal tables
    account,     \* reservations; their entries in the ledger follow from them
    bundle       \* the ledger that an evidence bundle has been built from

roundRows == <<formal, record, account, bundle>>

Ledger     == [Charge -> {"absent", "reserved", "settled", "released"}]
SearchRow  == [measured : SUBSET Finalist, promoted : SUBSET Finalist]
HoldoutRow == [family : SUBSET Finalist, measured : SUBSET Finalist, same : BOOLEAN]
EvidenceRow ==
    [artifacts : SUBSET Finalist, search : SearchRow,
     reveal : {Nothing} \cup SUBSET Finalist, holdout : {Nothing} \cup HoldoutRow,
     comparison : {Nothing} \cup SUBSET Finalist, ledger : Ledger]

ASSUME NothingAssumption ==
    /\ \A family \in SUBSET Finalist : family # Nothing
    /\ Nothing \notin SearchRow /\ Nothing \notin HoldoutRow /\ Nothing \notin EvidenceRow

Artifacts == {o \in Finalist : formal.members[o] # "build_failed"}
Open(ledger) == {r \in Charge : ledger[r] = "reserved"}

FormalRoundInit ==
    /\ \E built \in SUBSET Finalist :
          formal = [round |-> "correctness", task |-> "created", promoted |-> {},
                    members |-> [o \in Finalist |-> IF o \in built THEN "built"
                                                                   ELSE "build_failed"]]
    /\ record = [context |-> Nothing, search |-> Nothing, reveal |-> Nothing,
                 holdout |-> Nothing, comparison |-> Nothing, evidence |-> Nothing]
    /\ account = [r \in Charge |-> "absent"]
    /\ bundle = Nothing

-----------------------------------------------------------------------------
(* The measurements.                                                       *)

\* record_formal_authority_context, with its trigger: the artifacts are frozen.
SealContext ==
    /\ record.context = Nothing
    /\ formal.round = "correctness"
    /\ record' = [record EXCEPT !.context = Artifacts]
    /\ UNCHANGED <<formal, account, bundle>>

\* record_formal_barrier for the search: every member with a terminal, and any
\* of those measured promoted.
CloseFormalSearch(measured, promoted) ==
    /\ record.context # Nothing /\ record.search = Nothing
    /\ formal.round = "correctness"
    /\ measured \subseteq Artifacts /\ promoted \subseteq measured
    /\ formal' = [formal EXCEPT !.round = "search_barrier", !.promoted = promoted,
                    !.members = [o \in Finalist |->
                                   IF o \in measured THEN "search_measured"
                                   ELSE IF o \in Artifacts THEN "search_failed" ELSE @[o]]]
    /\ record' = [record EXCEPT !.search = [measured |-> measured, promoted |-> promoted]]
    /\ UNCHANGED <<account, bundle>>

\* record_formal_holdout_reveal
RevealFormalHoldout ==
    /\ record.search # Nothing /\ record.reveal = Nothing
    /\ formal.round = "search_barrier"
    /\ record.search.promoted # {} /\ record.search.promoted = formal.promoted
    /\ formal' = [formal EXCEPT !.round = "holdout_measuring"]
    /\ record' = [record EXCEPT !.reveal = formal.promoted]
    /\ UNCHANGED <<account, bundle>>

\* record_formal_barrier for the holdout.  The correctness evidence that it
\* names for its members need not be that of the search.
CloseFormalHoldout(measured, sameCorrectness) ==
    /\ record.search # Nothing /\ record.reveal # Nothing /\ record.holdout = Nothing
    /\ formal.round = "holdout_measuring"
    /\ measured \subseteq record.search.promoted
    /\ record.search.promoted = formal.promoted /\ record.reveal = formal.promoted
    /\ formal' = [formal EXCEPT !.round = "holdout_barrier",
                    !.members = [o \in Finalist |->
                                   IF o \notin formal.promoted THEN @[o]
                                   ELSE IF o \in measured THEN "holdout_measured"
                                                          ELSE "holdout_failed"]]
    /\ record' = [record EXCEPT !.holdout = [family |-> formal.promoted, measured |-> measured,
                                             same |-> sameCorrectness]]
    /\ UNCHANGED <<account, bundle>>

\* record_formal_multiple_comparison: the round's state stays.
RecordFormalComparison ==
    /\ record.holdout # Nothing /\ record.comparison = Nothing
    /\ formal.round = "holdout_barrier"
    /\ record.holdout.family = formal.promoted
    /\ record' = [record EXCEPT !.comparison = formal.promoted]
    /\ UNCHANGED <<formal, account, bundle>>

-----------------------------------------------------------------------------
(* The budget, and the evidence.                                           *)

\* reserve_round_budget, for a job of the task that is queued.  A round that
\* awaits its sign-off is not excluded.
ReserveFormal(r) ==
    /\ account[r] = "absent"
    /\ formal.round \notin {"completed", "rejected"}
    /\ account' = [account EXCEPT ![r] = "reserved"]
    /\ UNCHANGED <<formal, record, bundle>>

\* finalize_round_budget, in any state of the round.
EndFormalCharge(r, end) ==
    /\ account[r] = "reserved"
    /\ account' = [account EXCEPT ![r] = end]
    /\ UNCHANGED <<formal, record, bundle>>

\* The bundle is put together outside of a transaction, from the ledger as its
\* author has read it.
BuildBundle ==
    /\ record.search # Nothing /\ record.evidence = Nothing
    /\ bundle' = account
    /\ UNCHANGED <<formal, record, account>>

\* The two paths on which a formal round comes to its end.
FormalPath ==
    IF record.search.promoted = {}
    THEN /\ formal.round = "search_barrier"
         /\ record.reveal = Nothing /\ record.holdout = Nothing /\ record.comparison = Nothing
    ELSE /\ formal.round = "holdout_barrier"
         /\ record.reveal # Nothing /\ record.holdout # Nothing /\ record.comparison # Nothing
         /\ record.holdout.same

AwaitSignoff ==
    /\ record' = [record EXCEPT !.evidence =
                    [artifacts |-> record.context, search |-> record.search,
                     reveal |-> record.reveal, holdout |-> record.holdout,
                     comparison |-> record.comparison, ledger |-> bundle]]
    /\ formal' = [formal EXCEPT !.round = "awaiting_signoff", !.task = "awaiting_signoff"]
    /\ UNCHANGED <<account, bundle>>

\* Mutant: the hash of the ledger is compared, open reservations are not asked for.
FinalizeFormalRound_Open ==
    /\ record.evidence = Nothing /\ record.search # Nothing
    /\ FormalPath
    /\ bundle = account
    /\ AwaitSignoff

\* finalize_formal_search_round: the rows are read again, the budget is closed,
\* and the ledger is the one that the bundle has hashed.
FinalizeFormalRound ==
    /\ record.evidence = Nothing /\ record.search # Nothing
    /\ FormalPath
    /\ Open(account) = {}
    /\ bundle = account
    /\ AwaitSignoff

FormalRoundNext ==
    \/ SealContext
    \/ \E measured, promoted \in SUBSET Finalist : CloseFormalSearch(measured, promoted)
    \/ RevealFormalHoldout
    \/ \E measured \in SUBSET Finalist, same \in BOOLEAN : CloseFormalHoldout(measured, same)
    \/ RecordFormalComparison
    \/ \E r \in Charge : \/ ReserveFormal(r)
                         \/ \E end \in {"settled", "released"} : EndFormalCharge(r, end)
    \/ BuildBundle
    \/ FinalizeFormalRound

-----------------------------------------------------------------------------

\* What a human is asked to sign stands: the evidence shows one chain of rows
\* over the family that was sealed, which are still those on record and agree
\* with the members, and a closed account; nothing that it accounts for
\* changes any more.  Only what is reserved while the round awaits its
\* sign-off is not in it.
FormalEvidenceStands ==
    record.evidence # Nothing =>
      LET e == record.evidence
      IN /\ e.artifacts = Artifacts
         /\ e.search = record.search /\ e.holdout = record.holdout
         /\ e.search.measured \subseteq e.artifacts
         /\ e.search.promoted = formal.promoted
         /\ IF formal.promoted = {} THEN e.holdout = Nothing /\ e.comparison = Nothing
            ELSE /\ e.reveal = formal.promoted /\ e.holdout.family = formal.promoted
                 /\ e.comparison = formal.promoted
         /\ \A o \in Finalist : formal.members[o] = "holdout_measured" <=>
                                  e.holdout # Nothing /\ o \in e.holdout.measured
         /\ \A r \in Charge : e.ledger[r] # "absent" => account[r] = e.ledger[r]
=============================================================================
