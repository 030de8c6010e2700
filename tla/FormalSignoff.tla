---------------------------- MODULE FormalSignoff ----------------------------
(***************************************************************************)
(* FormalSignoff: the end of a formal round.  Its evidence is frozen, a    *)
(* human decision is frozen in an intent with an outbox row, a publisher   *)
(* signs the decision into a store of immutable files, the outbox notes    *)
(* which file it was, and the decision is committed to the round and its   *)
(* task after the file has been read back.  Publishers may die between any *)
(* two of these steps, and another one starts over.                        *)
(*                                                                         *)
(* The round up to its evidence is FormalRound.  The verifier trusts every *)
(* key that has signed.                                                    *)
(***************************************************************************)
EXTENDS FormalRound

CONSTANTS
    Publisher,   \* processes that carry a decision to its end
    Key          \* keys that a decision may be signed with

VARIABLES
    signIntent,  \* the row of formal_round_signoff_intents
    outbox,      \* the row of formal_round_signoff_outbox
    signoff,     \* the artifact of the row of formal_round_signoffs
    store,       \* artifacts in the evidence store
    publication  \* publication[p]: the artifact that p speaks of

signVars == <<roundRows, signIntent, outbox, signoff, store, publication>>

Decision == {"approved", "rejected"}
Artifact == [decision : Decision, key : Key]

ASSUME NoArtifactAssumption == Nothing \notin Artifact

SignInit ==
    /\ FormalRoundInit
    /\ signIntent = [state |-> "absent", decision |-> Nothing]
    /\ outbox = [state |-> "absent", artifact |-> Nothing]
    /\ signoff = Nothing
    /\ store = {}
    /\ publication = [p \in Publisher |-> Nothing]

\* create_formal_round_signoff_intent: the first decision is the decision.
CreateSignIntent(d) ==
    /\ signIntent.state = "absent"
    /\ formal.round = "awaiting_signoff" /\ formal.task = "awaiting_signoff"
    /\ record.evidence # Nothing
    /\ signIntent' = [state |-> "preparing", decision |-> d]
    /\ outbox' = [outbox EXCEPT !.state = "pending"]
    /\ UNCHANGED <<roundRows, signoff, store, publication>>

\* LocalFormalSignoffArtifactPublisher.publish, whatever the outbox says by
\* now: a file that is there already is left as it is.
Publish(p, k) ==
    /\ publication[p] = Nothing
    /\ signIntent.state # "absent"
    /\ LET a == [decision |-> signIntent.decision, key |-> k]
       IN store' = store \cup {a} /\ publication' = [publication EXCEPT ![p] = a]
    /\ UNCHANGED <<roundRows, signIntent, outbox, signoff>>

\* A process that has been started again goes on with what the outbox names.
ReadOutbox(p) ==
    /\ publication[p] = Nothing
    /\ outbox.artifact # Nothing
    /\ publication' = [publication EXCEPT ![p] = outbox.artifact]
    /\ UNCHANGED <<roundRows, signIntent, outbox, signoff, store>>

\* A process dies, or gives up after a refusal.
DropPublication(p) ==
    /\ publication[p] # Nothing
    /\ publication' = [publication EXCEPT ![p] = Nothing]
    /\ UNCHANGED <<roundRows, signIntent, outbox, signoff, store>>

\* Mutant: other bytes replace those that have been published.
RecordArtifact_Replace(p) ==
    /\ publication[p] # Nothing
    /\ outbox.state # "absent"
    /\ outbox' = [state |-> "artifact_published", artifact |-> publication[p]]
    /\ signIntent' = [signIntent EXCEPT !.state = "artifact_published"]
    /\ UNCHANGED <<roundRows, signoff, store, publication>>

\* record_formal_round_signoff_artifact, the first time.
RecordArtifact(p) ==
    /\ publication[p] # Nothing
    /\ signIntent.state = "preparing" /\ outbox.state = "pending"
    /\ outbox' = [state |-> "artifact_published", artifact |-> publication[p]]
    /\ signIntent' = [signIntent EXCEPT !.state = "artifact_published"]
    /\ UNCHANGED <<roundRows, signoff, store, publication>>

\* M2FormalRoundSignoffFinalizer.verify reads the bytes back.
Authentic(a) == a \in store /\ a.decision = signIntent.decision

\* What finalize_formal_round_signoff asks for before it writes.
Finalizable(a) ==
    /\ signIntent.state = "artifact_published" /\ outbox.state = "artifact_published"
    /\ a = outbox.artifact /\ Authentic(a)
    /\ signoff = Nothing
    /\ formal.round = "awaiting_signoff" /\ formal.task = "awaiting_signoff"

FinalizeSignoff(p) ==
    /\ publication[p] # Nothing
    /\ Finalizable(publication[p])
    /\ signoff' = publication[p]
    /\ signIntent' = [signIntent EXCEPT !.state = "finalized"]
    /\ outbox' = [outbox EXCEPT !.state = "finalized"]
    /\ formal' = LET end == IF signIntent.decision = "approved" THEN "completed" ELSE "rejected"
                 IN [formal EXCEPT !.round = end, !.task = end]
    /\ UNCHANGED <<record, account, bundle, store, publication>>

SignNext ==
    \/ FormalRoundNext /\ UNCHANGED <<signIntent, outbox, signoff, store, publication>>
    \/ \E d \in Decision : CreateSignIntent(d)
    \/ \E p \in Publisher :
          \/ \E k \in Key : Publish(p, k)
          \/ ReadOutbox(p) \/ DropPublication(p)
          \/ RecordArtifact(p) \/ FinalizeSignoff(p)

SignSpec == SignInit /\ [][SignNext]_signVars

-----------------------------------------------------------------------------

\* reconcile_formal_round_signoff
SignoffAction ==
    CASE signoff # Nothing                   -> "complete"
      [] signIntent.state = "absent"         -> IF formal.round = "awaiting_signoff"
                                                THEN "create_intent" ELSE "not_signable"
      [] outbox.state = "pending"            -> "publish_artifact"
      [] outbox.state = "artifact_published" -> "finalize_signoff"
      [] OTHER                               -> "manual_review"

\* Whatever died, a round is signed with the bytes that the outbox names, they
\* are in the store and say what the human decided, round and task are where
\* that decision leads, and until then the audit names a step that the rows
\* allow: it never gives up, nor asks for what would be refused.
SignoffAudited ==
    /\ SignoffAction # "manual_review"
    /\ SignoffAction = "finalize_signoff" => Finalizable(outbox.artifact)
    /\ SignoffAction \in {"create_intent", "publish_artifact"} =>
           formal.task = "awaiting_signoff"
    /\ formal.round \in {"completed", "rejected"} <=> signoff # Nothing
    /\ signoff # Nothing =>
           /\ signoff = outbox.artifact /\ Authentic(signoff)
           /\ formal.round = formal.task
           /\ formal.round = "completed" <=> signoff.decision = "approved"
=============================================================================
