----------------------------- MODULE FormalStart -----------------------------
(***************************************************************************)
(* FormalStart: the intent to start a formal round from a plan that an     *)
(* operator has previewed.  The intent waits for two authorities, one of   *)
(* the execution (B) and one of the evaluation (D), which are published in *)
(* a store of their own, and is ready once both are verified.  Nothing of  *)
(* the round is created in this slice.                                     *)
(*                                                                         *)
(* Every call reads the clock first and uses that moment for all it does.  *)
(* Between its reads and its one write other calls run: the write locks    *)
(* the row, the reads do not.                                              *)
(*                                                                         *)
(* There is one preview, so there is at most one intent: preview_id is     *)
(* unique.  Which signer signs what, and the comparison of the authorities *)
(* with the plan, are the verdict of an authority, fixed with its content. *)
(* A call that fails the actor's assertion or the ownership of the intent  *)
(* changes nothing and is not modelled.                                    *)
(***************************************************************************)
EXTENDS Integers

CONSTANTS
    Clerk,        \* calls that may be under way
    StartKey,     \* idempotency keys of create requests
    LastMoment,   \* bound: the clock stops here
    PreviewEnds,  \* preview.expires_at
    Validity,     \* [from, until] of each authority: issued_at and expires_at
    NoIntent, NoTime

Start_Authority == {"execution", "evaluation"}
Moment == 0 .. LastMoment

VARIABLES
    clock,        \* what the control planes' clocks show
    drifted,      \* has the plan ever been found to differ from the preview?
    store,        \* what the object store has of each authority
    wish,         \* the row of formal_operator_start_intents
    clerk         \* clerk[p]: the step of a call, its moment and what it has read

fsvars == <<clock, drifted, store, wish, clerk>>

IntentRow ==
    [state : {"awaiting_authority", "ready_for_round_creation", "failed", "cancelled"},
     key : StartKey, error : {"none", "plan_invalid", "authority_invalid"},
     created : Moment, updated : Moment,
     reconciled : Moment \cup {NoTime}, ready : Moment \cup {NoTime},
     cancelled : Moment \cup {NoTime}]

ASSUME MomentsAssumption ==
    /\ LastMoment \in Nat /\ PreviewEnds \in Int
    /\ Validity \in [Start_Authority -> [from : Int, until : Int]]
ASSUME NoIntentAssumption == NoIntent \notin IntentRow

AtEase == [step |-> "idle", key |-> "none", now |-> 0, missing |-> FALSE, verdict |-> "none"]

\* What a published authority is worth: it verifies, it does not parse, or it
\* parses and its signature or one of its bindings is wrong.
Worth == {"good", "malformed", "unsigned"}

FormalStartInit ==
    /\ clock = 0
    /\ drifted = FALSE
    /\ store = [a \in Start_Authority |-> "absent"]
    /\ wish = NoIntent
    /\ clerk = [p \in Clerk |-> AtEase]

GoTo(p, step)      == clerk' = [clerk EXCEPT ![p].step = step]
Decide(p, verdict) == clerk' = [clerk EXCEPT ![p].step = "record", ![p].verdict = verdict,
                                           ![p].missing = FALSE]
Found(p)           == clerk' = [clerk EXCEPT ![p].step = "read", ![p].key = "none"]
Reply(p)           == clerk' = [clerk EXCEPT ![p] = AtEase]

FormalEnded == {"cancelled", "failed"}

\* FormalStartIntentView refuses a row whose times are out of order, whoever
\* reads it: the row is there but no call can load it any more.
InOrder(row) ==
    /\ row.created <= row.updated
    /\ \A t \in {row.reconciled, row.ready, row.cancelled} \ {NoTime} :
          row.created <= t /\ t <= row.updated

-----------------------------------------------------------------------------
(* The calls.                                                              *)

Begin(p, step, k) ==
    /\ clerk[p].step = "idle"
    /\ clerk' = [clerk EXCEPT ![p] = [AtEase EXCEPT !.step = step, !.key = k, !.now = clock]]
    /\ UNCHANGED <<clock, drifted, store, wish>>

BeginCreate(p, k) == Begin(p, "look", k)

\* A reconcile request; recover does the same for every intent it lists.
BeginReconcile(p) == wish # NoIntent /\ Begin(p, "read", "none")

\* cancel loads the intent first, then cancels it in a transaction.
BeginCancel(p) == wish # NoIntent /\ InOrder(wish) /\ Begin(p, "cancel", "none")

\* get_formal_start_intent_by_idempotency, and the preview if there is none.
LookUp(p) ==
    /\ clerk[p].step = "look"
    /\ IF wish # NoIntent /\ wish.key = clerk[p].key
       THEN IF InOrder(wish) THEN Found(p) ELSE Reply(p)
       ELSE IF clerk[p].now < PreviewEnds THEN GoTo(p, "insert") ELSE Reply(p)
    /\ UNCHANGED <<clock, drifted, store, wish>>

\* INSERT ... ON CONFLICT DO NOTHING: the call that comes second goes on with
\* the row of the first when it is its own request, and is refused otherwise.
Insert(p) ==
    /\ clerk[p].step = "insert"
    /\ \/ /\ wish = NoIntent
          /\ wish' = [state |-> "awaiting_authority", key |-> clerk[p].key, error |-> "none",
                      created |-> clerk[p].now, updated |-> clerk[p].now,
                      reconciled |-> NoTime, ready |-> NoTime, cancelled |-> NoTime]
          /\ Found(p)
       \/ /\ wish # NoIntent
          /\ IF wish.key = clerk[p].key /\ InOrder(wish) THEN Found(p) ELSE Reply(p)
          /\ UNCHANGED wish
    /\ UNCHANGED <<clock, drifted, store>>

\* _reconcile begins with the row; an intent that has ended is the answer.
ReadIntent(p) ==
    /\ clerk[p].step = "read"
    /\ IF InOrder(wish) /\ wish.state \notin FormalEnded THEN GoTo(p, "plan") ELSE Reply(p)
    /\ UNCHANGED <<clock, drifted, store, wish>>

\* The preview's expiry, then compiler.revalidate: profiles are revoked,
\* authorizations start and end, candidates change, so it may say anything.
CheckPlan(p) ==
    /\ clerk[p].step = "plan"
    /\ \/ clerk[p].now >= PreviewEnds /\ Decide(p, "plan_invalid") /\ UNCHANGED drifted
       \/ /\ clerk[p].now < PreviewEnds
          /\ \/ Decide(p, "plan_invalid") /\ drifted' = TRUE
             \/ Decide(p, "awaiting") /\ UNCHANGED drifted
             \/ GoTo(p, "execution") /\ UNCHANGED drifted
    /\ UNCHANGED <<clock, store, wish>>

\* One authority that is missing does not keep the other from being loaded,
\* one that cannot be parsed does.
LoadAuthority(p, a) ==
    /\ clerk[p].step = a
    /\ IF store[a] = "malformed" THEN Decide(p, "authority_invalid")
       ELSE clerk' = [clerk EXCEPT ![p].step = IF a = "execution" THEN "evaluation" ELSE "verify",
                                   ![p].missing = @ \/ store[a] = "absent"]
    /\ UNCHANGED <<clock, drifted, store, wish>>

\* Mutant: an authority counts until its expiry, whenever it was issued, and
\* the moment of its expiry still counts.
Verified_Late(a, now) == store[a] = "good" /\ now <= Validity[a].until

Verified(a, now) ==
    store[a] = "good" /\ Validity[a].from <= now /\ now < Validity[a].until

VerifyAuthorities(p) ==
    /\ clerk[p].step = "verify"
    /\ Decide(p, IF clerk[p].missing THEN "awaiting"
                 ELSE IF \A a \in Start_Authority : Verified(a, clerk[p].now) THEN "ready"
                 ELSE "authority_invalid")
    /\ UNCHANGED <<clock, drifted, store, wish>>

\* Mutant: the row is written whatever has happened to it since it was read.
Record_Blind(p) ==
    /\ clerk[p].step = "record"
    /\ LET now == clerk[p].now  verdict == clerk[p].verdict IN
       IF now < wish.created THEN UNCHANGED wish
       ELSE wish' = [wish EXCEPT
              !.state = CASE verdict = "awaiting" -> "awaiting_authority"
                          [] verdict = "ready"    -> "ready_for_round_creation"
                          [] OTHER                -> "failed",
              !.error = IF verdict \in {"awaiting", "ready"} THEN "none" ELSE verdict,
              !.updated = now, !.reconciled = now,
              !.ready = IF verdict = "ready" THEN now ELSE NoTime]
    /\ Reply(p)
    /\ UNCHANGED <<clock, drifted, store>>

\* record_formal_start_reconciliation: it leaves an intent alone that has
\* ended meanwhile, and the table refuses a moment before created_at.
Record(p) ==
    /\ clerk[p].step = "record"
    /\ LET now == clerk[p].now  verdict == clerk[p].verdict IN
       IF wish.state \in FormalEnded \/ now < wish.created THEN UNCHANGED wish
       ELSE wish' = [wish EXCEPT
              !.state = CASE verdict = "awaiting" -> "awaiting_authority"
                          [] verdict = "ready"    -> "ready_for_round_creation"
                          [] OTHER                -> "failed",
              !.error = IF verdict \in {"awaiting", "ready"} THEN "none" ELSE verdict,
              !.updated = now, !.reconciled = now,
              !.ready = IF verdict = "ready" THEN now ELSE NoTime]
    /\ Reply(p)
    /\ UNCHANGED <<clock, drifted, store>>

\* cancel_formal_start_intent: last_reconciled_at stays as it is.
CancelIntent(p) ==
    /\ clerk[p].step = "cancel"
    /\ IF wish.state \in FormalEnded \/ clerk[p].now < wish.created THEN UNCHANGED wish
       ELSE wish' = [wish EXCEPT !.state = "cancelled", !.ready = NoTime,
                                 !.updated = clerk[p].now, !.cancelled = clerk[p].now]
    /\ Reply(p)
    /\ UNCHANGED <<clock, drifted, store>>

\* A control plane dies, or an error ends the call.
Abandon(p) ==
    /\ clerk[p].step # "idle" /\ Reply(p)
    /\ UNCHANGED <<clock, drifted, store, wish>>

-----------------------------------------------------------------------------
(* The rest of the world.                                                  *)

Tick ==
    /\ clock < LastMoment /\ clock' = clock + 1
    /\ UNCHANGED <<drifted, store, wish, clerk>>

\* The store is addressed by content: what it has never changes.
PublishAuthority(a, w) ==
    /\ store[a] = "absent" /\ store' = [store EXCEPT ![a] = w]
    /\ UNCHANGED <<clock, drifted, wish, clerk>>

FormalStartNext ==
    \/ \E p \in Clerk :
          \/ \E k \in StartKey : BeginCreate(p, k)
          \/ BeginReconcile(p) \/ BeginCancel(p)
          \/ LookUp(p) \/ Insert(p) \/ ReadIntent(p) \/ CheckPlan(p)
          \/ \E a \in Start_Authority : LoadAuthority(p, a)
          \/ VerifyAuthorities(p) \/ Record(p) \/ CancelIntent(p) \/ Abandon(p)
    \/ Tick
    \/ \E a \in Start_Authority, w \in Worth : PublishAuthority(a, w)

FormalStartSpec == FormalStartInit /\ [][FormalStartNext]_fsvars

-----------------------------------------------------------------------------
(* What must hold.                                                         *)

\* Whatever calls overlap, a verdict in the row is one the world has earned:
\* ready_at is a moment at which the preview stood and both authorities were
\* valid, and an intent has failed only for a plan that had expired or drifted
\* or for an authority that was wrong or not valid then (_reconcile).  A row
\* that nobody has cancelled can always be read again.
StartVerdictStands ==
    wish # NoIntent =>
       /\ wish.state = "ready_for_round_creation" =>
             /\ wish.ready < PreviewEnds
             /\ \A a \in Start_Authority :
                   /\ store[a] = "good"
                   /\ Validity[a].from <= wish.ready /\ wish.ready < Validity[a].until
       /\ wish.error = "plan_invalid" =>
             wish.updated >= PreviewEnds \/ drifted
       /\ wish.error = "authority_invalid" =>
             \E a \in Start_Authority :
                \/ store[a] \in Worth \ {"good"}
                \/ wish.updated \notin Validity[a].from .. Validity[a].until - 1
       /\ wish.state # "cancelled" => InOrder(wish)

\* What an operator has cancelled, or a check has failed, stays so: no call
\* that read the intent before can bring it back (the row lock of
\* record_formal_start_reconciliation and cancel_formal_start_intent).
StartEndsForGood ==
    [][wish # NoIntent /\ wish.state \in FormalEnded => wish' = wish]_fsvars
=============================================================================
