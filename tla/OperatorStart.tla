---------------------------- MODULE OperatorStart ----------------------------
(***************************************************************************)
(* OperatorStart: the start of a scripted round from a plan that an        *)
(* operator has previewed.  The start is a saga: every step is a           *)
(* transaction on the round and another one that notes in the StartIntent  *)
(* that it has been done.  Any number of start and reconcile requests work *)
(* on the same intent, and each may die between two transactions.  The     *)
(* round itself is the one of SearchRound, whose routes are open to other  *)
(* clients at the same time.                                               *)
(*                                                                         *)
(* The preview, its checks and its expiry, and the frozen plan authority   *)
(* (a function of the round's id and the deployment's key) are not         *)
(* modelled: a request that fails them changes nothing.  A plan has at     *)
(* most four members, so the eight steps of one reconcile are enough and   *)
(* are not counted.                                                        *)
(***************************************************************************)
EXTENDS Integers

CONSTANTS
    Declared,     \* members of the plan
    Candidate,    \* candidates that anyone may submit
    Plan,         \* the candidate of each member, frozen with the preview
    Reconciler,   \* requests that may be under way
    None

VARIABLES
    intent,       \* the row of operator_start_intents
    request,      \* request[p]: what a request does next, and what it has read
    fit,          \* does the authority that the plan is bound to exist?
    taken         \* candidates whose rows belong to other rounds

VARIABLES round, task, members, search, revealed, holdout, comparison, evidence,
          draft, reservations, ledger, jobs

\* The round.  Nothing that concerns its start depends on its budget or jobs.
Round == INSTANCE SearchRound
         WITH MaxPromoted <- 1, Reservation <- {}, Job <- {},
              MaxAttempts <- 0, Budget <- 0, MaxActual <- 0

roundVars == <<round, task, members, search, revealed, holdout, comparison,
               evidence, draft, reservations, ledger, jobs>>
startVars == <<intent, request, fit, taken, roundVars>>

Member == 0 .. Declared - 1

\* The candidates of a plan are different ones, and a null column is none of
\* the values that the column may hold.
ASSUME PlanAssumption ==
    /\ Declared \in Nat \ {0}
    /\ Plan \in [Member -> Candidate]
    /\ \A o, q \in Member : Plan[o] = Plan[q] => o = q
ASSUME NullAssumption ==
    /\ None \notin Candidate \cup Member
    /\ None \notin Round!MemberRow
    /\ None \notin [Member -> Candidate]
    /\ None \notin [Member -> Round!BuildTerminal \cup {None}]

Idle   == [step |-> "idle", member |-> None, family |-> None]

StartInit ==
    /\ Round!Init
    /\ intent  = [state |-> "absent", members |-> [o \in Member |-> "pending"],
                  family |-> None]
    /\ request = [p \in Reconciler |-> Idle]
    /\ fit \in BOOLEAN
    /\ taken \in SUBSET Candidate

Goto(p, step) == request' = [request EXCEPT ![p].step = step]

\* An exception, or the answer: the request is over.
Leave(p) == request' = [request EXCEPT ![p] = Idle]

-----------------------------------------------------------------------------
(* The steps of a request.                                                 *)

\* start creates the intent once, whoever comes first; a replay, and
\* reconcile, go on with the one that exists unless it is over.
BeginStart(p) ==
    /\ request[p].step = "idle"
    /\ intent.state \notin {"finalized", "failed"}
    /\ intent' = IF intent.state = "absent" THEN [intent EXCEPT !.state = "preparing"]
                                            ELSE intent
    /\ Goto(p, "plans")
    /\ UNCHANGED <<fit, taken, roundVars>>

\* record_operator_start_plans: later requests freeze the same plans again.
FreezePlans(p) ==
    /\ request[p].step = "plans"
    /\ intent' = IF intent.state = "preparing" THEN [intent EXCEPT !.state = "plans_frozen"]
                                               ELSE intent
    /\ Goto(p, "read")
    /\ UNCHANGED <<fit, taken, roundVars>>

Pending == {o \in Member : intent.members[o] = "pending"}

\* The loop of reconcile reads the intent and picks the step it asks for.
ReadIntent(p) ==
    /\ request[p].step = "read"
    /\ \/ intent.state \in {"finalized", "failed"} /\ Leave(p)
       \/ intent.state = "plans_frozen" /\ Goto(p, "create")
       \/ /\ intent.state = "round_created"
          /\ \E o \in Pending :
                /\ \A q \in Pending : o <= q
                /\ request' = [request EXCEPT ![p].step = "add", ![p].member = o]
       \/ intent.state = "round_created" /\ Pending = {} /\ Goto(p, "close")
       \/ intent.state = "intake_closed" /\ Goto(p, "finalize")
    /\ UNCHANGED <<intent, fit, taken, roundVars>>

\* create_search_round, or its replay, which is answered in any state.
CreateRound(p) ==
    /\ request[p].step = "create"
    /\ IF ~ fit THEN UNCHANGED roundVars /\ Goto(p, "fail")
       ELSE /\ \/ Round!CreateSearchRound
               \/ round.state # "absent" /\ UNCHANGED roundVars
            /\ Goto(p, "created")
    /\ UNCHANGED <<intent, fit, taken>>

\* _advance_operator_start_state: an intent that is further on stays.
RecordRoundCreated(p) ==
    /\ request[p].step = "created"
    /\ intent' = IF intent.state = "plans_frozen"
                 THEN [intent EXCEPT !.state = "round_created"] ELSE intent
    /\ IF intent.state = "failed" THEN Leave(p) ELSE Goto(p, "read")
    /\ UNCHANGED <<fit, taken, roundVars>>

\* The member that add_round_candidate finds is the one it was asked for.
Bound(o) == members[o] # None /\ members[o].candidate = Plan[o]

\* Is there a member with this identity, or with part of it?
Known(o) == \E q \in Member : /\ members[q] # None
                              /\ q = o \/ members[q].candidate = Plan[o]

\* Mutant: a member that is there already is taken for somebody else's.
AddMember_NoReplay(p) ==
    /\ request[p].step = "add"
    /\ LET o == request[p].member
           Free == ~ Known(o) /\ round.state = "intake_open" /\ Plan[o] \notin taken
       IN \/ Free /\ Round!AddRoundCandidate(o, Plan[o]) /\ Goto(p, "added")
          \/ ~ Free /\ UNCHANGED roundVars /\ Goto(p, "fail")
    /\ UNCHANGED <<intent, fit, taken>>

\* add_round_candidate: a new member while the intake is open, a replay in any
\* state, or a Conflict.
AddMember(p) ==
    /\ request[p].step = "add"
    /\ LET o == request[p].member
           Free == ~ Known(o) /\ round.state = "intake_open" /\ Plan[o] \notin taken
       IN \/ Free /\ Round!AddRoundCandidate(o, Plan[o]) /\ Goto(p, "added")
          \/ Bound(o) /\ UNCHANGED roundVars /\ Goto(p, "added")
          \/ ~ Free /\ ~ Bound(o) /\ UNCHANGED roundVars /\ Goto(p, "fail")
    /\ UNCHANGED <<intent, fit, taken>>

\* record_operator_start_member_bound
RecordMemberBound(p) ==
    /\ request[p].step = "added"
    /\ LET o == request[p].member
           Open == intent.state = "round_created" /\ intent.members[o] = "pending"
       IN /\ intent' = IF Open THEN [intent EXCEPT !.members[o] = "round_member_bound"]
                               ELSE intent
          /\ IF Open \/ intent.members[o] = "round_member_bound"
             THEN Goto(p, "read") ELSE Leave(p)
    /\ UNCHANGED <<fit, taken, roundVars>>

\* close_search_round_intake.  Its replay is answered only as long as no
\* member has been built.
CloseFamily(p) ==
    /\ request[p].step = "close"
    /\ LET Whole == Round!Complete
                    /\ \A o \in Member : members[o].state = "intake_accepted"
           Replay == Whole /\ round.family = Round!CandidateFamily
           Closed == request' = [request EXCEPT ![p].step = "closed",
                                                ![p].family = Round!CandidateFamily]
       IN \/ Round!CloseIntake /\ Closed
          \/ round.state # "intake_open" /\ Replay /\ Closed /\ UNCHANGED roundVars
          \/ /\ ~ Whole \/ (round.state # "intake_open" /\ ~ Replay)
             /\ Goto(p, "fail") /\ UNCHANGED roundVars
    /\ UNCHANGED <<intent, fit, taken>>

\* record_operator_start_intake_closed
RecordIntakeClosed(p) ==
    /\ request[p].step = "closed"
    /\ LET All == intent.state = "round_created"
                  /\ \A o \in Member : intent.members[o] = "round_member_bound"
           Same == /\ intent.state \in {"intake_closed", "finalized"}
                   /\ intent.family = request[p].family
       IN /\ intent' = IF All THEN [intent EXCEPT !.state = "intake_closed",
                                                  !.family = request[p].family]
                              ELSE intent
          /\ IF All \/ Same THEN Goto(p, "read") ELSE Leave(p)
    /\ UNCHANGED <<fit, taken, roundVars>>

\* finalize_operator_start_intent
FinalizeIntent(p) ==
    /\ request[p].step = "finalize"
    /\ intent' = IF intent.state = "intake_closed" THEN [intent EXCEPT !.state = "finalized"]
                                                   ELSE intent
    /\ Leave(p)
    /\ UNCHANGED <<fit, taken, roundVars>>

\* fail_operator_start_intent: not after the family has been noted as closed.
FailIntent(p) ==
    /\ request[p].step = "fail"
    /\ intent' =
         IF intent.state \in {"failed", "intake_closed", "finalized"} THEN intent
         ELSE [intent EXCEPT !.state = "failed",
                 !.members = [o \in Member |-> IF o = request[p].member THEN "failed"
                                                                       ELSE @[o]]]
    /\ Leave(p)
    /\ UNCHANGED <<fit, taken, roundVars>>

\* The process dies between two transactions of the request.
DieInStart(p) ==
    /\ request[p].step # "idle"
    /\ Leave(p)
    /\ UNCHANGED <<intent, fit, taken, roundVars>>

-----------------------------------------------------------------------------
(* Other clients of the round's routes: the intent is not asked.           *)

\* A member that is not of this start: another candidate, or the same one
\* under another key, which collides in the same way.
OtherMember(o, c) ==
    /\ c \notin taken
    /\ Plan[o] # c
    /\ Round!AddRoundCandidate(o, c)

OtherClient ==
    /\ \/ \E o \in Member, c \in Candidate : OtherMember(o, c)
       \/ Round!CloseIntake
       \/ \E o \in Member, b \in Round!BuildTerminal : Round!RecordBuild(o, b)
       \/ Round!FreezeArtifactFamily
       \/ Round!CancelRound
    /\ UNCHANGED <<intent, request, fit, taken>>

StartNext ==
    \/ \E p \in Reconciler :
          \/ BeginStart(p) \/ FreezePlans(p) \/ ReadIntent(p)
          \/ CreateRound(p) \/ RecordRoundCreated(p)
          \/ AddMember(p) \/ RecordMemberBound(p)
          \/ CloseFamily(p) \/ RecordIntakeClosed(p)
          \/ FinalizeIntent(p) \/ FailIntent(p) \/ DieInStart(p)
    \/ OtherClient

StartSpec == StartInit /\ [][StartNext]_startVars

-----------------------------------------------------------------------------
(* What a start promises.                                                  *)

\* Somebody else had a hand in it: the authority does not fit, a candidate
\* belongs to another round or came in the place of a member, the round was
\* cancelled, or a member was built before its family was noted as closed.
Disturbed ==
    \/ ~ fit
    \/ \E o \in Member : Plan[o] \in taken
    \/ round.state = "cancelled"
    \/ \E o \in Member : /\ members[o] # None
                         /\ members[o].candidate # Plan[o] \/ members[o].state # "intake_accepted"

\* However many requests work on a start and wherever they die, the intent is
\* never ahead of the round it speaks of: its members are in the round, a
\* family that it calls closed is the one the round has frozen and is the
\* plan, and crashes and races alone never fail it (reconcile, "each crash
\* point can be reconciled").
StartKeepsItsWord ==
    /\ intent.state \in {"round_created", "intake_closed", "finalized"} =>
           round.state # "absent"
    /\ \A o \in Member : intent.members[o] = "round_member_bound" => Bound(o)
    /\ intent.state \in {"intake_closed", "finalized"} =>
           round.family = Plan /\ intent.family = Plan
    /\ intent.state = "failed" => Disturbed
=============================================================================
