--------------------------- MODULE OperatorProofs ---------------------------
(***************************************************************************)
(* What an operator begins and what he ends: the start of a scripted round *)
(* keeps its word (StartKeepsItsWord), for any plan, any number of         *)
(* requests at a time and whatever other clients do with the round; and,   *)
(* for any family, charges, publishers and keys, what a human signs stands *)
(* (FormalEvidenceStands), and a round that is signed is signed with what  *)
(* the human decided (SignoffAudited).  And what an operator recovers: for *)
(* any sessions and any number of attempts, an operation of a device is    *)
(* taken over by one recovery only and settled by it, and a device in the  *)
(* policy of a session has an open operation.                              *)
(***************************************************************************)
EXTENDS OperatorStart, FormalSignoff, ClockSession, FiniteSetTheorems, TLAPS

-----------------------------------------------------------------------------
(* The start of a scripted round.                                          *)
(*                                                                         *)
(* StartKeepsItsWord is not inductive: between the transaction on the      *)
(* round and the one on the intent only the program counter of a request   *)
(* says what has been done.  The invariant adds what each counter stands   *)
(* for (StepsMean), that the members and the family of a round never       *)
(* change once they are there (RoundOK), and that a member of the intent   *)
(* fails only with the intent.                                             *)

Steps == {"idle", "plans", "read", "create", "created", "add", "added",
          "close", "closed", "finalize", "fail"}

RoundOK ==
    /\ round \in Round!RoundRow
    /\ members \in [Member -> Round!MemberRow \cup {None}]
    /\ round.state \notin {"absent", "intake_open", "cancelled"} => round.family # None
    /\ round.family # None => /\ \A o \in Member : members[o] # None
                              /\ round.family = [o \in Member |-> members[o].candidate]

StartTypes ==
    /\ intent.state \in {"absent", "preparing", "plans_frozen", "round_created",
                         "intake_closed", "finalized", "failed"}
    /\ intent = [state |-> intent.state, members |-> intent.members, family |-> intent.family]
    /\ intent.members \in [Member -> {"pending", "round_member_bound", "failed"}]
    /\ request \in [Reconciler -> [step : Steps, member : Member \cup {None},
                                   family : [Member -> Candidate] \cup {None}]]

\* What the program counter of a request stands for.
Means(p) ==
    /\ request[p].step \in {"created", "add", "added", "close", "closed"} =>
           round.state # "absent"
    /\ request[p].step \in {"add", "added"} => request[p].member \in Member
    /\ request[p].step = "added" => Bound(request[p].member)
    /\ request[p].step \in {"close", "closed"} => \A o \in Member : Bound(o)
    /\ request[p].step = "closed" => round.family # None /\ request[p].family = round.family
    /\ request[p].step = "fail" => Disturbed

StepsMean == \A p \in Reconciler : Means(p)

FailTogether ==
    \A o \in Member : intent.members[o] = "failed" => intent.state = "failed"

StartInv ==
    /\ StartTypes
    /\ RoundOK
    /\ StepsMean
    /\ FailTogether
    /\ StartKeepsItsWord

-----------------------------------------------------------------------------
(* The round.                                                              *)

RoundStep ==
    \/ Round!CreateSearchRound
    \/ \E o \in Member, c \in Candidate : Round!AddRoundCandidate(o, c)
    \/ Round!CloseIntake
    \/ \E o \in Member, b \in Round!BuildTerminal : Round!RecordBuild(o, b)
    \/ Round!FreezeArtifactFamily
    \/ Round!CancelRound
    \/ UNCHANGED roundVars

\* What a request may have learnt of a round stays true.
RoundKept ==
    /\ round.state # "absent" => round'.state # "absent"
    /\ round.family # None => round'.family = round.family
    /\ \A o \in Member : Bound(o) => Bound(o)'
    /\ round.state = "cancelled" => round'.state = "cancelled"
    /\ \A o \in Member :
         members[o] # None =>
           /\ members'[o] # None
           /\ members'[o].candidate = members[o].candidate
           /\ members[o].state # "intake_accepted" => members'[o].state # "intake_accepted"

LEMMA RoundStepOK ==
    ASSUME RoundOK, RoundStep
    PROVE  RoundOK' /\ RoundKept
<1> USE DEF RoundOK, RoundKept, Round!RoundRow, Round!RoundState, Round!Ordinal, Member, Bound
<1>1. CASE Round!CreateSearchRound
  BY <1>1 DEF Round!CreateSearchRound
<1>2. ASSUME NEW o \in Member, NEW c \in Candidate, Round!AddRoundCandidate(o, c)
      PROVE  RoundOK' /\ RoundKept
  <2>1. members' = [members EXCEPT ![o] = [candidate |-> c, state |-> "intake_accepted",
                                           build |-> None, generic |-> "proposed"]]
        /\ round' = round /\ members[o] = None
    BY <1>2 DEF Round!AddRoundCandidate
  <2>2. [candidate |-> c, state |-> "intake_accepted", build |-> None, generic |-> "proposed"]
          \in Round!MemberRow
    BY DEF Round!MemberRow
  <2>3. members' \in [Member -> Round!MemberRow \cup {None}]
    BY <2>1, <2>2
  <2>4. round.family = None
    BY <2>1
  <2>5. \A q \in Member : q # o => members'[q] = members[q]
    BY <2>1
  <2> QED  BY <2>1, <2>3, <2>4, <2>5
<1>3. CASE Round!CloseIntake
  <2>1. /\ \A o \in Member : members[o] # None
        /\ round' = [round EXCEPT !.state = "intake_closed",
                                  !.family = [o \in Member |-> members[o].candidate]]
        /\ members' = members /\ round.state = "intake_open"
    BY <1>3 DEF Round!CloseIntake, Round!Complete, Round!CandidateFamily
  <2>2. [o \in Member |-> members[o].candidate] \in [Member -> Candidate]
    BY <2>1 DEF Round!MemberRow
  <2>3. [o \in Member |-> members[o].candidate] # None
    BY <2>2, NullAssumption
  <2>4. round' \in Round!RoundRow
    BY <2>1, <2>2
  <2> QED  BY <2>1, <2>3, <2>4
<1>4. ASSUME NEW o \in Member, NEW b \in Round!BuildTerminal, Round!RecordBuild(o, b)
      PROVE  RoundOK' /\ RoundKept
  <2> DEFINE row == [members[o] EXCEPT !.state = b, !.build = b,
                                       !.generic = IF b = "built" THEN b ELSE "build_failed"]
  <2>1. /\ members' = [members EXCEPT ![o] = row]
        /\ round' = [round EXCEPT !.state = "building"]
        /\ members[o] # None /\ round.family # None
        /\ round.state \in {"intake_closed", "building"}
    BY <1>4 DEF Round!RecordBuild
  <2>2. members[o] \in Round!MemberRow
    BY <2>1
  <2>3. /\ row \in Round!MemberRow /\ row # None
        /\ row.candidate = members[o].candidate /\ row.state # "intake_accepted"
    <3>1. (IF b = "built" THEN b ELSE "build_failed")
             \in {"proposed", "built", "build_failed", "rejected"}
      OBVIOUS
    <3>2. row \in Round!MemberRow
      BY <2>2, <3>1 DEF Round!MemberRow
    <3>3. row.candidate = members[o].candidate /\ row.state = b
      BY <2>2 DEF Round!MemberRow
    <3> QED  BY <3>2, <3>3, NullAssumption DEF Round!BuildTerminal
  <2>4. members' \in [Member -> Round!MemberRow \cup {None}]
    BY <2>1, <2>3
  <2>5. \A q \in Member : /\ members'[q] # None
                          /\ members'[q].candidate = members[q].candidate
                          /\ q # o => members'[q] = members[q]
    BY <2>1, <2>3
  <2>6. members'[o].state # "intake_accepted"
    BY <2>1, <2>3
  <2>7. round' \in Round!RoundRow /\ round'.family = round.family /\ round'.state = "building"
    BY <2>1
  <2>8. [q \in Member |-> members'[q].candidate] = [q \in Member |-> members[q].candidate]
    BY <2>5
  <2> QED  BY <2>1, <2>4, <2>5, <2>6, <2>7, <2>8
<1>5. CASE Round!FreezeArtifactFamily
  <2>1. /\ round' = [round EXCEPT !.state = "correctness",
                                  !.artifacts = [o \in Member |-> members[o].build]]
        /\ members' = members /\ \A o \in Member : members[o] # None
        /\ round.state = "building"
    BY <1>5 DEF Round!FreezeArtifactFamily, Round!Complete, Round!ArtifactFamily
  <2>2. [o \in Member |-> members[o].build] \in [Member -> Round!BuildTerminal \cup {None}]
    BY <2>1 DEF Round!MemberRow
  <2>3. /\ round' \in Round!RoundRow /\ round'.family = round.family
        /\ round'.state = "correctness"
    BY <2>1, <2>2
  <2> QED  BY <2>1, <2>3
<1>6. CASE Round!CancelRound
  <2>1. /\ round' = [round EXCEPT !.state = "cancelled"] /\ round.state # "cancelled"
        /\ members' = [o \in Member |->
                         IF members[o] = None \/ members[o].generic = "build_failed"
                         THEN members[o] ELSE [members[o] EXCEPT !.generic = "rejected"]]
    BY <1>6 DEF Round!CancelRound, Round!Cancelled, Round!Over
  <2>2. \A o \in Member : members[o] # None =>
          LET row == [members[o] EXCEPT !.generic = "rejected"]
          IN /\ row \in Round!MemberRow /\ row # None
             /\ row.candidate = members[o].candidate /\ row.state = members[o].state
    BY NullAssumption DEF Round!MemberRow
  <2>3. \A o \in Member : members[o] # None =>
          /\ members'[o] # None /\ members'[o] \in Round!MemberRow
          /\ members'[o].candidate = members[o].candidate
          /\ members'[o].state = members[o].state
    BY <2>1, <2>2
  <2>4. members' \in [Member -> Round!MemberRow \cup {None}]
    BY <2>1, <2>2
  <2>5. /\ round' \in Round!RoundRow /\ round'.family = round.family
        /\ round'.state = "cancelled"
    BY <2>1
  <2>6. round.family # None =>
          [o \in Member |-> members'[o].candidate] = [o \in Member |-> members[o].candidate]
    BY <2>3
  <2> QED  BY <2>3, <2>4, <2>5, <2>6
<1>7. CASE UNCHANGED roundVars
  BY <1>7 DEF roundVars
<1> QED  BY <1>1, <1>2, <1>3, <1>4, <1>5, <1>6, <1>7 DEF RoundStep

\* A disturbance does not go away.
LEMMA DisturbedStays ==
    ASSUME RoundKept, UNCHANGED <<fit, taken>>, Disturbed
    PROVE  Disturbed'
  BY DEF Disturbed, RoundKept

\* Hence neither does what the counter of a request that stands still means.
LEMMA MeaningStays ==
    ASSUME RoundKept, UNCHANGED <<fit, taken>>, NEW p \in Reconciler,
           Means(p), request'[p] = request[p]
    PROVE  Means(p)'
  BY DisturbedStays DEF Means, RoundKept, Bound

-----------------------------------------------------------------------------
(* The requests.                                                           *)

LEMMA StartInitOK == StartInit => StartInv
<1> SUFFICES ASSUME StartInit PROVE StartInv
  OBVIOUS
<1> USE DEF StartInit, Round!Init, Round!Ordinal, Member, Idle
<1>1. StartTypes
  BY DEF StartTypes, Steps
<1>2. RoundOK
  BY DEF RoundOK, Round!RoundRow, Round!RoundState
<1>3. StepsMean
  BY DEF StepsMean, Means
<1> QED  BY <1>1, <1>2, <1>3 DEF StartInv, FailTogether, StartKeepsItsWord

\* What the intent says of the round stays true as long as the intent does.
LEMMA IntentKept ==
    ASSUME StartInv, RoundKept, RoundOK', UNCHANGED <<intent, fit, taken>>
    PROVE  FailTogether' /\ StartKeepsItsWord'
<1> USE DEF StartInv
<1>1. FailTogether'
  BY DEF FailTogether
<1>2. intent.state \in {"intake_closed", "finalized"} => round.family # None
  BY PlanAssumption, NullAssumption DEF StartKeepsItsWord
<1>3. \A o \in Member : Bound(o) => Bound(o)'
  BY DEF RoundKept
<1>4. Disturbed => Disturbed'
  BY DisturbedStays
<1> QED  BY <1>1, <1>2, <1>3, <1>4 DEF StartKeepsItsWord, RoundKept

\* A step of a request that does not write the intent.
LEMMA ReadingStep ==
    ASSUME StartInv, RoundStep, UNCHANGED <<intent, fit, taken>>, NEW p \in Reconciler,
           NEW row \in [step : Steps, member : Member \cup {None},
                        family : [Member -> Candidate] \cup {None}],
           request' = [request EXCEPT ![p] = row],
           Means(p)'
    PROVE  StartInv'
<1> USE DEF StartInv
<1>1. RoundOK' /\ RoundKept
  BY RoundStepOK
<1>2. StartTypes'
  BY DEF StartTypes
<1>3. \A q \in Reconciler : q # p => request'[q] = request[q]
  BY DEF StartTypes
<1>4. StepsMean'
  BY <1>1, <1>3, MeaningStays DEF StepsMean
<1> QED  BY <1>1, <1>2, <1>4, IntentKept

\* A step of a request that writes the intent and not the round.
LEMMA WritingStep ==
    ASSUME StartInv, UNCHANGED <<roundVars, fit, taken>>, NEW p \in Reconciler,
           NEW row \in [step : Steps, member : Member \cup {None},
                        family : [Member -> Candidate] \cup {None}],
           request' = [request EXCEPT ![p] = row],
           Means(p)', StartTypes'
    PROVE  StartTypes' /\ RoundOK' /\ StepsMean'
<1> USE DEF StartInv
<1>1. RoundOK' /\ RoundKept
  BY RoundStepOK DEF RoundStep
<1>2. \A q \in Reconciler : q # p => request'[q] = request[q]
  BY DEF StartTypes
<1> QED  BY <1>1, <1>2, MeaningStays DEF StepsMean

Row == [step : Steps, member : Member \cup {None}, family : [Member -> Candidate] \cup {None}]

LEMMA Rows ==
    ASSUME StartTypes, NEW p \in Reconciler
    PROVE  /\ Leave(p) => /\ Idle \in Row /\ request' = [request EXCEPT ![p] = Idle]
                          /\ request'[p] = Idle
           /\ \A s \in Steps : Goto(p, s) =>
                /\ [request[p] EXCEPT !.step = s] \in Row
                /\ request' = [request EXCEPT ![p] = [request[p] EXCEPT !.step = s]]
                /\ request'[p].step = s
                /\ request'[p].member = request[p].member
                /\ request'[p].family = request[p].family
<1> USE DEF StartTypes
<1>1. Leave(p) => /\ Idle \in Row /\ request' = [request EXCEPT ![p] = Idle]
                  /\ request'[p] = Idle
  BY DEF Leave, Idle, Row, Steps
<1>2. ASSUME NEW s \in Steps, Goto(p, s)
      PROVE  /\ [request[p] EXCEPT !.step = s] \in Row
             /\ request' = [request EXCEPT ![p] = [request[p] EXCEPT !.step = s]]
             /\ request'[p].step = s
             /\ request'[p].member = request[p].member
             /\ request'[p].family = request[p].family
  BY <1>2 DEF Goto, Row
<1> QED  BY <1>1, <1>2

\* A request that reads the intent, or dies.
LEMMA ReadOK ==
    ASSUME StartInv, NEW p \in Reconciler, ReadIntent(p) \/ DieInStart(p)
    PROVE  StartInv'
<1> USE DEF StartInv
<1>1. RoundStep /\ UNCHANGED <<intent, fit, taken>> /\ RoundKept
  BY RoundStepOK DEF ReadIntent, DieInStart, RoundStep
<1>2. CASE Leave(p)
  <2>1. Means(p)'
    BY <1>2, Rows DEF Means, Idle
  <2> QED  BY <1>1, <1>2, <2>1, Rows, ReadingStep DEF Row
<1>3. ASSUME NEW s \in {"create", "finalize"}, Goto(p, s) PROVE StartInv'
  <2>1. Means(p)'
    BY <1>3, Rows DEF Means, Steps
  <2> QED  BY <1>1, <1>3, <2>1, Rows, ReadingStep DEF Row, Steps
<1>4. ASSUME intent.state = "round_created", NEW o \in Pending,
             request' = [request EXCEPT ![p].step = "add", ![p].member = o]
      PROVE  StartInv'
  <2> DEFINE row == [request[p] EXCEPT !.step = "add", !.member = o]
  <2>1. /\ row \in Row /\ request' = [request EXCEPT ![p] = row]
        /\ request'[p].step = "add" /\ request'[p].member = o
    BY <1>4 DEF StartTypes, Row, Steps, Pending
  <2>2. Means(p)'
    BY <1>1, <1>4, <2>1 DEF Means, StartKeepsItsWord, RoundKept, Pending
  <2> QED  BY <1>1, <2>1, <2>2, ReadingStep DEF Row
<1>5. ASSUME intent.state = "round_created", Pending = {}, Goto(p, "close") PROVE StartInv'
  <2>1. \A o \in Member : intent.members[o] = "round_member_bound"
    BY <1>5 DEF Pending, StartTypes, FailTogether
  <2>2. round.state # "absent" /\ \A o \in Member : Bound(o)
    BY <1>5, <2>1 DEF StartKeepsItsWord
  <2>3. Means(p)'
    BY <1>1, <1>5, <2>2, Rows DEF Means, Steps, RoundKept
  <2> QED  BY <1>1, <1>5, <2>3, Rows, ReadingStep DEF Row, Steps
<1> QED  BY <1>2, <1>3, <1>4, <1>5 DEF ReadIntent, DieInStart

LEMMA CreateOK ==
    ASSUME StartInv, NEW p \in Reconciler, CreateRound(p)
    PROVE  StartInv'
<1> USE DEF StartInv
<1>1. RoundStep /\ UNCHANGED <<intent, fit, taken>>
  BY DEF CreateRound, RoundStep
<1>2. CASE ~ fit /\ Goto(p, "fail")
  <2>1. Means(p)'
    BY <1>1, <1>2, Rows DEF Means, Steps, Disturbed
  <2> QED  BY <1>1, <1>2, <2>1, Rows, ReadingStep DEF Row, Steps
<1>3. CASE round'.state # "absent" /\ Goto(p, "created")
  <2>1. Means(p)'
    BY <1>1, <1>3, Rows DEF Means, Steps
  <2> QED  BY <1>1, <1>3, <2>1, Rows, ReadingStep DEF Row, Steps
<1>4. Round!CreateSearchRound => round'.state # "absent"
  BY DEF Round!CreateSearchRound, RoundOK, Round!RoundRow
<1>5. UNCHANGED roundVars => round' = round
  BY DEF roundVars
<1> QED  BY <1>2, <1>3, <1>4, <1>5 DEF CreateRound

\* A member is refused only when something is in its way.
LEMMA RefusedMember ==
    ASSUME RoundOK, NEW o \in Member, round.state # "absent", ~ Bound(o),
           ~ (~ Known(o) /\ round.state = "intake_open" /\ Plan[o] \notin taken)
    PROVE  Disturbed
<1>1. CASE Known(o)
  <2>1. PICK q \in Member : members[q] # None /\ (q = o \/ members[q].candidate = Plan[o])
    BY <1>1 DEF Known
  <2>2. members[q].candidate # Plan[q]
    BY <2>1, PlanAssumption DEF Bound
  <2> QED  BY <2>1, <2>2 DEF Disturbed
<1>2. CASE ~ Known(o) /\ round.state # "intake_open"
  <2>1. round.family = None
    BY <1>2 DEF Known, RoundOK
  <2> QED  BY <1>2, <2>1 DEF Disturbed, RoundOK
<1>3. CASE Plan[o] \in taken
  BY <1>3 DEF Disturbed
<1> QED  BY <1>1, <1>2, <1>3

LEMMA AddOK ==
    ASSUME StartInv, NEW p \in Reconciler, AddMember(p)
    PROVE  StartInv'
<1> USE DEF StartInv
<1> DEFINE o == request[p].member
<1>1. o \in Member /\ round.state # "absent" /\ request[p].step = "add"
  BY DEF StepsMean, Means, AddMember
<1>2. UNCHANGED <<intent, fit, taken>>
  BY DEF AddMember
<1>3. CASE Round!AddRoundCandidate(o, Plan[o]) /\ Goto(p, "added")
  <2>1. RoundStep
    BY <1>1, <1>3, PlanAssumption DEF RoundStep
  <2>2. RoundKept
    BY <2>1, RoundStepOK
  <2>3. Bound(o)'
    <3>1. members' = [members EXCEPT ![o] = [candidate |-> Plan[o], state |-> "intake_accepted",
                                             build |-> None, generic |-> "proposed"]]
      BY <1>3 DEF Round!AddRoundCandidate
    <3>2. [candidate |-> Plan[o], state |-> "intake_accepted", build |-> None,
           generic |-> "proposed"] \in Round!MemberRow
      BY <1>1, PlanAssumption DEF Round!MemberRow
    <3>3. members'[o] \in Round!MemberRow /\ members'[o].candidate = Plan[o]
      BY <1>1, <3>1, <3>2 DEF RoundOK
    <3>4. request'[p].member = o
      BY <1>3, Rows DEF Steps
    <3> QED  BY <1>2, <3>3, <3>4, NullAssumption DEF Bound
  <2>4. Means(p)'
    BY <1>1, <1>3, <2>2, <2>3, Rows DEF Means, Steps, RoundKept
  <2> QED  BY <1>2, <1>3, <2>1, <2>4, Rows, ReadingStep DEF Row, Steps
<1>4. CASE Bound(o) /\ UNCHANGED roundVars /\ Goto(p, "added")
  <2>1. RoundStep /\ RoundKept
    BY <1>4, RoundStepOK DEF RoundStep
  <2>2. Means(p)'
    BY <1>1, <1>4, <2>1, Rows DEF Means, Steps, RoundKept
  <2> QED  BY <1>2, <1>4, <2>1, <2>2, Rows, ReadingStep DEF Row, Steps
<1>5. CASE Disturbed /\ UNCHANGED roundVars /\ Goto(p, "fail")
  <2>1. RoundStep /\ RoundKept
    BY <1>5, RoundStepOK DEF RoundStep
  <2>2. Means(p)'
    BY <1>2, <1>5, <2>1, DisturbedStays, Rows DEF Means, Steps
  <2> QED  BY <1>2, <1>5, <2>1, <2>2, Rows, ReadingStep DEF Row, Steps
<1> QED  BY <1>1, <1>3, <1>4, <1>5, RefusedMember DEF AddMember

LEMMA CloseOK ==
    ASSUME StartInv, NEW p \in Reconciler, CloseFamily(p)
    PROVE  StartInv'
<1> USE DEF StartInv
<1> DEFINE F   == Round!CandidateFamily
           row == [request[p] EXCEPT !.step = "closed", !.family = F]
<1>1. /\ round.state # "absent" /\ \A o \in Member : Bound(o)
      /\ UNCHANGED <<intent, fit, taken>>
  BY DEF StepsMean, Means, CloseFamily
<1>2. /\ F = [o \in Member |-> members[o].candidate]
      /\ F \in [Member -> Candidate] /\ F # None
  <2>1. F = [o \in Member |-> members[o].candidate]
    BY DEF Round!CandidateFamily, Round!Ordinal, Member
  <2>2. \A o \in Member : members[o].candidate \in Candidate
    BY <1>1 DEF Bound, RoundOK, Round!MemberRow
  <2> QED  BY <2>1, <2>2, NullAssumption
<1>3. ASSUME request' = [request EXCEPT ![p].step = "closed", ![p].family = F],
             RoundStep, round'.family = F
      PROVE  StartInv'
  <2>1. RoundKept
    BY <1>3, RoundStepOK
  <2>2. /\ row \in Row /\ request' = [request EXCEPT ![p] = row]
        /\ request'[p].step = "closed" /\ request'[p].family = F
    <3>1. request[p] \in Row /\ request \in [Reconciler -> Row]
      BY DEF StartTypes, Row
    <3>2. row \in Row /\ row.step = "closed" /\ row.family = F
      BY <1>2, <3>1 DEF Row, Steps
    <3>3. request' = [request EXCEPT ![p] = row]
      BY <1>3, <3>1
    <3> QED  BY <3>1, <3>2, <3>3
  <2>3. Means(p)'
    BY <1>1, <1>2, <1>3, <2>1, <2>2 DEF Means, RoundKept
  <2> QED  BY <1>1, <1>3, <2>2, <2>3, ReadingStep DEF Row
<1>4. CASE Round!CloseIntake
           /\ request' = [request EXCEPT ![p].step = "closed", ![p].family = F]
  <2>1. round'.family = F
    BY <1>4 DEF Round!CloseIntake, RoundOK, Round!RoundRow
  <2> QED  BY <1>3, <1>4, <2>1 DEF RoundStep
<1>5. CASE /\ round.family = F /\ UNCHANGED roundVars
           /\ request' = [request EXCEPT ![p].step = "closed", ![p].family = F]
  BY <1>3, <1>5 DEF RoundStep, roundVars
<1>6. CASE Disturbed /\ UNCHANGED roundVars /\ Goto(p, "fail")
  <2>1. RoundStep /\ RoundKept
    BY <1>6, RoundStepOK DEF RoundStep
  <2>2. Means(p)'
    BY <1>1, <1>6, <2>1, DisturbedStays, Rows DEF Means, Steps
  <2> QED  BY <1>1, <1>6, <2>1, <2>2, Rows, ReadingStep DEF Row, Steps
<1>7. ASSUME ~ Disturbed
      PROVE  /\ Round!Complete /\ \A o \in Member : members[o].state = "intake_accepted"
             /\ round.state # "intake_open" => round.family = F
  <2>1. \A o \in Member : members[o] # None
    BY <1>1 DEF Bound
  <2>2. \A o \in Member : members[o].state = "intake_accepted"
    BY <1>7, <2>1 DEF Disturbed
  <2>3. ASSUME round.state # "intake_open" PROVE round.family = F
    <3>1. round.state # "cancelled"
      BY <1>7 DEF Disturbed
    <3> QED  BY <1>1, <1>2, <2>3, <3>1 DEF RoundOK
  <2> QED  BY <2>1, <2>2, <2>3 DEF Round!Complete, Round!Ordinal, Member
<1> QED  BY <1>4, <1>5, <1>6, <1>7 DEF CloseFamily

-----------------------------------------------------------------------------
(* The steps that write the intent.                                        *)

\* The first two, which say nothing of the round.
LEMMA BeginOK ==
    ASSUME StartInv, NEW p \in Reconciler, BeginStart(p) \/ FreezePlans(p)
    PROVE  StartInv'
<1> USE DEF StartInv
<1>1. /\ intent'.state \in {"preparing", "plans_frozen"} \/ intent'.state = intent.state
      /\ intent'.members = intent.members /\ intent'.family = intent.family
      /\ intent' = [state |-> intent'.state, members |-> intent.members,
                    family |-> intent.family]
  BY DEF BeginStart, FreezePlans, StartTypes
<1>2. PICK s \in {"plans", "read"} : Goto(p, s)
  BY DEF BeginStart, FreezePlans
<1>3. UNCHANGED <<roundVars, fit, taken>>
  BY DEF BeginStart, FreezePlans
<1>4. Means(p)'
  BY <1>2, Rows DEF Means, Steps
<1>5. /\ [request[p] EXCEPT !.step = s] \in Row
      /\ request' = [request EXCEPT ![p] = [request[p] EXCEPT !.step = s]]
  BY <1>2, Rows DEF Steps
<1>6. StartTypes'
  BY <1>1, <1>5 DEF StartTypes, Row
<1>7. RoundOK' /\ StepsMean'
  BY <1>3, <1>4, <1>5, <1>6, WritingStep DEF Row
<1>8. intent'.state = "failed" <=> intent.state = "failed"
  BY <1>1 DEF BeginStart, FreezePlans, StartTypes
<1>9. FailTogether'
  BY <1>1, <1>8 DEF FailTogether
<1>10. StartKeepsItsWord'
  BY <1>1, <1>3, <1>8 DEF StartKeepsItsWord, Bound, Disturbed, roundVars
<1> QED  BY <1>6, <1>7, <1>9, <1>10

\* A request that goes on to read the intent again, or is over.
LEMMA ReadAgain ==
    ASSUME StartInv, NEW p \in Reconciler, Leave(p) \/ Goto(p, "read")
    PROVE  /\ Means(p)'
           /\ \E row \in Row : request' = [request EXCEPT ![p] = row]
<1> USE DEF StartInv
<1>1. CASE Leave(p)
  BY <1>1, Rows DEF Means, Idle
<1>2. CASE Goto(p, "read")
  BY <1>2, Rows DEF Means, Steps
<1> QED  BY <1>1, <1>2

\* What such a request has to see to when it writes the intent.
LEMMA Noted ==
    ASSUME StartInv, NEW p \in Reconciler, Leave(p) \/ Goto(p, "read"),
           UNCHANGED <<roundVars, fit, taken>>,
           intent' = [state |-> intent'.state, members |-> intent'.members,
                      family |-> intent'.family],
           intent'.state \in {"absent", "preparing", "plans_frozen", "round_created",
                              "intake_closed", "finalized", "failed"},
           intent'.members \in [Member -> {"pending", "round_member_bound", "failed"}],
           FailTogether', StartKeepsItsWord'
    PROVE  StartInv'
<1> USE DEF StartInv
<1>1. PICK row \in Row : request' = [request EXCEPT ![p] = row]
  BY ReadAgain
<1>2. StartTypes'
  BY <1>1 DEF StartTypes, Row
<1>3. RoundOK' /\ StepsMean'
  BY <1>1, <1>2, ReadAgain, WritingStep DEF Row
<1> QED  BY <1>2, <1>3

LEMMA CreatedOK ==
    ASSUME StartInv, NEW p \in Reconciler, RecordRoundCreated(p)
    PROVE  StartInv'
<1> USE DEF StartInv
<1>1. /\ Leave(p) \/ Goto(p, "read")
      /\ UNCHANGED <<roundVars, fit, taken>>
      /\ round.state # "absent"
  BY DEF RecordRoundCreated, StepsMean, Means
<1>2. /\ \/ intent'.state = intent.state
         \/ intent.state = "plans_frozen" /\ intent'.state = "round_created"
      /\ intent' = [state |-> intent'.state, members |-> intent.members,
                    family |-> intent.family]
      /\ intent'.members = intent.members /\ intent'.family = intent.family
  BY DEF RecordRoundCreated, StartTypes
<1>3. FailTogether'
  BY <1>2 DEF FailTogether, StartTypes
<1>4. StartKeepsItsWord'
  BY <1>1, <1>2 DEF StartKeepsItsWord, Bound, Disturbed, roundVars
<1> QED  BY <1>1, <1>2, <1>3, <1>4, Noted DEF StartTypes

LEMMA MemberBoundOK ==
    ASSUME StartInv, NEW p \in Reconciler, RecordMemberBound(p)
    PROVE  StartInv'
<1> USE DEF StartInv
<1> DEFINE o == request[p].member
<1>1. /\ Leave(p) \/ Goto(p, "read")
      /\ UNCHANGED <<roundVars, fit, taken>>
      /\ o \in Member /\ Bound(o)
  BY DEF RecordMemberBound, StepsMean, Means
<1>2. /\ intent'.state = intent.state /\ intent'.family = intent.family
      /\ intent' = [state |-> intent'.state, members |-> intent'.members,
                    family |-> intent'.family]
      /\ intent'.members \in [Member -> {"pending", "round_member_bound", "failed"}]
      /\ \A q \in Member : \/ intent'.members[q] = intent.members[q]
                           \/ q = o /\ intent'.members[q] = "round_member_bound"
  BY <1>1 DEF RecordMemberBound, StartTypes
<1>3. FailTogether'
  BY <1>2 DEF FailTogether
<1>4. StartKeepsItsWord'
  BY <1>1, <1>2 DEF StartKeepsItsWord, Bound, Disturbed, roundVars
<1> QED  BY <1>1, <1>2, <1>3, <1>4, Noted DEF StartTypes

LEMMA IntakeClosedOK ==
    ASSUME StartInv, NEW p \in Reconciler, RecordIntakeClosed(p)
    PROVE  StartInv'
<1> USE DEF StartInv
<1>1. /\ Leave(p) \/ Goto(p, "read")
      /\ UNCHANGED <<roundVars, fit, taken>>
      /\ round.state # "absent"
      /\ request[p].family = round.family /\ round.family # None
      /\ \A o \in Member : Bound(o)
  BY DEF RecordIntakeClosed, StepsMean, Means
<1>2. round.family = Plan
  <2>1. round.family = [o \in Member |-> members[o].candidate]
    BY <1>1 DEF RoundOK
  <2>2. \A o \in Member : members[o].candidate = Plan[o]
    BY <1>1 DEF Bound
  <2>3. Plan = [o \in Member |-> Plan[o]]
    BY PlanAssumption
  <2> QED  BY <2>1, <2>2, <2>3
<1>3. /\ intent'.members = intent.members
      /\ \/ intent' = intent
         \/ /\ intent.state = "round_created" /\ intent'.state = "intake_closed"
            /\ intent'.family = Plan
      /\ intent' = [state |-> intent'.state, members |-> intent'.members,
                    family |-> intent'.family]
  BY <1>1, <1>2 DEF RecordIntakeClosed, StartTypes
<1>4. FailTogether'
  BY <1>3 DEF FailTogether
<1>5. StartKeepsItsWord'
  BY <1>1, <1>2, <1>3 DEF StartKeepsItsWord, Bound, Disturbed, roundVars
<1> QED  BY <1>1, <1>3, <1>4, <1>5, Noted DEF StartTypes

LEMMA FinalizeOK ==
    ASSUME StartInv, NEW p \in Reconciler, FinalizeIntent(p)
    PROVE  StartInv'
<1> USE DEF StartInv
<1>1. Leave(p) /\ UNCHANGED <<roundVars, fit, taken>>
  BY DEF FinalizeIntent
<1>2. /\ \/ intent'.state = intent.state
         \/ intent.state = "intake_closed" /\ intent'.state = "finalized"
      /\ intent' = [state |-> intent'.state, members |-> intent.members,
                    family |-> intent.family]
      /\ intent'.members = intent.members /\ intent'.family = intent.family
  BY DEF FinalizeIntent, StartTypes
<1>3. FailTogether'
  BY <1>2 DEF FailTogether, StartTypes
<1>4. StartKeepsItsWord'
  BY <1>1, <1>2 DEF StartKeepsItsWord, Bound, Disturbed, roundVars
<1> QED  BY <1>1, <1>2, <1>3, <1>4, Noted DEF StartTypes

LEMMA FailOK ==
    ASSUME StartInv, NEW p \in Reconciler, FailIntent(p)
    PROVE  StartInv'
<1> USE DEF StartInv
<1>1. /\ Leave(p) /\ UNCHANGED <<roundVars, fit, taken>>
      /\ Disturbed
  BY DEF FailIntent, StepsMean, Means
<1>2. Disturbed'
  BY <1>1 DEF Disturbed, roundVars
<1>3. /\ intent'.state = "failed" \/ intent' = intent
      /\ \A o \in Member : intent'.members[o] \in {"failed", intent.members[o]}
      /\ intent'.members \in [Member -> {"pending", "round_member_bound", "failed"}]
      /\ intent' = [state |-> intent'.state, members |-> intent'.members,
                    family |-> intent'.family]
  BY DEF FailIntent, StartTypes
<1>4. FailTogether'
  BY <1>3 DEF FailTogether
<1>5. StartKeepsItsWord'
  BY <1>1, <1>2, <1>3 DEF StartKeepsItsWord, Bound, roundVars
<1> QED  BY <1>1, <1>3, <1>4, <1>5, Noted DEF StartTypes

-----------------------------------------------------------------------------

LEMMA OtherOK ==
    ASSUME StartInv, OtherClient \/ UNCHANGED startVars
    PROVE  StartInv'
<1> USE DEF StartInv
<1>1. RoundStep /\ UNCHANGED <<intent, request, fit, taken>>
  BY DEF OtherClient, OtherMember, startVars, RoundStep
<1>2. RoundOK' /\ RoundKept
  BY <1>1, RoundStepOK
<1>3. StartTypes'
  BY <1>1 DEF StartTypes
<1>4. StepsMean'
  BY <1>1, <1>2, MeaningStays DEF StepsMean
<1> QED  BY <1>1, <1>2, <1>3, <1>4, IntentKept

LEMMA StartStepOK == StartInv /\ [StartNext]_startVars => StartInv'
  BY BeginOK, ReadOK, CreateOK, CreatedOK, AddOK, MemberBoundOK, CloseOK,
     IntakeClosedOK, FinalizeOK, FailOK, OtherOK DEF StartNext

\* What the program counters, the intent and the round say of one another
\* holds for any plan and any number of requests (start, reconcile).
THEOREM StartInvariant == StartSpec => []StartInv
  BY StartInitOK, StartStepOK, PTL DEF StartSpec

\* The intent is never ahead of its round, the family it calls closed is the
\* plan, and only a disturbance from outside fails it, however many requests
\* work on it and wherever they die (start, reconcile, "each crash point can
\* be reconciled").
THEOREM StartsKeepTheirWord == StartSpec => []StartKeepsItsWord
<1>1. StartInv => StartKeepsItsWord
  BY DEF StartInv
<1> QED  BY StartInvariant, <1>1, PTL

-----------------------------------------------------------------------------
(* A formal round and its sign-off.                                        *)

(* The rows are of their types. *)
FormalTypeOK ==
  /\ formal \in [round : {"correctness", "search_barrier", "holdout_measuring",
                          "holdout_barrier", "awaiting_signoff", "completed", "rejected"},
                 task : {"created", "awaiting_signoff", "completed", "rejected"},
                 promoted : SUBSET Finalist,
                 members : [Finalist -> {"built", "build_failed", "search_measured",
                              "search_failed", "holdout_measured", "holdout_failed"}]]
  /\ record \in [context : {Nothing} \cup SUBSET Finalist,
                 search : {Nothing} \cup SearchRow,
                 reveal : {Nothing} \cup SUBSET Finalist,
                 holdout : {Nothing} \cup HoldoutRow,
                 comparison : {Nothing} \cup SUBSET Finalist,
                 evidence : {Nothing} \cup EvidenceRow]
  /\ account \in Ledger
  /\ bundle \in {Nothing} \cup Ledger

SignTypeOK ==
  /\ signIntent \in [state : {"absent", "preparing", "artifact_published", "finalized"},
                     decision : {Nothing} \cup Decision]
  /\ outbox \in [state : {"absent", "pending", "artifact_published", "finalized"},
                 artifact : {Nothing} \cup Artifact]
  /\ signoff \in {Nothing} \cup Artifact
  /\ store \subseteq Artifact
  /\ publication \in [Publisher -> {Nothing} \cup Artifact]

\* Which rows there are is told by the state of the round.
Ended == formal.round \in {"awaiting_signoff", "completed", "rejected"}

RowsOfState ==
  /\ formal.round = "correctness" => record.search = Nothing
  /\ formal.round \in {"correctness", "search_barrier"} =>
       record.reveal = Nothing /\ record.holdout = Nothing /\ record.comparison = Nothing
  /\ formal.round = "holdout_measuring" => record.holdout = Nothing /\ record.comparison = Nothing
  /\ formal.round # "correctness" => record.search # Nothing
  /\ record.evidence # Nothing <=> Ended
  /\ record.holdout # Nothing => record.search # Nothing

\* The rows speak of one family, and of the members as they are.
RowsAgree ==
  /\ record.context # Nothing => record.context = Artifacts
  /\ record.search # Nothing =>
       /\ record.context # Nothing
       /\ record.search.promoted = formal.promoted
       /\ record.search.promoted \subseteq record.search.measured
       /\ record.search.measured \subseteq Artifacts
  /\ record.reveal # Nothing => record.reveal = formal.promoted
  /\ record.holdout # Nothing =>
       record.holdout.family = formal.promoted /\ record.holdout.measured \subseteq formal.promoted
  /\ record.comparison # Nothing => record.comparison = formal.promoted
  /\ \A o \in Finalist : formal.members[o] = "holdout_measured" <=>
                           record.holdout # Nothing /\ o \in record.holdout.measured

\* The evidence is a copy of the rows, and of a ledger in which nothing is open.
EvidenceIsRows ==
  record.evidence # Nothing =>
    LET e == record.evidence
    IN /\ e.artifacts = record.context /\ e.search = record.search /\ e.reveal = record.reveal
       /\ e.holdout = record.holdout /\ e.comparison = record.comparison
       /\ IF formal.promoted = {} THEN e.holdout = Nothing /\ e.comparison = Nothing
          ELSE e.reveal # Nothing /\ e.holdout # Nothing /\ e.comparison # Nothing

LedgerStands ==
  record.evidence # Nothing =>
    \A r \in Charge : record.evidence.ledger[r] # "absent" =>
      /\ record.evidence.ledger[r] # "reserved"
      /\ account[r] = record.evidence.ledger[r]

\* How far the decision has got: intent, outbox, round and task in step.
DecisionInStep ==
  /\ Ended => formal.task = formal.round
  /\ signIntent.state # "absent" => signIntent.decision \in Decision
  /\ signIntent.state = "absent" =>
       outbox.state = "absent" /\ formal.round \notin {"completed", "rejected"}
  /\ signIntent.state = "preparing" =>
       outbox.state = "pending" /\ formal.round = "awaiting_signoff"
  /\ signIntent.state = "artifact_published" =>
       outbox.state = "artifact_published" /\ formal.round = "awaiting_signoff"
  /\ signIntent.state = "finalized" =>
       /\ outbox.state = "finalized"
       /\ formal.round = IF signIntent.decision = "approved" THEN "completed" ELSE "rejected"
  /\ signIntent.state \in {"artifact_published", "finalized"} =>
       outbox.artifact # Nothing /\ Authentic(outbox.artifact)
  /\ signIntent.state \in {"absent", "preparing"} => outbox.artifact = Nothing
  /\ signoff = IF signIntent.state = "finalized" THEN outbox.artifact ELSE Nothing

\* Nobody speaks of bytes that are not in the store or say something else.
PublishedAreAuthentic ==
  \A p \in Publisher : publication[p] # Nothing =>
    signIntent.state # "absent" /\ Authentic(publication[p])

(* The inductive invariant. *)
FormalInv == /\ FormalTypeOK /\ RowsOfState /\ RowsAgree /\ EvidenceIsRows /\ LedgerStands
SignInv   == /\ SignTypeOK /\ DecisionInStep /\ PublishedAreAuthentic

-----------------------------------------------------------------------------
(* The round.                                                              *)

LEMMA FormalInit == FormalRoundInit => FormalInv
<1> SUFFICES ASSUME FormalRoundInit PROVE FormalInv
  OBVIOUS
<1> PICK built \in SUBSET Finalist :
      formal = [round |-> "correctness", task |-> "created", promoted |-> {},
                members |-> [o \in Finalist |-> IF o \in built THEN "built"
                                                              ELSE "build_failed"]]
  BY DEF FormalRoundInit
<1>1. FormalTypeOK
  BY DEF FormalRoundInit, FormalTypeOK, Ledger
<1>2. RowsOfState /\ RowsAgree /\ EvidenceIsRows /\ LedgerStands
  BY DEF FormalRoundInit, RowsOfState, RowsAgree, EvidenceIsRows, LedgerStands, Ended
<1> QED
  BY <1>1, <1>2 DEF FormalInv

\* What the end of the round is to its rows: only its state and its task move.
RoundSigned ==
  /\ formal.round = "awaiting_signoff"
  /\ \E end \in {"completed", "rejected"} :
        formal' = [formal EXCEPT !.round = end, !.task = end]
  /\ UNCHANGED <<record, account, bundle>>

FormalRoundStep == FormalRoundNext \/ RoundSigned \/ UNCHANGED roundRows

LEMMA FormalTypes == FormalTypeOK /\ RowsAgree /\ FormalRoundStep => FormalTypeOK'
<1> SUFFICES ASSUME FormalTypeOK, RowsAgree, FormalRoundStep PROVE FormalTypeOK'
  OBVIOUS
<1> USE DEF FormalTypeOK
<1>1. CASE SealContext
  BY <1>1 DEF SealContext, Artifacts
<1>2. ASSUME NEW measured \in SUBSET Finalist, NEW promoted \in SUBSET Finalist,
             CloseFormalSearch(measured, promoted)
      PROVE  FormalTypeOK'
  BY <1>2 DEF CloseFormalSearch, SearchRow
<1>3. CASE RevealFormalHoldout
  BY <1>3 DEF RevealFormalHoldout
<1>4. ASSUME NEW measured \in SUBSET Finalist, NEW same \in BOOLEAN,
             CloseFormalHoldout(measured, same)
      PROVE  FormalTypeOK'
  BY <1>4 DEF CloseFormalHoldout, HoldoutRow
<1>5. CASE RecordFormalComparison
  BY <1>5 DEF RecordFormalComparison
<1>6. ASSUME NEW r \in Charge, NEW end \in {"settled", "released"},
             ReserveFormal(r) \/ EndFormalCharge(r, end)
      PROVE  FormalTypeOK'
  BY <1>6 DEF ReserveFormal, EndFormalCharge, Ledger
<1>7. CASE BuildBundle
  BY <1>7 DEF BuildBundle
<1>8. CASE FinalizeFormalRound
  <2>1. record.search \in SearchRow /\ bundle \in Ledger /\ record.context \in SUBSET Finalist
    BY <1>8 DEF FinalizeFormalRound, RowsAgree
  <2> DEFINE e == [artifacts |-> record.context, search |-> record.search,
                   reveal |-> record.reveal, holdout |-> record.holdout,
                   comparison |-> record.comparison, ledger |-> bundle]
  <2>2. e \in EvidenceRow
    BY <2>1 DEF EvidenceRow
  <2>3. /\ record' = [record EXCEPT !.evidence = e]
        /\ formal' = [formal EXCEPT !.round = "awaiting_signoff", !.task = "awaiting_signoff"]
        /\ UNCHANGED <<account, bundle>>
    BY <1>8 DEF FinalizeFormalRound, AwaitSignoff
  <2> HIDE DEF e
  <2> QED
    BY <2>2, <2>3
<1>9. CASE RoundSigned
  BY <1>9 DEF RoundSigned
<1>10. CASE UNCHANGED roundRows
  BY <1>10 DEF roundRows
<1> QED
  BY <1>1, <1>2, <1>3, <1>4, <1>5, <1>6, <1>7, <1>8, <1>9, <1>10 DEF FormalRoundStep, FormalRoundNext

\* Which members have an artifact is settled before the round is formal: later
\* only members that have one get another state, and not the one of a failure.
LEMMA ArtifactsStay == FormalTypeOK /\ RowsAgree /\ FormalRoundStep => Artifacts' = Artifacts
<1> SUFFICES ASSUME FormalTypeOK, RowsAgree, FormalRoundStep PROVE Artifacts' = Artifacts
  OBVIOUS
<1> USE DEF Artifacts, FormalTypeOK
<1>1. CASE formal'.members = formal.members
  BY <1>1
<1>2. ASSUME NEW measured \in SUBSET Finalist, NEW promoted \in SUBSET Finalist,
             CloseFormalSearch(measured, promoted)
      PROVE  Artifacts' = Artifacts
  <2>1. formal'.members = [o \in Finalist |-> IF o \in measured THEN "search_measured"
                             ELSE IF o \in Artifacts THEN "search_failed" ELSE formal.members[o]]
    BY <1>2 DEF CloseFormalSearch
  <2>2. \A o \in Finalist : formal'.members[o] # "build_failed" <=> formal.members[o] # "build_failed"
    BY <1>2, <2>1 DEF CloseFormalSearch
  <2> QED
    BY <2>2
<1>3. ASSUME NEW measured \in SUBSET Finalist, NEW same \in BOOLEAN,
             CloseFormalHoldout(measured, same)
      PROVE  Artifacts' = Artifacts
  <2>1. formal'.members = [o \in Finalist |->
                             IF o \notin formal.promoted THEN formal.members[o]
                             ELSE IF o \in measured THEN "holdout_measured" ELSE "holdout_failed"]
    BY <1>3 DEF CloseFormalHoldout
  <2>2. formal.promoted \subseteq Artifacts
    BY <1>3 DEF CloseFormalHoldout, RowsAgree
  <2>3. \A o \in Finalist : formal'.members[o] # "build_failed" <=> formal.members[o] # "build_failed"
    BY <2>1, <2>2
  <2> QED
    BY <2>3
<1>4. \/ formal'.members = formal.members
      \/ \E measured, promoted \in SUBSET Finalist : CloseFormalSearch(measured, promoted)
      \/ \E measured \in SUBSET Finalist, same \in BOOLEAN : CloseFormalHoldout(measured, same)
  BY DEF FormalRoundStep, FormalRoundNext, RoundSigned, SealContext, RevealFormalHoldout,
         RecordFormalComparison, ReserveFormal, EndFormalCharge, BuildBundle,
         FinalizeFormalRound, AwaitSignoff, roundRows
<1> QED
  BY <1>1, <1>2, <1>3, <1>4

\* A transaction leaves the existing rows alone: it writes one more, or ends a
\* charge, or moves the round.
LEMMA RowsOfStateStep == FormalInv /\ FormalRoundStep => RowsOfState'
<1> SUFFICES ASSUME FormalInv, FormalRoundStep PROVE RowsOfState'
  OBVIOUS
<1> USE DEF FormalInv, FormalTypeOK, RowsOfState, Ended
<1>1. CASE SealContext
  BY <1>1 DEF SealContext
<1>2. ASSUME NEW measured \in SUBSET Finalist, NEW promoted \in SUBSET Finalist,
             CloseFormalSearch(measured, promoted)
      PROVE  RowsOfState'
  <2>1. [measured |-> measured, promoted |-> promoted] # Nothing
    BY NothingAssumption DEF SearchRow
  <2> QED
    BY <1>2, <2>1 DEF CloseFormalSearch
<1>3. CASE RevealFormalHoldout
  BY <1>3 DEF RevealFormalHoldout
<1>4. ASSUME NEW measured \in SUBSET Finalist, NEW same \in BOOLEAN,
             CloseFormalHoldout(measured, same)
      PROVE  RowsOfState'
  BY <1>4 DEF CloseFormalHoldout
<1>5. CASE RecordFormalComparison
  BY <1>5 DEF RecordFormalComparison
<1>6. ASSUME NEW r \in Charge, NEW end \in {"settled", "released"},
             ReserveFormal(r) \/ EndFormalCharge(r, end)
      PROVE  RowsOfState'
  BY <1>6 DEF ReserveFormal, EndFormalCharge
<1>7. CASE BuildBundle
  BY <1>7 DEF BuildBundle
<1>8. CASE FinalizeFormalRound
  <2>1. FormalTypeOK'
    BY <1>8, FormalTypes
  <2>2. record'.evidence # Nothing
    <3> DEFINE e == [artifacts |-> record.context, search |-> record.search,
                     reveal |-> record.reveal, holdout |-> record.holdout,
                     comparison |-> record.comparison, ledger |-> bundle]
    <3>1. record'.evidence = e
      BY <1>8 DEF FinalizeFormalRound, AwaitSignoff
    <3>2. e \in EvidenceRow
      BY <1>8 DEF FinalizeFormalRound, RowsAgree, EvidenceRow
    <3> QED
      BY <3>1, <3>2, NothingAssumption
  <2> QED
    BY <1>8, <2>2 DEF FinalizeFormalRound, AwaitSignoff, FormalPath
<1>9. CASE RoundSigned
  BY <1>9 DEF RoundSigned
<1>10. CASE UNCHANGED roundRows
  BY <1>10 DEF roundRows
<1> QED
  BY <1>1, <1>2, <1>3, <1>4, <1>5, <1>6, <1>7, <1>8, <1>9, <1>10 DEF FormalRoundStep, FormalRoundNext

LEMMA RowsAgreeStep == FormalInv /\ FormalRoundStep => RowsAgree'
<1> SUFFICES ASSUME FormalInv, FormalRoundStep PROVE RowsAgree'
  OBVIOUS
<1>0. FormalTypeOK' /\ Artifacts' = Artifacts
  BY FormalTypes, ArtifactsStay DEF FormalInv
<1> USE DEF FormalInv, FormalTypeOK, RowsOfState, Ended, RowsAgree
<1>1. CASE SealContext
  BY <1>0, <1>1 DEF SealContext
<1>2. ASSUME NEW measured \in SUBSET Finalist, NEW promoted \in SUBSET Finalist,
             CloseFormalSearch(measured, promoted)
      PROVE  RowsAgree'
  <2>1. \A o \in Finalist : formal'.members[o] # "holdout_measured"
    BY <1>2 DEF CloseFormalSearch, Artifacts
  <2>2. record'.search = [measured |-> measured, promoted |-> promoted]
    BY <1>2 DEF CloseFormalSearch
  <2>3. /\ formal'.promoted = promoted
        /\ \A f \in {"context", "reveal", "holdout", "comparison"} : record'[f] = record[f]
    BY <1>2 DEF CloseFormalSearch
  <2>4. /\ record.context # Nothing /\ measured \subseteq Artifacts /\ promoted \subseteq measured
        /\ record.reveal = Nothing /\ record.holdout = Nothing /\ record.comparison = Nothing
    BY <1>2 DEF CloseFormalSearch
  <2> QED
    BY <1>0, <2>1, <2>2, <2>3, <2>4
<1>3. CASE RevealFormalHoldout
  BY <1>0, <1>3 DEF RevealFormalHoldout
<1>4. ASSUME NEW measured \in SUBSET Finalist, NEW same \in BOOLEAN,
             CloseFormalHoldout(measured, same)
      PROVE  RowsAgree'
  <2> DEFINE row == [family |-> formal.promoted, measured |-> measured, same |-> same]
  <2>1. record'.holdout = row /\ row # Nothing
    BY <1>4, NothingAssumption DEF CloseFormalHoldout, HoldoutRow
  <2>2. measured \subseteq formal.promoted
    BY <1>4 DEF CloseFormalHoldout
  <2>3. \A o \in Finalist : formal'.members[o] = "holdout_measured" <=> o \in measured
    BY <1>4, <2>2 DEF CloseFormalHoldout
  <2> QED
    BY <1>0, <1>4, <2>1, <2>2, <2>3 DEF CloseFormalHoldout
<1>5. CASE RecordFormalComparison
  BY <1>0, <1>5 DEF RecordFormalComparison
<1>6. ASSUME NEW r \in Charge, NEW end \in {"settled", "released"},
             ReserveFormal(r) \/ EndFormalCharge(r, end)
      PROVE  RowsAgree'
  BY <1>0, <1>6 DEF ReserveFormal, EndFormalCharge
<1>7. CASE BuildBundle
  BY <1>0, <1>7 DEF BuildBundle
<1>8. CASE FinalizeFormalRound
  BY <1>0, <1>8 DEF FinalizeFormalRound, AwaitSignoff
<1>9. CASE RoundSigned
  BY <1>0, <1>9 DEF RoundSigned
<1>10. CASE UNCHANGED roundRows
  BY <1>0, <1>10 DEF roundRows
<1> HIDE DEF FormalInv, FormalTypeOK, RowsOfState, Ended, RowsAgree
<1> QED
  BY <1>1, <1>2, <1>3, <1>4, <1>5, <1>6, <1>7, <1>8, <1>9, <1>10 DEF FormalRoundStep, FormalRoundNext

\* Once there is evidence, all the rows it copies are closed to change, and
\* charges that have ended stay ended.
LEMMA EvidenceFreezes ==
  FormalInv /\ FormalRoundStep /\ record.evidence # Nothing =>
    /\ record' = record /\ formal'.promoted = formal.promoted
    /\ \A r \in Charge : account[r] \in {"settled", "released"} => account'[r] = account[r]
<1> SUFFICES ASSUME FormalInv, FormalRoundStep, record.evidence # Nothing
             PROVE  /\ record' = record /\ formal'.promoted = formal.promoted
                    /\ \A r \in Charge :
                         account[r] \in {"settled", "released"} => account'[r] = account[r]
  OBVIOUS
<1>1. Ended
  BY DEF FormalInv, RowsOfState
<1>2. account \in Ledger /\ formal \in [round : {"correctness", "search_barrier",
         "holdout_measuring", "holdout_barrier", "awaiting_signoff", "completed", "rejected"},
         task : {"created", "awaiting_signoff", "completed", "rejected"},
         promoted : SUBSET Finalist,
         members : [Finalist -> {"built", "build_failed", "search_measured",
                                 "search_failed", "holdout_measured", "holdout_failed"}]]
  BY DEF FormalInv, FormalTypeOK
<1>3. \/ \E r \in Charge, end \in {"settled", "released"} : ReserveFormal(r) \/ EndFormalCharge(r, end)
      \/ RoundSigned \/ UNCHANGED roundRows
  BY <1>1 DEF FormalRoundStep, FormalRoundNext, Ended, SealContext, CloseFormalSearch,
              RevealFormalHoldout, CloseFormalHoldout, RecordFormalComparison, BuildBundle,
              FinalizeFormalRound
<1>4. ASSUME NEW s \in Charge, NEW end \in {"settled", "released"},
             ReserveFormal(s) \/ EndFormalCharge(s, end)
      PROVE  /\ record' = record /\ formal'.promoted = formal.promoted
             /\ \A r \in Charge :
                  account[r] \in {"settled", "released"} => account'[r] = account[r]
  BY <1>2, <1>4 DEF ReserveFormal, EndFormalCharge, Ledger
<1>5. CASE RoundSigned \/ UNCHANGED roundRows
  BY <1>2, <1>5 DEF RoundSigned, roundRows
<1> QED
  BY <1>3, <1>4, <1>5

LEMMA EvidenceStep == FormalInv /\ FormalRoundStep => EvidenceIsRows' /\ LedgerStands'
<1> SUFFICES ASSUME FormalInv, FormalRoundStep PROVE EvidenceIsRows' /\ LedgerStands'
  OBVIOUS
<1>1. CASE record.evidence # Nothing
  <2>1. /\ record' = record /\ formal'.promoted = formal.promoted
        /\ \A r \in Charge : account[r] \in {"settled", "released"} => account'[r] = account[r]
    BY <1>1, EvidenceFreezes
  <2>2. EvidenceIsRows'
    BY <1>1, <2>1 DEF FormalInv, EvidenceIsRows
  <2>3. \A r \in Charge : account[r] \in {"absent", "reserved", "settled", "released"}
    BY DEF FormalInv, FormalTypeOK, Ledger
  <2> QED
    BY <1>1, <2>1, <2>2, <2>3 DEF FormalInv, LedgerStands
<1>2. CASE record.evidence = Nothing /\ FinalizeFormalRound
  <2> DEFINE e == [artifacts |-> record.context, search |-> record.search,
                   reveal |-> record.reveal, holdout |-> record.holdout,
                   comparison |-> record.comparison, ledger |-> bundle]
  <2>1. /\ record' = [record EXCEPT !.evidence = e]
        /\ formal'.promoted = formal.promoted /\ account' = account
    BY <1>2 DEF FinalizeFormalRound, AwaitSignoff, FormalInv, FormalTypeOK
  <2>2. record'.evidence = e /\ \A f \in {"context", "search", "reveal", "holdout", "comparison"} :
                                 record'[f] = record[f]
    BY <2>1 DEF FormalInv, FormalTypeOK
  <2>3. EvidenceIsRows'
    BY <1>2, <2>1, <2>2 DEF FinalizeFormalRound, FormalPath, EvidenceIsRows, FormalInv, RowsAgree
  <2>4. \A r \in Charge : account[r] # "reserved"
    BY <1>2 DEF FinalizeFormalRound, Open
  <2>5. bundle = account
    BY <1>2 DEF FinalizeFormalRound
  <2>6. LedgerStands'
    BY <2>1, <2>2, <2>4, <2>5 DEF LedgerStands
  <2> QED
    BY <2>3, <2>6
<1>3. CASE record.evidence = Nothing /\ ~FinalizeFormalRound
  <2>1. record'.evidence = Nothing
    BY <1>3 DEF FormalRoundStep, FormalRoundNext, SealContext, CloseFormalSearch,
                RevealFormalHoldout, CloseFormalHoldout, RecordFormalComparison, ReserveFormal,
                EndFormalCharge, BuildBundle, RoundSigned, roundRows, FormalInv, FormalTypeOK
  <2> QED
    BY <2>1 DEF EvidenceIsRows, LedgerStands
<1> QED
  BY <1>1, <1>2, <1>3

LEMMA FormalStep == FormalInv /\ FormalRoundStep => FormalInv'
<1> SUFFICES ASSUME FormalInv, FormalRoundStep PROVE FormalInv'
  OBVIOUS
<1>1. FormalTypeOK'
  BY FormalTypes DEF FormalInv
<1> QED
  BY <1>1, RowsOfStateStep, RowsAgreeStep, EvidenceStep DEF FormalInv

-----------------------------------------------------------------------------
(* The decision.                                                           *)

LEMMA RoundMoves == SignTypeOK /\ DecisionInStep /\ [SignNext]_signVars => FormalRoundStep
<1> SUFFICES ASSUME SignTypeOK, DecisionInStep, [SignNext]_signVars PROVE FormalRoundStep
  OBVIOUS
<1>1. ASSUME NEW p \in Publisher, FinalizeSignoff(p) PROVE RoundSigned
  BY <1>1 DEF FinalizeSignoff, Finalizable, RoundSigned
<1> QED
  BY <1>1 DEF SignNext, FormalRoundStep, signVars, roundRows, CreateSignIntent, Publish, ReadOutbox,
              DropPublication, RecordArtifact

\* Before there is an intent, and again when it is final, nothing of the round
\* and nothing that the decision rests on is touched by the round itself.
LEMMA RoundKeepsDecision ==
  FormalInv /\ SignInv /\ FormalRoundNext
    /\ UNCHANGED <<signIntent, outbox, signoff, store, publication>> => SignInv'
<1> SUFFICES ASSUME FormalInv, SignInv, FormalRoundNext,
                    UNCHANGED <<signIntent, outbox, signoff, store, publication>>
             PROVE  SignInv'
  OBVIOUS
<1> USE DEF SignInv
<1>1. SignTypeOK' /\ PublishedAreAuthentic'
  BY DEF SignTypeOK, PublishedAreAuthentic, Authentic
<1>2. CASE formal' = formal
  BY <1>1, <1>2 DEF DecisionInStep, Ended, Authentic
<1>3. CASE formal' # formal
  <2>1. ~Ended
    BY <1>3 DEF FormalInv, RowsOfState, Ended, FormalRoundNext, SealContext, CloseFormalSearch,
                RevealFormalHoldout, CloseFormalHoldout, RecordFormalComparison, ReserveFormal,
                EndFormalCharge, BuildBundle, FinalizeFormalRound
  <2>2. /\ formal'.round \notin {"completed", "rejected"}
        /\ formal'.round = "awaiting_signoff" => formal'.task = "awaiting_signoff"
    BY <1>3 DEF FormalInv, FormalTypeOK, FormalRoundNext, SealContext, CloseFormalSearch,
                RevealFormalHoldout, CloseFormalHoldout, RecordFormalComparison, ReserveFormal,
                EndFormalCharge, BuildBundle, FinalizeFormalRound, AwaitSignoff
  <2>3. signIntent.state = "absent"
    BY <2>1 DEF DecisionInStep, Ended, SignTypeOK
  <2> QED
    BY <1>1, <2>2, <2>3 DEF DecisionInStep, Ended, Authentic
<1> QED
  BY <1>2, <1>3

LEMMA DecisionStep == FormalInv /\ SignInv /\ [SignNext]_signVars => SignInv'
<1> SUFFICES ASSUME FormalInv, SignInv, [SignNext]_signVars PROVE SignInv'
  OBVIOUS
<1> USE DEF SignInv, SignTypeOK
<1>1. CASE FormalRoundNext /\ UNCHANGED <<signIntent, outbox, signoff, store, publication>>
  BY <1>1, RoundKeepsDecision
<1>2. ASSUME NEW d \in Decision, CreateSignIntent(d) PROVE SignInv'
  <2>1. outbox.artifact = Nothing /\ signoff = Nothing
    BY <1>2 DEF CreateSignIntent, DecisionInStep
  <2>2. \A p \in Publisher : publication[p] = Nothing
    BY <1>2 DEF CreateSignIntent, PublishedAreAuthentic
  <2> QED
    BY <1>2, <2>1, <2>2 DEF CreateSignIntent, DecisionInStep, PublishedAreAuthentic, Ended, roundRows
<1>3. ASSUME NEW p \in Publisher, NEW k \in Key, Publish(p, k) PROVE SignInv'
  <2> DEFINE a == [decision |-> signIntent.decision, key |-> k]
  <2>1. a \in Artifact
    BY <1>3 DEF Publish, Artifact, DecisionInStep
  <2> QED
    BY <1>3, <2>1 DEF Publish, DecisionInStep, PublishedAreAuthentic, Authentic, Ended, roundRows
<1>4. ASSUME NEW p \in Publisher, ReadOutbox(p) \/ DropPublication(p) PROVE SignInv'
  BY <1>4 DEF ReadOutbox, DropPublication, DecisionInStep, PublishedAreAuthentic, Authentic,
              Ended, roundRows
<1>5. ASSUME NEW p \in Publisher, RecordArtifact(p) PROVE SignInv'
  BY <1>5 DEF RecordArtifact, DecisionInStep, PublishedAreAuthentic, Authentic, Ended, roundRows
<1>6. ASSUME NEW p \in Publisher, FinalizeSignoff(p) PROVE SignInv'
  BY <1>6 DEF FinalizeSignoff, Finalizable, DecisionInStep, PublishedAreAuthentic, Authentic,
              Ended, FormalInv, FormalTypeOK
<1>7. CASE UNCHANGED signVars
  BY <1>7 DEF signVars, roundRows, DecisionInStep, PublishedAreAuthentic, Authentic, Ended
<1> HIDE DEF SignInv
<1> QED
  BY <1>1, <1>2, <1>3, <1>4, <1>5, <1>6, <1>7 DEF SignNext

(* Whatever the round, the publishers and the audit do, and wherever they    *)
(* die: rows, members, ledger, intent, outbox and store agree.               *)
THEOREM FormalInvariant == SignSpec => [](FormalInv /\ SignInv)
<1>1. SignInit => FormalInv /\ SignInv
  <2> SUFFICES ASSUME SignInit PROVE SignInv
    BY FormalInit DEF SignInit
  <2>1. formal.round = "correctness"
    BY DEF SignInit, FormalRoundInit
  <2> QED
    BY <2>1 DEF SignInit, SignInv, SignTypeOK, DecisionInStep, PublishedAreAuthentic, Ended
<1>2. (FormalInv /\ SignInv) /\ [SignNext]_signVars => (FormalInv /\ SignInv)'
  BY RoundMoves, FormalStep, DecisionStep DEF SignInv
<1> QED
  BY <1>1, <1>2, PTL DEF SignSpec

(* FormalEvidenceStands, of finalize_formal_search_round: the evidence that  *)
(* a human is asked to sign shows one chain of rows that never change again. *)
THEOREM EvidenceStands == SignSpec => []FormalEvidenceStands
<1>1. FormalInv => FormalEvidenceStands
  <2> SUFFICES ASSUME FormalInv, record.evidence # Nothing PROVE FormalEvidenceStands
    BY DEF FormalEvidenceStands
  <2>1. EvidenceIsRows /\ LedgerStands /\ RowsAgree /\ RowsOfState /\ FormalTypeOK
    BY DEF FormalInv
  <2>2. record.search # Nothing
    BY <2>1 DEF RowsOfState, Ended
  <2> QED
    BY <2>1, <2>2 DEF EvidenceIsRows, LedgerStands, RowsAgree, FormalEvidenceStands
<1> QED
  BY <1>1, FormalInvariant, PTL

(* SignoffAudited, of reconcile_formal_round_signoff: a round is signed with *)
(* the bytes that the outbox names and where the human's decision leads, and *)
(* until then the audit names a step that is possible.                       *)
THEOREM SignoffsAudited == SignSpec => []SignoffAudited
<1>1. FormalInv /\ SignInv => SignoffAudited
  <2> SUFFICES ASSUME FormalInv, SignInv PROVE SignoffAudited
    OBVIOUS
  <2> USE DEF SignInv, SignTypeOK, DecisionInStep
  <2>1. CASE signIntent.state \in {"absent", "preparing"}
    <3>1. SignoffAction \in {"create_intent", "not_signable", "publish_artifact"}
      BY <2>1 DEF SignoffAction
    <3> QED
      BY <2>1, <3>1 DEF SignoffAudited, SignoffAction, Ended
  <2>2. CASE signIntent.state = "artifact_published"
    <3>1. SignoffAction = "finalize_signoff"
      BY <2>2 DEF SignoffAction
    <3> QED
      BY <2>2, <3>1 DEF SignoffAudited, Finalizable, Ended
  <2>3. CASE signIntent.state = "finalized"
    <3>1. signoff = outbox.artifact /\ signoff # Nothing
      BY <2>3
    <3>2. SignoffAction = "complete"
      BY <3>1 DEF SignoffAction
    <3> QED
      BY <2>3, <3>1, <3>2 DEF SignoffAudited, Authentic, Ended
  <2> QED
    BY <2>1, <2>2, <2>3
<1> QED
  BY <1>1, FormalInvariant, PTL

-----------------------------------------------------------------------------
(* The clock sessions of a device and their recoveries.                    *)
(*                                                                         *)
(* DeviceAccounted is not inductive. What carries it is where a program    *)
(* may be while it has control of the device: a session that still holds   *)
(* the lease finds in the journal what it wrote last, a recovery that has  *)
(* claimed an operation keeps the device in quarantine, and of a program   *)
(* that has verified the device nobody else can have made it manual but    *)
(* late. Control that is lost never comes back.                            *)

\* Where a session has an intent in the journal and is not over.
Engaged ==
  {"begun", "applying", "applied", "active", "restore", "restoring",
   "rewriting", "restored", "verified"}

\* Where a recovery has claimed an operation and not settled it.
Claiming == {"claimed", "rewriting", "restored", "verified", "failed"}

NotManual == device # "manual" \/ late

OneOpen == \A s, t \in Unresolved : s = t

OpenIsHeld ==
  /\ Unresolved # {} => lease.state # "available"
  /\ lease.state # "available" => lease.holder \in Sessions

ClaimsMatch ==
  /\ \A r \in Recoveries : attempts[r] = "claimed" =>
       /\ recov[r].op \in Sessions
       /\ journal[recov[r].op] = "recovery_claimed"
       /\ Quarantined
  /\ \A r, q \in Recoveries : attempts[r] = "claimed" /\ attempts[q] = "claimed" => r = q
  /\ \A s \in Sessions : journal[s] = "recovery_claimed" =>
       \E r \in Recoveries : attempts[r] = "claimed" /\ recov[r].op = s
  /\ \A r \in Recoveries : recov[r].pc \in Claiming => attempts[r] = "claimed"

OwnerKnows ==
  \A s \in Sessions :
    /\ Owned(s) /\ sess[s].pc \in Engaged => journal[s] = sess[s].wrote
    /\ sess[s].pc \in {"begun", "applying", "applied"} =>
         sess[s].wrote = "mutation_possible"
    /\ sess[s].pc \in {"new", "checking", "captured"} => journal[s] = "none"

VerifiedHolds ==
  /\ \A s \in Sessions : Owned(s) /\ sess[s].pc = "verified" => NotManual
  /\ \A r \in Recoveries : recov[r].pc = "verified" => NotManual

ManualIsOpen == NotManual \/ Unresolved # {}

CInv ==
  /\ CTypeOK
  /\ OneOpen
  /\ OpenIsHeld
  /\ ClaimsMatch
  /\ OwnerKnows
  /\ VerifiedHolds
  /\ ManualIsOpen

USE DEF OpenStates, Allowed, Unresolved, Owned, Quarantined

-----------------------------------------------------------------------------
\* The invariant holds of the empty journal.
LEMMA ClockInitOK == ClockInit => CInv
<1> SUFFICES ASSUME ClockInit PROVE CInv
  OBVIOUS
<1> USE DEF ClockInit
<1>1. CTypeOK
  BY DEF CTypeOK
<1>2. Unresolved = {}
  OBVIOUS
<1>3. OneOpen /\ OpenIsHeld
  BY <1>2 DEF OneOpen, OpenIsHeld
<1>4. ClaimsMatch
  BY DEF ClaimsMatch, Claiming
<1>5. OwnerKnows
  BY DEF OwnerKnows, Engaged
<1>6. VerifiedHolds /\ ManualIsOpen
  BY DEF VerifiedHolds, ManualIsOpen, NotManual
<1> QED BY <1>1, <1>3, <1>4, <1>5, <1>6 DEF CInv

\* The lease of the device and what happens to it keep the invariant: a lease
\* ends in quarantine, and the device is available again only when no operation
\* is open.
LEMMA PlaneKeeps ==
  ASSUME CInv,
         LoseLease \/ SettleCleanup \/ ChangeTarget
  PROVE  CInv'
<1> USE DEF CInv
<1>1. CASE LoseLease
  <2> USE <1>1 DEF LoseLease
  <2>1. CTypeOK'
    BY DEF CTypeOK
  <2>2. OpenIsHeld'
    BY DEF OpenIsHeld
  <2>3. ClaimsMatch'
    BY DEF ClaimsMatch, Claiming
  <2>4. OwnerKnows'
    BY DEF OwnerKnows, Engaged
  <2>5. VerifiedHolds'
    BY DEF VerifiedHolds, NotManual
  <2>6. (OneOpen /\ ManualIsOpen)'
    BY DEF OneOpen, ManualIsOpen, NotManual
  <2> QED BY <2>1, <2>2, <2>3, <2>4, <2>5, <2>6
<1>2. CASE SettleCleanup
  <2> USE <1>2 DEF SettleCleanup
  <2>1. CTypeOK'
    BY DEF CTypeOK
  <2>2. OpenIsHeld'
    BY DEF OpenIsHeld
  <2>3. ClaimsMatch'
    BY DEF ClaimsMatch, Claiming
  <2>4. OwnerKnows'
    BY DEF OwnerKnows, Engaged
  <2>5. VerifiedHolds'
    BY DEF VerifiedHolds, NotManual
  <2>6. (OneOpen /\ ManualIsOpen)'
    BY DEF OneOpen, ManualIsOpen, NotManual
  <2> QED BY <2>1, <2>2, <2>3, <2>4, <2>5, <2>6
<1>3. CASE ChangeTarget
  <2> USE <1>3 DEF ChangeTarget
  <2>1. CTypeOK'
    BY DEF CTypeOK
  <2>2. VerifiedHolds'
    BY DEF VerifiedHolds, NotManual
  <2>3. ManualIsOpen'
    BY DEF ManualIsOpen, NotManual
  <2>4. (OneOpen /\ OpenIsHeld /\ ClaimsMatch /\ OwnerKnows)'
    BY DEF OneOpen, OpenIsHeld, ClaimsMatch, OwnerKnows, Claiming, Engaged
  <2> QED BY <2>1, <2>2, <2>3, <2>4
<1> QED BY <1>1, <1>2, <1>3

\* A session keeps the invariant, wherever it is paused: what it writes it writes
\* to its own operation, and only from the state it believes it to be in.
LEMMA SessionKeeps ==
  ASSUME CInv, NEW s \in Sessions,
         Lease(s) \/ SessionStep(s) \/ CrashSession(s)
  PROVE  CInv'
<1> USE DEF CInv, SessAt, SessGo
<1>1. CASE Lease(s)
  <2> USE <1>1 DEF Lease
  <2>1. CTypeOK'
    BY DEF CTypeOK
  <2>2. OpenIsHeld'
    BY DEF OpenIsHeld
  <2>3. ClaimsMatch'
    BY DEF ClaimsMatch, Claiming
  <2>4. OwnerKnows'
    BY DEF OwnerKnows, Engaged
  <2>5. VerifiedHolds'
    BY DEF VerifiedHolds, NotManual
  <2>6. (OneOpen /\ ManualIsOpen)'
    BY DEF OneOpen, ManualIsOpen, NotManual
  <2> QED BY <2>1, <2>2, <2>3, <2>4, <2>5, <2>6
<1>2. CASE Capture(s)
  <2> USE <1>2 DEF Capture
  <2>1. CTypeOK'
    BY DEF CTypeOK, OpenIsHeld
  <2>2. OwnerKnows'
    BY DEF OwnerKnows, Engaged
  <2>3. VerifiedHolds'
    BY DEF VerifiedHolds, NotManual
  <2>4. (OneOpen /\ OpenIsHeld /\ ClaimsMatch /\ ManualIsOpen)'
    BY DEF OneOpen, OpenIsHeld, ClaimsMatch, ManualIsOpen, Claiming, NotManual
  <2> QED BY <2>1, <2>2, <2>3, <2>4
<1>3. CASE Begin(s)
  <2> USE <1>3 DEF Begin
  <2>1. CTypeOK'
    BY DEF CTypeOK
  <2>2. OneOpen'
    BY DEF OneOpen
  <2>3. OpenIsHeld'
    BY DEF OpenIsHeld
  <2>4. ClaimsMatch'
    BY DEF ClaimsMatch, Claiming
  <2>5. OwnerKnows'
    BY DEF OwnerKnows, Engaged, CTypeOK
  <2>6. VerifiedHolds'
    BY DEF VerifiedHolds, NotManual
  <2>7. ManualIsOpen'
    BY DEF ManualIsOpen, NotManual
  <2> QED BY <2>1, <2>2, <2>3, <2>4, <2>5, <2>6, <2>7
<1>4. CASE GiveUp(s)
  <2> USE <1>4 DEF GiveUp
  <2>1. CTypeOK'
    BY DEF CTypeOK
  <2>2. OwnerKnows'
    BY DEF OwnerKnows, Engaged
  <2>3. VerifiedHolds'
    BY DEF VerifiedHolds, NotManual
  <2>4. (OneOpen /\ OpenIsHeld /\ ClaimsMatch /\ ManualIsOpen)'
    BY DEF OneOpen, OpenIsHeld, ClaimsMatch, ManualIsOpen, Claiming, NotManual
  <2> QED BY <2>1, <2>2, <2>3, <2>4
<1>5. CASE CheckApply(s)
  <2> USE <1>5 DEF CheckApply
  <2>1. CTypeOK'
    BY DEF CTypeOK
  <2>2. OwnerKnows'
    BY DEF OwnerKnows, Engaged
  <2>3. VerifiedHolds'
    BY DEF VerifiedHolds, NotManual
  <2>4. (OneOpen /\ OpenIsHeld /\ ClaimsMatch /\ ManualIsOpen)'
    BY DEF OneOpen, OpenIsHeld, ClaimsMatch, ManualIsOpen, Claiming, NotManual
  <2> QED BY <2>1, <2>2, <2>3, <2>4
<1>6. CASE Apply(s)
  <2> USE <1>6 DEF Apply
  <2>1. CTypeOK'
    BY DEF CTypeOK
  <2>2. OwnerKnows'
    BY DEF OwnerKnows, Engaged
  <2>3. VerifiedHolds'
    <3>1. CASE device' = device
      BY <3>1 DEF CTypeOK, VerifiedHolds, NotManual
    <3>2. CASE device' # device /\ ~Owned(s)
      <4>1. late'
        BY <3>2
      <4> QED BY <4>1 DEF VerifiedHolds, NotManual
    <3>3. CASE Owned(s)
      <4>1. \A t \in Sessions : Owned(t)' => sess'[t].pc # "verified"
        BY <3>3 DEF CTypeOK
      <4>2. \A r \in Recoveries : recov'[r].pc # "verified"
        BY <3>3 DEF ClaimsMatch, Claiming
      <4> QED BY <4>1, <4>2 DEF VerifiedHolds
    <3> QED BY <3>1, <3>2, <3>3
  <2>4. ManualIsOpen'
    BY DEF ManualIsOpen, NotManual, OwnerKnows, VerifiedHolds, Engaged,
           Claiming
  <2>5. (OneOpen /\ OpenIsHeld /\ ClaimsMatch)'
    BY DEF OneOpen, OpenIsHeld, ClaimsMatch, Claiming
  <2> QED BY <2>1, <2>2, <2>3, <2>4, <2>5
<1>7. CASE Activate(s)
  <2> USE <1>7 DEF Activate, Persist
  <2>1. CTypeOK'
    BY DEF CTypeOK, OpenIsHeld
  <2>2. OneOpen'
    BY DEF OneOpen, CTypeOK
  <2>3. OpenIsHeld'
    BY DEF OpenIsHeld
  <2>4. ClaimsMatch'
    BY DEF ClaimsMatch, Claiming, CTypeOK
  <2>5. OwnerKnows'
    BY DEF OwnerKnows, Engaged, CTypeOK
  <2>6. VerifiedHolds'
    BY DEF VerifiedHolds, NotManual, CTypeOK
  <2>7. ManualIsOpen'
    BY DEF ManualIsOpen, NotManual, CTypeOK
  <2> QED BY <2>1, <2>2, <2>3, <2>4, <2>5, <2>6, <2>7
<1>8. CASE Exit(s)
  <2> USE <1>8 DEF Exit
  <2>1. CTypeOK'
    BY DEF CTypeOK
  <2>2. OwnerKnows'
    BY DEF OwnerKnows, Engaged
  <2>3. VerifiedHolds'
    BY DEF VerifiedHolds, NotManual
  <2>4. (OneOpen /\ OpenIsHeld /\ ClaimsMatch /\ ManualIsOpen)'
    BY DEF OneOpen, OpenIsHeld, ClaimsMatch, ManualIsOpen, Claiming, NotManual
  <2> QED BY <2>1, <2>2, <2>3, <2>4
<1>9. CASE BeginRestore(s)
  <2> USE <1>9 DEF BeginRestore, Persist
  <2>1. CTypeOK'
    BY DEF CTypeOK
  <2>2. OneOpen'
    BY DEF OneOpen
  <2>3. OpenIsHeld'
    BY DEF OpenIsHeld
  <2>4. ClaimsMatch'
    BY DEF ClaimsMatch, Claiming
  <2>5. OwnerKnows'
    BY DEF OwnerKnows, Engaged, CTypeOK
  <2>6. VerifiedHolds'
    BY DEF VerifiedHolds, NotManual
  <2>7. ManualIsOpen'
    BY DEF ManualIsOpen, NotManual
  <2> QED BY <2>1, <2>2, <2>3, <2>4, <2>5, <2>6, <2>7
<1>10. CASE CheckRestore(s)
  <2> USE <1>10 DEF CheckRestore
  <2>1. CTypeOK'
    BY DEF CTypeOK
  <2>2. OwnerKnows'
    BY DEF OwnerKnows, Engaged
  <2>3. VerifiedHolds'
    BY DEF VerifiedHolds, NotManual
  <2>4. (OneOpen /\ OpenIsHeld /\ ClaimsMatch /\ ManualIsOpen)'
    BY DEF OneOpen, OpenIsHeld, ClaimsMatch, ManualIsOpen, Claiming, NotManual
  <2> QED BY <2>1, <2>2, <2>3, <2>4
<1>11. CASE Rewrite(s)
  <2> USE <1>11 DEF Rewrite
  <2>1. CTypeOK'
    BY DEF CTypeOK
  <2>2. OwnerKnows'
    BY DEF OwnerKnows, Engaged
  <2>3. VerifiedHolds'
    BY DEF VerifiedHolds, NotManual
  <2>4. ManualIsOpen'
    BY DEF ManualIsOpen, NotManual
  <2>5. (OneOpen /\ OpenIsHeld /\ ClaimsMatch)'
    BY DEF OneOpen, OpenIsHeld, ClaimsMatch, Claiming
  <2> QED BY <2>1, <2>2, <2>3, <2>4, <2>5
<1>12. CASE Verify(s)
  <2> USE <1>12 DEF Verify
  <2>1. CTypeOK'
    BY DEF CTypeOK
  <2>2. OwnerKnows'
    BY DEF OwnerKnows, Engaged
  <2>3. VerifiedHolds'
    BY DEF VerifiedHolds, NotManual
  <2>4. (OneOpen /\ OpenIsHeld /\ ClaimsMatch /\ ManualIsOpen)'
    BY DEF OneOpen, OpenIsHeld, ClaimsMatch, ManualIsOpen, Claiming, NotManual
  <2> QED BY <2>1, <2>2, <2>3, <2>4
<1>13. CASE Resolve(s)
  <2> USE <1>13 DEF Resolve, Persist
  <2>1. CTypeOK'
    BY DEF CTypeOK
  <2>2. OneOpen'
    BY DEF OneOpen
  <2>3. OpenIsHeld'
    BY DEF OpenIsHeld
  <2>4. ClaimsMatch'
    BY DEF ClaimsMatch, Claiming
  <2>5. OwnerKnows'
    BY DEF OwnerKnows, Engaged, CTypeOK
  <2>6. VerifiedHolds'
    BY DEF VerifiedHolds, NotManual
  <2>7. ManualIsOpen'
    BY DEF ManualIsOpen, NotManual, VerifiedHolds
  <2> QED BY <2>1, <2>2, <2>3, <2>4, <2>5, <2>6, <2>7
<1>14. CASE Unconfirm(s)
  <2> USE <1>14 DEF Unconfirm
  <2>1. CTypeOK'
    BY DEF CTypeOK
  <2>2. OwnerKnows'
    BY DEF OwnerKnows, Engaged
  <2>3. VerifiedHolds'
    BY DEF VerifiedHolds, NotManual
  <2>4. (OneOpen /\ OpenIsHeld /\ ClaimsMatch /\ ManualIsOpen)'
    BY DEF OneOpen, OpenIsHeld, ClaimsMatch, ManualIsOpen, Claiming, NotManual
  <2> QED BY <2>1, <2>2, <2>3, <2>4
<1>15. CASE Quarantine(s)
  <2> USE <1>15 DEF Quarantine, Persist
  <2>1. CTypeOK'
    BY DEF CTypeOK, ClaimsMatch, OwnerKnows
  <2>2. OneOpen'
    BY DEF OneOpen, CTypeOK
  <2>3. OpenIsHeld'
    BY DEF OpenIsHeld
  <2>4. ClaimsMatch'
    BY DEF ClaimsMatch, Claiming, CTypeOK
  <2>5. OwnerKnows'
    BY DEF OwnerKnows, Engaged, CTypeOK
  <2>6. VerifiedHolds'
    BY DEF VerifiedHolds, NotManual
  <2>7. ManualIsOpen'
    BY DEF ManualIsOpen, NotManual, CTypeOK
  <2> QED BY <2>1, <2>2, <2>3, <2>4, <2>5, <2>6, <2>7
<1>16. CASE CrashSession(s)
  <2> USE <1>16 DEF CrashSession
  <2>1. CTypeOK'
    BY DEF CTypeOK
  <2>2. OwnerKnows'
    BY DEF OwnerKnows, Engaged
  <2>3. VerifiedHolds'
    BY DEF VerifiedHolds, NotManual
  <2>4. (OneOpen /\ OpenIsHeld /\ ClaimsMatch /\ ManualIsOpen)'
    BY DEF OneOpen, OpenIsHeld, ClaimsMatch, ManualIsOpen, Claiming, NotManual
  <2> QED BY <2>1, <2>2, <2>3, <2>4
<1> QED BY <1>1, <1>2, <1>3, <1>4, <1>5, <1>6, <1>7, <1>8, <1>9, <1>10, <1>11, <1>12, <1>13, <1>14, <1>15, <1>16 DEF SessionStep

\* A recovery keeps the invariant: it claims the one open operation of a device
\* in quarantine, and settles no other.
LEMMA RecoveryKeeps ==
  ASSUME CInv, NEW r \in Recoveries,
         RecoveryStep(r) \/ CrashRecovery(r)
  PROVE  CInv'
<1> USE DEF CInv, RecAt, RecGo
<1>1. CASE Inspect(r)
  <2> USE <1>1 DEF Inspect
  <2>1. CTypeOK'
    BY DEF CTypeOK
  <2>2. ClaimsMatch'
    BY DEF ClaimsMatch, Claiming
  <2>3. VerifiedHolds'
    BY DEF VerifiedHolds, NotManual
  <2>4. (OneOpen /\ OpenIsHeld /\ OwnerKnows /\ ManualIsOpen)'
    BY DEF OneOpen, OpenIsHeld, OwnerKnows, ManualIsOpen, Engaged, NotManual
  <2> QED BY <2>1, <2>2, <2>3, <2>4
<1>2. CASE ClaimRecovery(r)
  <2> USE <1>2 DEF ClaimRecovery
  <2>1. CTypeOK'
    BY DEF CTypeOK
  <2>2. OneOpen'
    BY DEF OneOpen
  <2>3. OpenIsHeld'
    BY DEF OpenIsHeld
  <2>4. ClaimsMatch'
    BY DEF ClaimsMatch, Claiming, CTypeOK
  <2>5. OwnerKnows'
    BY DEF OwnerKnows, Engaged
  <2>6. VerifiedHolds'
    BY DEF VerifiedHolds, NotManual
  <2>7. ManualIsOpen'
    BY DEF ManualIsOpen, NotManual
  <2> QED BY <2>1, <2>2, <2>3, <2>4, <2>5, <2>6, <2>7
<1>3. CASE Withdraw(r)
  <2> USE <1>3 DEF Withdraw
  <2>1. CTypeOK'
    BY DEF CTypeOK
  <2>2. ClaimsMatch'
    BY DEF ClaimsMatch, Claiming
  <2>3. VerifiedHolds'
    BY DEF VerifiedHolds, NotManual
  <2>4. (OneOpen /\ OpenIsHeld /\ OwnerKnows /\ ManualIsOpen)'
    BY DEF OneOpen, OpenIsHeld, OwnerKnows, ManualIsOpen, Engaged, NotManual
  <2> QED BY <2>1, <2>2, <2>3, <2>4
<1>4. CASE Reinspect(r)
  <2> USE <1>4 DEF Reinspect
  <2>1. CTypeOK'
    BY DEF CTypeOK, OpenIsHeld
  <2>2. ClaimsMatch'
    BY DEF ClaimsMatch, Claiming
  <2>3. VerifiedHolds'
    BY DEF VerifiedHolds, NotManual
  <2>4. (OneOpen /\ OpenIsHeld /\ OwnerKnows /\ ManualIsOpen)'
    BY DEF OneOpen, OpenIsHeld, OwnerKnows, ManualIsOpen, Engaged, NotManual
  <2> QED BY <2>1, <2>2, <2>3, <2>4
<1>5. CASE RecoveryWrite(r)
  <2> USE <1>5 DEF RecoveryWrite
  <2>1. CTypeOK'
    BY DEF CTypeOK
  <2>2. ClaimsMatch'
    BY DEF ClaimsMatch, Claiming
  <2>3. VerifiedHolds'
    BY DEF VerifiedHolds, NotManual
  <2>4. ManualIsOpen'
    BY DEF ManualIsOpen, NotManual
  <2>5. (OneOpen /\ OpenIsHeld /\ OwnerKnows)'
    BY DEF OneOpen, OpenIsHeld, OwnerKnows, Engaged
  <2> QED BY <2>1, <2>2, <2>3, <2>4, <2>5
<1>6. CASE RecoveryVerify(r)
  <2> USE <1>6 DEF RecoveryVerify
  <2>1. CTypeOK'
    BY DEF CTypeOK
  <2>2. ClaimsMatch'
    BY DEF ClaimsMatch, Claiming
  <2>3. VerifiedHolds'
    BY DEF VerifiedHolds, NotManual
  <2>4. (OneOpen /\ OpenIsHeld /\ OwnerKnows /\ ManualIsOpen)'
    BY DEF OneOpen, OpenIsHeld, OwnerKnows, ManualIsOpen, Engaged, NotManual
  <2> QED BY <2>1, <2>2, <2>3, <2>4
<1>7. CASE RecoveryRaises(r)
  <2> USE <1>7 DEF RecoveryRaises
  <2>1. CTypeOK'
    BY DEF CTypeOK
  <2>2. ClaimsMatch'
    BY DEF ClaimsMatch, Claiming
  <2>3. VerifiedHolds'
    BY DEF VerifiedHolds, NotManual
  <2>4. (OneOpen /\ OpenIsHeld /\ OwnerKnows /\ ManualIsOpen)'
    BY DEF OneOpen, OpenIsHeld, OwnerKnows, ManualIsOpen, Engaged, NotManual
  <2> QED BY <2>1, <2>2, <2>3, <2>4
<1>8. CASE FinishRestored(r)
  <2> USE <1>8 DEF FinishRestored, Finish
  <2>1. CTypeOK'
    BY DEF CTypeOK, ClaimsMatch
  <2>2. OneOpen'
    BY DEF OneOpen
  <2>3. OpenIsHeld'
    BY DEF OpenIsHeld
  <2>4. ClaimsMatch'
    BY DEF ClaimsMatch, Claiming, CTypeOK
  <2>5. OwnerKnows'
    BY DEF OwnerKnows, Engaged
  <2>6. VerifiedHolds'
    BY DEF VerifiedHolds, NotManual
  <2>7. ManualIsOpen'
    BY DEF ManualIsOpen, NotManual, VerifiedHolds
  <2> QED BY <2>1, <2>2, <2>3, <2>4, <2>5, <2>6, <2>7
<1>9. CASE FinishFailed(r)
  <2> USE <1>9 DEF FinishFailed, Finish
  <2>1. CTypeOK'
    BY DEF CTypeOK, ClaimsMatch
  <2>2. OneOpen'
    BY DEF OneOpen
  <2>3. OpenIsHeld'
    BY DEF OpenIsHeld
  <2>4. ClaimsMatch'
    BY DEF ClaimsMatch, Claiming, CTypeOK
  <2>5. OwnerKnows'
    BY DEF OwnerKnows, Engaged, CTypeOK
  <2>6. VerifiedHolds'
    BY DEF VerifiedHolds, NotManual
  <2>7. ManualIsOpen'
    BY DEF ManualIsOpen, NotManual
  <2> QED BY <2>1, <2>2, <2>3, <2>4, <2>5, <2>6, <2>7
<1>10. CASE CrashRecovery(r)
  <2> USE <1>10 DEF CrashRecovery
  <2>1. CTypeOK'
    BY DEF CTypeOK
  <2>2. ClaimsMatch'
    BY DEF ClaimsMatch, Claiming
  <2>3. VerifiedHolds'
    BY DEF VerifiedHolds, NotManual
  <2>4. (OneOpen /\ OpenIsHeld /\ OwnerKnows /\ ManualIsOpen)'
    BY DEF OneOpen, OpenIsHeld, OwnerKnows, ManualIsOpen, Engaged, NotManual
  <2> QED BY <2>1, <2>2, <2>3, <2>4
<1> QED BY <1>1, <1>2, <1>3, <1>4, <1>5, <1>6, <1>7, <1>8, <1>9, <1>10 DEF RecoveryStep

-----------------------------------------------------------------------------
\* A step that changes nothing keeps the invariant.
LEMMA StutterKeeps == CInv /\ UNCHANGED cvars => CInv'
  BY DEF CInv, cvars, CTypeOK, OneOpen, OpenIsHeld, ClaimsMatch, OwnerKnows,
         VerifiedHolds, ManualIsOpen, NotManual, Engaged, Claiming

\* The invariant holds in every state the sessions and recoveries can reach.
THEOREM ControlInvariant == ClockSpec => []CInv
<1>1. CInv /\ [ClockNext]_cvars => CInv'
  BY PlaneKeeps, SessionKeeps, RecoveryKeeps, StutterKeeps DEF ClockNext
<1> QED BY <1>1, ClockInitOK, PTL DEF ClockSpec

\* The journal, its attempts and the programs always hold values of their types
\* (bw20_clock_journal.py, the checks of its two tables).
THEOREM ClockTypesHold == ClockSpec => []CTypeOK
<1>1. CInv => CTypeOK
  BY DEF CInv
<1> QED BY <1>1, ControlInvariant, PTL

\* Wherever sessions and recoveries die or fail, a device left in the policy of
\* a session has an open operation in the journal and is not available; only a
\* write of a session that had lost its lease escapes.
THEOREM DeviceIsAccounted == ClockSpec => []DeviceAccounted
<1>1. CInv => DeviceAccounted
  BY DEF CInv, ManualIsOpen, NotManual, OpenIsHeld, DeviceAccounted
<1> QED BY <1>1, ControlInvariant, PTL

\* claim_recovery and finish_recovery: an operation is claimed exactly when one
\* recovery attempt is, and at most one operation is open.
THEOREM OneTakesOver == ClockSpec => []TakenOverOnce
<1> DEFINE Claimed == {r \in Recoveries : attempts[r] = "claimed"}
           Taken == {s \in Sessions : journal[s] = "recovery_claimed"}
<1>1. CInv => TakenOverOnce
  <2> SUFFICES ASSUME CInv PROVE TakenOverOnce
    OBVIOUS
  <2> USE DEF CInv
  <2>1. Cardinality(Unresolved) <= 1
    <3>1. CASE Unresolved = {}
      BY <3>1, FS_EmptySet
    <3>2. CASE Unresolved # {}
      <4>1. PICK s \in Unresolved : TRUE
        BY <3>2
      <4>2. Unresolved = {s}
        BY <4>1 DEF OneOpen
      <4> QED BY <4>2, FS_Singleton
    <3> QED BY <3>1, <3>2
  <2>2. Cardinality(Claimed) = Cardinality(Taken)
    <3>1. CASE Claimed = {}
      <4>1. Taken = {}
        BY <3>1 DEF ClaimsMatch
      <4> QED BY <3>1, <4>1
    <3>2. CASE Claimed # {}
      <4>1. PICK r \in Claimed : TRUE
        BY <3>2
      <4>2. Claimed = {r}
        BY <4>1 DEF ClaimsMatch
      <4>3. Taken = {recov[r].op}
        BY <4>1 DEF ClaimsMatch, OneOpen
      <4>4. Cardinality(Claimed) = 1 /\ Cardinality(Taken) = 1
        BY <4>2, <4>3, FS_Singleton
      <4> QED BY <4>4
    <3> QED BY <3>1, <3>2
  <2>3. \A r \in Recoveries :
          attempts[r] = "claimed" => journal[recov[r].op] = "recovery_claimed"
    BY DEF ClaimsMatch
  <2> QED BY <2>1, <2>2, <2>3 DEF TakenOverOnce
<1> QED BY <1>1, ControlInvariant, PTL

\* What a session may still do to an operation that a recovery has claimed or
\* that is restored: nothing (transition names the state it expects).
LEMMA SessionCannotSettle ==
  ASSUME CInv, NEW t \in Sessions, Lease(t) \/ SessionStep(t) \/ CrashSession(t),
         NEW s \in Sessions, journal[s] \in {"recovery_claimed", "restored"}
  PROVE  journal'[s] = journal[s]
<1> USE DEF CInv
<1>1. CASE Begin(t)
  BY <1>1 DEF Begin, SessAt, OwnerKnows, CTypeOK
<1>2. CASE Activate(t) \/ BeginRestore(t) \/ Resolve(t) \/ Quarantine(t)
  BY <1>2 DEF Activate, BeginRestore, Resolve, Quarantine, Persist, CTypeOK
<1>3. CASE UNCHANGED journal
  BY <1>3
<1> QED
  BY <1>1, <1>2, <1>3 DEF SessionStep, Lease, CrashSession, Capture, GiveUp,
     CheckApply, Apply, Exit, CheckRestore, Rewrite, Verify, Unconfirm

\* What a recovery does to it: it settles the operation of its own claim.
LEMMA RecoverySettlesItsOwn ==
  ASSUME CInv, NEW r \in Recoveries, RecoveryStep(r) \/ CrashRecovery(r),
         NEW s \in Sessions, journal[s] \in {"recovery_claimed", "restored"},
         journal'[s] # journal[s]
  PROVE  /\ journal[s] = "recovery_claimed"
         /\ recov[r].op = s /\ attempts[r] = "claimed"
         /\ attempts'[r] = (IF journal'[s] = "restored" THEN "restored" ELSE "failed")
<1> USE DEF CInv
<1>1. CASE ClaimRecovery(r)
  BY <1>1 DEF ClaimRecovery, CTypeOK
<1>2. CASE FinishRestored(r)
  BY <1>2 DEF FinishRestored, Finish, CTypeOK
<1>3. CASE FinishFailed(r)
  BY <1>3 DEF FinishFailed, Finish, CTypeOK
<1>4. CASE UNCHANGED journal
  BY <1>4
<1> QED
  BY <1>1, <1>2, <1>3, <1>4 DEF RecoveryStep, CrashRecovery, Inspect, Withdraw,
     Reinspect, RecoveryWrite, RecoveryVerify, RecoveryRaises

\* An operation that a recovery has claimed is settled by that recovery alone,
\* and a restored one is never opened again.
THEOREM ClaimantSettles == ClockSpec => SettledByItsClaimant
<1> DEFINE Settled ==
      \A s \in Sessions :
        journal[s] \in {"recovery_claimed", "restored"} /\ journal'[s] # journal[s] =>
          /\ journal[s] = "recovery_claimed"
          /\ \E r \in Recoveries :
               /\ recov[r].op = s /\ attempts[r] = "claimed"
               /\ attempts'[r] = (IF journal'[s] = "restored" THEN "restored" ELSE "failed")
<1>1. CInv /\ [ClockNext]_cvars => [Settled]_cvars
  <2> SUFFICES ASSUME CInv, ClockNext, NEW s \in Sessions,
                      journal[s] \in {"recovery_claimed", "restored"},
                      journal'[s] # journal[s]
               PROVE  /\ journal[s] = "recovery_claimed"
                      /\ \E r \in Recoveries :
                           /\ recov[r].op = s /\ attempts[r] = "claimed"
                           /\ attempts'[r] = (IF journal'[s] = "restored"
                                                THEN "restored" ELSE "failed")
    OBVIOUS
  <2>1. ~(LoseLease \/ SettleCleanup \/ ChangeTarget)
    BY DEF LoseLease, SettleCleanup, ChangeTarget
  <2>2. PICK r \in Recoveries : RecoveryStep(r) \/ CrashRecovery(r)
    BY <2>1, SessionCannotSettle DEF ClockNext
  <2> QED BY <2>2, RecoverySettlesItsOwn
<1> QED BY <1>1, ControlInvariant, PTL DEF ClockSpec, SettledByItsClaimant
=============================================================================
