------------------------ MODULE FormalExecutionProofs ------------------------
(***************************************************************************)
(* What is done by hand and by request around a formal round, for any      *)
(* number of calls, keys, requests, identities, plans and moments: the     *)
(* verdicts of a formal start are true and its ends final                  *)
(* (StartVerdictStands, StartEndsForGood), the phases are accounted for    *)
(* (PhaseAccounted), and so are the retries of a performance job           *)
(* (RetriesAccounted).                                                     *)
(***************************************************************************)
EXTENDS FormalStart, PhaseExecution, PerformanceRetry, SequenceTheorems, TLAPS

-----------------------------------------------------------------------------
(* The formal start: what a call that is under way has found out so far.   *)

\* A call that is past the insert has a row to speak of.
HasRow == {"read", "plan", "execution", "evaluation", "verify", "record", "cancel"}

Verdict == {"awaiting", "ready", "plan_invalid", "authority_invalid"}

Call == [step : HasRow \cup {"idle", "look", "insert"}, key : StartKey \cup {"none"},
         now : Moment, missing : BOOLEAN, verdict : Verdict \cup {"none"}]

StartTypeOK ==
    /\ clock \in Moment /\ drifted \in BOOLEAN
    /\ store \in [Start_Authority -> Worth \cup {"absent"}]
    /\ wish \in IntentRow \cup {NoIntent}
    /\ clerk \in [Clerk -> Call]

\* The world at moment now gives reason for verdict v.
Reason(v, now) ==
    /\ v = "ready" => now < PreviewEnds /\ \A a \in Start_Authority : Verified(a, now)
    /\ v = "plan_invalid" => now >= PreviewEnds \/ drifted
    /\ v = "authority_invalid" =>
          \E a \in Start_Authority : \/ store[a] \in Worth \ {"good"}
                                     \/ now \notin Validity[a].from .. Validity[a].until - 1

Loaded(a) == store[a] \in {"good", "unsigned"}

ClerkKnows(c) ==
    /\ c.step \in HasRow => wish # NoIntent
    /\ c.step \in {"look", "insert"} => c.key \in StartKey
    /\ c.step \in {"execution", "evaluation", "verify"} => c.now < PreviewEnds
    /\ c.step \in {"evaluation", "verify"} => c.missing \/ Loaded("execution")
    /\ c.step = "verify" => c.missing \/ Loaded("evaluation")
    /\ c.step = "record" => c.verdict \in Verdict /\ Reason(c.verdict, c.now)

\* What the row says was true at the moment it names.
RowStands ==
    wish # NoIntent =>
       /\ wish.state = "ready_for_round_creation" => Reason("ready", wish.ready)
       /\ Reason(wish.error, wish.updated)
       /\ wish.error # "none" => wish.state = "failed"
       /\ wish.state # "cancelled" => InOrder(wish) /\ wish.cancelled = NoTime

StartInv == StartTypeOK /\ (\A p \in Clerk : ClerkKnows(clerk[p])) /\ RowStands

\* Reasons do not go away: the store and the drift only grow.
LEMMA ReasonStays ==
  ASSUME NEW v, NEW now,
         \A a \in Start_Authority : store[a] # "absent" => store'[a] = store[a],
         drifted => drifted', Reason(v, now)
  PROVE  Reason(v, now)'
BY DEF Reason, Verified, Worth

\* What a call has found out stays true when others move.
LEMMA ClerkStillKnows ==
  ASSUME NEW q \in Clerk, clerk'[q] = clerk[q], ClerkKnows(clerk[q]),
         \A a \in Start_Authority : store[a] # "absent" => store'[a] = store[a],
         drifted => drifted', wish # NoIntent => wish' # NoIntent
  PROVE  ClerkKnows(clerk[q])'
<1>2. clerk[q].step = "record" => Reason(clerk[q].verdict, clerk[q].now)'
  BY ReasonStays DEF ClerkKnows
<1>3. \A a \in Start_Authority : Loaded(a) => Loaded(a)'
  BY DEF Loaded
<1> QED BY <1>2, <1>3 DEF ClerkKnows, Start_Authority

LEMMA OneClerkMoves ==
  ASSUME StartInv, NEW p \in Clerk,
         \A q \in Clerk \ {p} : clerk'[q] = clerk[q],
         \A a \in Start_Authority : store[a] # "absent" => store'[a] = store[a],
         drifted => drifted', wish # NoIntent => wish' # NoIntent,
         ClerkKnows(clerk[p])'
  PROVE  \A q \in Clerk : ClerkKnows(clerk[q])'
BY ClerkStillKnows DEF StartInv

\* The row stays, and so do the reasons for what it says.
LEMMA RowStaysTrue ==
  ASSUME StartInv, wish' = wish, drifted => drifted',
         \A a \in Start_Authority : store[a] # "absent" => store'[a] = store[a]
  PROVE  RowStands'
<1> SUFFICES ASSUME wish' # NoIntent PROVE RowStands'
  BY DEF RowStands
<1>1. RowStands /\ wish # NoIntent
  BY DEF StartInv
<1> DEFINE e == wish.error  t == wish.updated  r == wish.ready
<1>2. wish.state = "ready_for_round_creation" => Reason("ready", r)'
  <2>1. wish.state = "ready_for_round_creation" => Reason("ready", r)
    BY <1>1 DEF RowStands
  <2> QED BY <2>1, ReasonStays
<1>3. Reason(wish.error, wish.updated)'
  BY <1>1, ReasonStays DEF RowStands
<1> QED BY <1>1, <1>2, <1>3 DEF RowStands, InOrder

LEMMA AtEaseKnows == 0 \in Moment /\ AtEase \in Call /\ ClerkKnows(AtEase)
<1>1. 0 \in Moment
  BY MomentsAssumption DEF Moment
<1>2. AtEase \in Call
  BY <1>1 DEF AtEase, Call
<1> QED BY <1>1, <1>2 DEF AtEase, ClerkKnows, HasRow

LEMMA StartInitially == FormalStartInit => StartInv
BY AtEaseKnows DEF FormalStartInit, StartInv, StartTypeOK, RowStands

\* A call takes a step that leaves the row alone and does not end in a verdict.
LEMMA CallGoesOn ==
  ASSUME StartInv, NEW p \in Clerk, UNCHANGED <<clock, store, wish>>,
         drifted' \in BOOLEAN, drifted => drifted',
         clerk' = [clerk EXCEPT ![p] = clerk'[p]],
         clerk'[p] \in Call,
         ClerkKnows(clerk[p])'
  PROVE  StartInv'
<1>1. StartTypeOK'
  BY DEF StartInv, StartTypeOK
<1>2. \A q \in Clerk : ClerkKnows(clerk[q])'
  <2>1. \A q \in Clerk \ {p} : clerk'[q] = clerk[q]
    BY DEF StartInv, StartTypeOK
  <2> QED BY <2>1, OneClerkMoves
<1>3. RowStands'
  BY RowStaysTrue
<1> QED BY <1>1, <1>2, <1>3 DEF StartInv

LEMMA FormalStartStep == StartInv /\ [FormalStartNext]_fsvars => StartInv'
<1> SUFFICES ASSUME StartInv, [FormalStartNext]_fsvars PROVE StartInv'
  OBVIOUS
<1> USE MomentsAssumption, NoIntentAssumption
<1>0. /\ clock \in Moment /\ drifted \in BOOLEAN
      /\ \A p \in Clerk :
            /\ clerk[p] \in Call
            /\ ClerkKnows(clerk[p])
      /\ DOMAIN clerk = Clerk
  BY DEF StartInv, StartTypeOK
<1>begin. ASSUME NEW p \in Clerk, NEW step, NEW k, Begin(p, step, k),
                 \/ step = "look" /\ k \in StartKey
                 \/ step \in {"read", "cancel"} /\ k = "none" /\ wish # NoIntent
          PROVE  StartInv'
  <2>1. clerk'[p] = [step |-> step, key |-> k, now |-> clock, missing |-> FALSE, verdict |-> "none"]
    BY <1>begin, <1>0 DEF Begin, AtEase
  <2>2. ClerkKnows(clerk[p])'
    BY <2>1, <1>begin DEF ClerkKnows, Begin, HasRow
  <2>3. clerk'[p] \in Call
    BY <2>1, <1>begin, <1>0 DEF Call, HasRow
  <2>4. clerk' = [clerk EXCEPT ![p] = clerk'[p]]
    BY <2>1, <1>begin DEF Begin, AtEase
  <2> QED BY <2>2, <2>3, <2>4, <1>0, <1>begin, CallGoesOn DEF Begin
<1>reply. ASSUME NEW p \in Clerk, Reply(p), UNCHANGED <<clock, drifted, store, wish>>
          PROVE  StartInv'
  <2>1. clerk'[p] = AtEase
    BY <1>reply, <1>0 DEF Reply
  <2>2. ClerkKnows(clerk[p])'
    BY <2>1 DEF ClerkKnows, AtEase, HasRow
  <2> QED BY <2>1, <2>2, <1>0, <1>reply, AtEaseKnows, CallGoesOn DEF Reply
<1>1. ASSUME NEW p \in Clerk, NEW k \in StartKey, BeginCreate(p, k) PROVE StartInv'
  BY <1>1, <1>begin DEF BeginCreate
<1>2. ASSUME NEW p \in Clerk, BeginReconcile(p) PROVE StartInv'
  BY <1>2, <1>begin DEF BeginReconcile
<1>3. ASSUME NEW p \in Clerk, BeginCancel(p) PROVE StartInv'
  BY <1>3, <1>begin DEF BeginCancel
<1>goto. ASSUME NEW p \in Clerk, NEW step, GoTo(p, step), UNCHANGED <<clock, drifted, store, wish>>,
                \/ step = "insert" /\ clerk[p].step = "look"
                \/ step = "plan" /\ clerk[p].step = "read"
                \/ step = "execution" /\ clerk[p].step = "plan" /\ clerk[p].now < PreviewEnds
         PROVE  StartInv'
  <2>1. clerk'[p] = [clerk[p] EXCEPT !.step = step]
    BY <1>goto, <1>0 DEF GoTo, StartInv, StartTypeOK
  <2>2. ClerkKnows(clerk[p])'
    BY <2>1, <1>goto, <1>0 DEF ClerkKnows, HasRow
  <2>3. clerk' = [clerk EXCEPT ![p] = clerk'[p]]
    BY <2>1, <1>goto DEF GoTo
  <2> QED BY <2>1, <2>2, <2>3, <1>0, <1>goto, CallGoesOn DEF HasRow, Call
<1>found. ASSUME NEW p \in Clerk, Found(p), UNCHANGED <<clock, drifted, store, wish>>, wish # NoIntent
          PROVE  StartInv'
  <2>1. clerk'[p] = [clerk[p] EXCEPT !.step = "read", !.key = "none"]
    BY <1>found, <1>0 DEF Found, StartInv, StartTypeOK
  <2>2. ClerkKnows(clerk[p])'
    BY <2>1, <1>found, <1>0 DEF ClerkKnows, HasRow
  <2>3. clerk' = [clerk EXCEPT ![p] = clerk'[p]]
    BY <2>1, <1>found DEF Found
  <2> QED BY <2>1, <2>2, <2>3, <1>0, <1>found, CallGoesOn DEF HasRow, Call
<1>decide. ASSUME NEW p \in Clerk, NEW v \in Verdict, NEW t, t = clerk[p].now, Decide(p, v),
                  UNCHANGED <<clock, store, wish>>, drifted' \in BOOLEAN, drifted => drifted', clerk[p].step \in HasRow,
                  Reason(v, t)'
           PROVE  StartInv'
  <2>1. clerk'[p] = [clerk[p] EXCEPT !.step = "record", !.verdict = v, !.missing = FALSE]
    BY <1>decide, <1>0 DEF Decide, StartInv, StartTypeOK
  <2>2. ClerkKnows(clerk[p])'
    BY <2>1, <1>decide, <1>0 DEF ClerkKnows, HasRow
  <2>3. clerk' = [clerk EXCEPT ![p] = clerk'[p]]
    BY <2>1, <1>decide DEF Decide
  <2> QED BY <2>1, <2>2, <2>3, <1>0, <1>decide, CallGoesOn DEF HasRow, Call
<1>4. ASSUME NEW p \in Clerk, LookUp(p) PROVE StartInv'
  BY <1>4, <1>found, <1>reply, <1>goto DEF LookUp
<1>5. ASSUME NEW p \in Clerk, Insert(p) PROVE StartInv'
  <2>1. CASE wish = NoIntent
    <3>1. /\ clerk[p].step = "insert" /\ Found(p) /\ UNCHANGED <<clock, drifted, store>>
          /\ wish' = [state |-> "awaiting_authority", key |-> clerk[p].key, error |-> "none",
                      created |-> clerk[p].now, updated |-> clerk[p].now,
                      reconciled |-> NoTime, ready |-> NoTime, cancelled |-> NoTime]
      BY <1>5, <2>1 DEF Insert
    <3>2. wish' \in IntentRow /\ wish' # NoIntent
      BY <3>1, <1>0 DEF IntentRow, ClerkKnows, Call
    <3>3. clerk'[p] = [clerk[p] EXCEPT !.step = "read", !.key = "none"]
      BY <3>1, <1>0 DEF Found, StartInv, StartTypeOK
    <3>4. StartTypeOK'
      <4>1. clerk'[p] \in Call
        BY <3>3, <1>0 DEF Call, HasRow
      <4>2. clerk' = [clerk EXCEPT ![p] = clerk'[p]]
        BY <3>1, <3>3 DEF Found
      <4> QED BY <3>1, <3>2, <4>1, <4>2 DEF StartInv, StartTypeOK
    <3>5. ClerkKnows(clerk[p])'
      BY <3>2, <3>3, <1>0 DEF ClerkKnows, HasRow
    <3>6. \A q \in Clerk : ClerkKnows(clerk[q])'
      BY <3>1, <3>2, <3>5, OneClerkMoves DEF Found, StartInv, StartTypeOK
    <3>7. RowStands'
      BY <3>1, <1>0 DEF RowStands, Reason, InOrder, Moment, Call
    <3> QED BY <3>4, <3>6, <3>7 DEF StartInv
  <2>2. CASE wish # NoIntent
    BY <1>5, <2>2, <1>found, <1>reply DEF Insert
  <2> QED BY <2>1, <2>2
<1>6. ASSUME NEW p \in Clerk, ReadIntent(p) PROVE StartInv'
  BY <1>6, <1>goto, <1>reply DEF ReadIntent
<1>7. ASSUME NEW p \in Clerk, CheckPlan(p) PROVE StartInv'
  <2> PICK t : t = clerk[p].now OBVIOUS
  <2> USE <1>7, <1>0 DEF CheckPlan, Call
  <2>1. CASE clerk[p].now >= PreviewEnds
    BY <2>1, <1>decide DEF Verdict, Reason, HasRow, Moment
  <2>2. CASE clerk[p].now < PreviewEnds
    <3>1. CASE Decide(p, "plan_invalid") /\ drifted' = TRUE
      BY <3>1, <1>decide DEF Verdict, Reason, HasRow
    <3>2. CASE Decide(p, "awaiting") /\ UNCHANGED drifted
      BY <3>2, <1>decide DEF Verdict, Reason, HasRow
    <3>3. CASE GoTo(p, "execution") /\ UNCHANGED drifted
      BY <2>2, <3>3, <1>goto
    <3>4. ~ clerk[p].now >= PreviewEnds
      <4>1. clerk[p].now \in Moment
        OBVIOUS
      <4> QED BY <2>2, <4>1 DEF Moment
    <3> QED BY <3>1, <3>2, <3>3, <3>4
  <2>3. clerk[p].now >= PreviewEnds \/ clerk[p].now < PreviewEnds
    <3>1. clerk[p].now \in Moment
      OBVIOUS
    <3> QED BY <3>1 DEF Moment
  <2> QED BY <2>1, <2>2, <2>3
<1>8. ASSUME NEW p \in Clerk, NEW a \in Start_Authority, LoadAuthority(p, a) PROVE StartInv'
  <2> PICK t : t = clerk[p].now OBVIOUS
  <2>1. CASE store[a] = "malformed"
    <3>1. Reason("authority_invalid", t)'
      BY <2>1, <1>8 DEF LoadAuthority, Reason, Worth
    <3>2. /\ Decide(p, "authority_invalid") /\ clerk[p].step \in HasRow
          /\ UNCHANGED <<clock, drifted, store, wish>>
      BY <2>1, <1>8 DEF LoadAuthority, HasRow, Start_Authority
    <3>3. "authority_invalid" \in Verdict
      BY DEF Verdict
    <3>4. drifted' \in BOOLEAN
      BY <3>2, <1>0
    <3> QED BY <3>1, <3>2, <3>3, <3>4, <1>decide
  <2>2. CASE store[a] # "malformed"
    <3> DEFINE s == IF a = "execution" THEN "evaluation" ELSE "verify"
    <3>1. /\ clerk[p].step = a /\ UNCHANGED <<clock, drifted, store, wish>>
          /\ clerk' = [clerk EXCEPT ![p].step = s, ![p].missing = @ \/ store[a] = "absent"]
      BY <1>8, <2>2 DEF LoadAuthority
    <3>2. clerk'[p] = [clerk[p] EXCEPT !.step = s, !.missing = @ \/ store[a] = "absent"]
      BY <3>1 DEF StartInv, StartTypeOK
    <3>3. CASE store[a] = "absent"
      <4>1. clerk'[p] = [clerk[p] EXCEPT !.step = s, !.missing = TRUE]
        BY <3>2, <3>3
      <4>2. clerk'[p] \in Call /\ s \in {"evaluation", "verify"}
        BY <4>1, <1>0 DEF Call, HasRow
      <4>3. ClerkKnows(clerk[p])'
        <5>1. clerk'[p].missing /\ clerk'[p].now = clerk[p].now /\ clerk'[p].step = s
          BY <4>1, <1>0 DEF Call
        <5>2. clerk[p].now < PreviewEnds /\ wish' # NoIntent
          BY <3>1, <1>0 DEF ClerkKnows, HasRow, Start_Authority
        <5> QED BY <5>1, <5>2 DEF ClerkKnows, HasRow
      <4>4. clerk' = [clerk EXCEPT ![p] = clerk'[p]]
        BY <3>1, <3>2
      <4> QED BY <3>1, <4>2, <4>3, <4>4, <1>0, CallGoesOn
    <3>4. CASE store[a] # "absent"
      <4>1. clerk'[p] = [clerk[p] EXCEPT !.step = s]
        <5>1. clerk[p] = [clerk[p] EXCEPT !.missing = @]
          BY <1>0 DEF Call
        <5>2. (clerk[p].missing \/ store[a] = "absent") = clerk[p].missing
          BY <1>0, <3>4 DEF Call
        <5> QED BY <3>2, <5>1, <5>2, <1>0 DEF Call
      <4>2. clerk'[p] \in Call /\ s \in {"evaluation", "verify"} /\ Loaded(a)
        BY <4>1, <1>0, <2>2, <3>4 DEF Call, HasRow, Loaded, Worth, StartInv, StartTypeOK
      <4>3. ClerkKnows(clerk[p])'
        <5>1. /\ clerk'[p].missing = clerk[p].missing /\ clerk'[p].now = clerk[p].now
              /\ clerk'[p].step = s
          BY <4>1, <1>0 DEF Call
        <5> Loaded(a)' /\ wish' # NoIntent
          BY <3>1, <4>2, <1>0 DEF Loaded, ClerkKnows, HasRow, Start_Authority
        <5>2. CASE a = "execution"
          BY <5>1, <5>2, <3>1, <1>0 DEF ClerkKnows, HasRow
        <5>3. CASE a = "evaluation"
          <6>1. (clerk[p].missing \/ Loaded("execution")) /\ store' = store
            BY <5>3, <3>1, <1>0 DEF ClerkKnows
          <6> QED BY <6>1, <5>1, <5>3, <3>1, <1>0 DEF ClerkKnows, HasRow, Loaded
        <5> QED BY <5>2, <5>3 DEF Start_Authority
      <4>4. clerk' = [clerk EXCEPT ![p] = clerk'[p]]
        BY <3>1, <3>2
      <4> QED BY <3>1, <4>2, <4>3, <4>4, <1>0, CallGoesOn
    <3> QED BY <3>3, <3>4
  <2> QED BY <2>1, <2>2
<1>9. ASSUME NEW p \in Clerk, VerifyAuthorities(p) PROVE StartInv'
  <2> PICK t : t = clerk[p].now OBVIOUS
  <2> USE <1>9, <1>0 DEF VerifyAuthorities
  <2>1. CASE clerk[p].missing
    BY <2>1, <1>decide DEF Verdict, Reason, HasRow
  <2>2. CASE ~ clerk[p].missing /\ \A a \in Start_Authority : Verified(a, clerk[p].now)
    <3>1. Reason("ready", t)'
      BY <2>2 DEF Reason, Verified, ClerkKnows
    <3> QED BY <2>2, <3>1, <1>decide DEF Verdict, HasRow
  <2>3. CASE ~ clerk[p].missing /\ ~ \A a \in Start_Authority : Verified(a, clerk[p].now)
    <3>1. PICK a \in Start_Authority : ~ Verified(a, clerk[p].now)
      BY <2>3
    <3>2. Loaded(a)
      BY <2>3 DEF ClerkKnows, Start_Authority
    <3>3. Validity[a].from \in Int /\ Validity[a].until \in Int /\ clerk[p].now \in Int
      BY DEF Moment, Call, Start_Authority
    <3>4. store[a] = "unsigned" \/ clerk[p].now \notin Validity[a].from .. Validity[a].until - 1
      BY <3>1, <3>2, <3>3 DEF Loaded, Verified
    <3>5. Reason("authority_invalid", t)'
      BY <3>4 DEF Reason, Worth
    <3> QED BY <2>3, <3>5, <1>decide DEF Verdict, HasRow
  <2> QED BY <2>1, <2>2, <2>3
<1>10. ASSUME NEW p \in Clerk, Record(p) PROVE StartInv'
  <2>1. CASE wish.state \in FormalEnded \/ clerk[p].now < wish.created
    BY <1>10, <2>1, <1>reply DEF Record
  <2>2. CASE ~ (wish.state \in FormalEnded \/ clerk[p].now < wish.created)
    <3> PICK v, t : v = clerk[p].verdict /\ t = clerk[p].now
      OBVIOUS
    <3>1. /\ Reply(p) /\ UNCHANGED <<clock, drifted, store>> /\ clerk[p].step = "record"
          /\ wish' = [wish EXCEPT
              !.state = CASE v = "awaiting" -> "awaiting_authority"
                          [] v = "ready"    -> "ready_for_round_creation"
                          [] OTHER          -> "failed",
              !.error = IF v \in {"awaiting", "ready"} THEN "none" ELSE v,
              !.updated = t, !.reconciled = t, !.ready = IF v = "ready" THEN t ELSE NoTime]
      BY <1>10, <2>2 DEF Record
    <3>2. v \in Verdict /\ t \in Moment /\ Reason(v, t) /\ wish \in IntentRow /\ RowStands
      BY <3>1, <1>0 DEF ClerkKnows, HasRow, StartInv, StartTypeOK, Call
    <3>3. /\ wish'.state = CASE v = "awaiting" -> "awaiting_authority"
                             [] v = "ready"    -> "ready_for_round_creation"
                             [] OTHER          -> "failed"
          /\ wish'.error = IF v \in {"awaiting", "ready"} THEN "none" ELSE v
          /\ wish'.updated = t /\ wish'.reconciled = t
          /\ wish'.ready = IF v = "ready" THEN t ELSE NoTime
          /\ wish'.created = wish.created /\ wish'.cancelled = wish.cancelled
      BY <3>1, <3>2 DEF IntentRow
    <3>4. wish' \in IntentRow /\ wish' # NoIntent
      <4> PICK s, e, r : /\ s = (CASE v = "awaiting" -> "awaiting_authority"
                                   [] v = "ready"    -> "ready_for_round_creation"
                                   [] OTHER          -> "failed")
                         /\ e = (IF v \in {"awaiting", "ready"} THEN "none" ELSE v)
                         /\ r = (IF v = "ready" THEN t ELSE NoTime)
        OBVIOUS
      <4>1. wish' = [wish EXCEPT !.state = s, !.error = e, !.updated = t, !.reconciled = t, !.ready = r]
        BY <3>1
      <4>2. /\ s \in {"awaiting_authority", "ready_for_round_creation", "failed", "cancelled"}
            /\ e \in {"none", "plan_invalid", "authority_invalid"}
            /\ r \in Moment \cup {NoTime} /\ t \in Moment
        BY <3>2 DEF Verdict
      <4>3. wish' \in IntentRow
        BY <4>1, <4>2, <3>2 DEF IntentRow
      <4> QED BY <4>3, NoIntentAssumption
    <3>5. clerk'[p] = AtEase
      BY <3>1, <1>0 DEF Reply
    <3>6. StartTypeOK'
      BY <3>1, <3>4, <3>5, <1>0, AtEaseKnows DEF StartInv, StartTypeOK, Reply
    <3>7. ClerkKnows(clerk[p])'
      BY <3>5 DEF ClerkKnows, AtEase, HasRow
    <3>8. \A q \in Clerk : ClerkKnows(clerk[q])'
      BY <3>1, <3>4, <3>7, OneClerkMoves DEF Reply, StartInv, StartTypeOK
    <3>9. Reason(v, t)' /\ (v \in {"awaiting", "ready"} => Reason("none", t)')
      BY <3>1, <3>2 DEF Reason, Verified
    <3>10. wish.created <= t /\ InOrder(wish) /\ wish.cancelled = NoTime
      BY <2>2, <3>2 DEF IntentRow, Moment, RowStands, FormalEnded
    <3>11. InOrder(wish)'
      BY <3>3, <3>10, <3>2 DEF InOrder, IntentRow, Moment
    <3>12. RowStands'
      <4>1. wish'.cancelled = NoTime
        BY <3>3, <3>10
      <4>2. CASE v = "awaiting"
        BY <4>1, <4>2, <3>3, <3>9, <3>11 DEF RowStands, Reason
      <4>3. CASE v = "ready"
        BY <4>1, <4>3, <3>3, <3>9, <3>11 DEF RowStands
      <4>4. CASE v \in {"plan_invalid", "authority_invalid"}
        BY <4>1, <4>4, <3>3, <3>9, <3>11 DEF RowStands
      <4> QED BY <4>2, <4>3, <4>4, <3>2 DEF Verdict
    <3> QED BY <3>6, <3>8, <3>12 DEF StartInv
  <2> QED BY <2>1, <2>2
<1>11. ASSUME NEW p \in Clerk, CancelIntent(p) PROVE StartInv'
  <2>1. CASE wish.state \in FormalEnded \/ clerk[p].now < wish.created
    BY <1>11, <2>1, <1>reply DEF CancelIntent
  <2>2. CASE ~ (wish.state \in FormalEnded \/ clerk[p].now < wish.created)
    <3>1. /\ Reply(p) /\ UNCHANGED <<clock, drifted, store>> /\ clerk[p].step = "cancel"
          /\ wish' = [wish EXCEPT !.state = "cancelled", !.ready = NoTime,
                                  !.updated = clerk[p].now, !.cancelled = clerk[p].now]
      BY <1>11, <2>2 DEF CancelIntent
    <3>2. clerk[p].now \in Moment /\ wish \in IntentRow /\ RowStands /\ wish # NoIntent
      BY <3>1, <1>0 DEF ClerkKnows, HasRow, StartInv, StartTypeOK, Call
    <3>4. wish' \in IntentRow /\ wish' # NoIntent /\ wish'.state = "cancelled" /\ wish'.error = "none"
      BY <2>2, <3>1, <3>2 DEF IntentRow, RowStands, FormalEnded
    <3>5. clerk'[p] = AtEase
      BY <3>1, <1>0 DEF Reply
    <3>6. StartTypeOK'
      BY <3>1, <3>4, <3>5, <1>0, AtEaseKnows DEF StartInv, StartTypeOK, Reply
    <3>7. ClerkKnows(clerk[p])'
      BY <3>5 DEF ClerkKnows, AtEase, HasRow
    <3>8. \A q \in Clerk : ClerkKnows(clerk[q])'
      BY <3>1, <3>4, <3>7, OneClerkMoves DEF Reply, StartInv, StartTypeOK
    <3>9. RowStands'
      BY <3>4 DEF RowStands, Reason
    <3> QED BY <3>6, <3>8, <3>9 DEF StartInv
  <2> QED BY <2>1, <2>2
<1>12. ASSUME NEW p \in Clerk, Abandon(p) PROVE StartInv'
  BY <1>12, <1>reply DEF Abandon
<1>13. CASE Tick
  <2>1. StartTypeOK' /\ clerk' = clerk
    BY <1>13 DEF Tick, StartInv, StartTypeOK, Moment
  <2>2. RowStands'
    BY <1>13, RowStaysTrue DEF Tick
  <2>3. \A q \in Clerk : ClerkKnows(clerk[q])'
    BY <1>13, <1>0 DEF Tick, ClerkKnows, Reason, Verified, Loaded
  <2> QED BY <2>1, <2>2, <2>3 DEF StartInv
<1>14. ASSUME NEW a \in Start_Authority, NEW w \in Worth, PublishAuthority(a, w) PROVE StartInv'
  <2>1. StartTypeOK' /\ clerk' = clerk /\ wish' = wish /\ drifted' = drifted
    BY <1>14 DEF PublishAuthority, StartInv, StartTypeOK
  <2>2. \A b \in Start_Authority : store[b] # "absent" => store'[b] = store[b]
    BY <1>14 DEF PublishAuthority, StartInv, StartTypeOK
  <2>3. RowStands'
    BY <2>1, <2>2, RowStaysTrue
  <2>4. \A q \in Clerk : ClerkKnows(clerk[q])'
    BY <2>1, <2>2, ClerkStillKnows DEF StartInv
  <2> QED BY <2>1, <2>3, <2>4 DEF StartInv
<1>15. CASE UNCHANGED fsvars
  BY <1>15 DEF fsvars, StartInv, StartTypeOK, ClerkKnows, RowStands, Reason, Verified, Loaded, InOrder
<1> QED
  BY <1>1, <1>2, <1>3, <1>4, <1>5, <1>6, <1>7, <1>8, <1>9, <1>10, <1>11, <1>12, <1>13, <1>14, <1>15
  DEF FormalStartNext

-----------------------------------------------------------------------------

\* For any number of calls and keys and any plan, what the row of a formal
\* start says was true at the moment it names (FormalStartService._reconcile).
THEOREM StartVerdictsStand == FormalStartSpec => []StartVerdictStands
<1>1. StartInv => StartVerdictStands
  BY DEF StartInv, RowStands, Reason, Verified, StartVerdictStands
<1>2. FormalStartSpec => []StartInv
  BY StartInitially, FormalStartStep, PTL DEF FormalStartSpec
<1> QED BY <1>1, <1>2, PTL

\* An intent that was cancelled or has failed is never written again
\* (the state guards under the row lock).
THEOREM StartsEndForGood == FormalStartSpec => StartEndsForGood
<1>1. ASSUME [FormalStartNext]_fsvars, wish # NoIntent, wish.state \in FormalEnded
      PROVE  wish' = wish
  BY <1>1 DEF FormalStartNext, fsvars, Begin, BeginCreate, BeginReconcile, BeginCancel, LookUp,
              Insert, ReadIntent, CheckPlan, LoadAuthority, VerifyAuthorities, Record, CancelIntent,
              Abandon, Tick, PublishAuthority
<1> QED BY <1>1, PTL DEF FormalStartSpec, StartEndsForGood

-----------------------------------------------------------------------------
(* Phase execution: who owns a reservation, and how far he is.              *)

\* Steps of a call between its reservation and its end, by what it may do next.
MayRun  == {"harness", "measuring", "claim", "usage", "settle", "publish"}
MayFree == {"file_released", "release"}
Before  == {"idle", "file_run", "file_release", "reserve_run", "reserve_release"}
Result  == {"succeeded", "failed"}

PhaseCall == [step : Before \cup MayRun \cup MayFree, run : PhaseRun \cup {NoRun},
              measurement : Measured \cup {NoMeasurement}]

PhaseTypeOK ==
    /\ adapter \in {"formal", "scripted"}
    /\ bound \in [PhaseRun -> [phase : {"search", "holdout"}, plan : PhasePlan]]
    /\ agent \in [Agent -> PhaseCall]
    /\ filed \in [PhaseRun -> [reserve : {"none", "run", "release"},
                               usage : {"none", "released"} \cup Result]]
    /\ charge \in [PhaseRun -> {"absent", "reserved", "settled", "released"}]
    /\ starts \in [PhaseRun -> Nat]
    /\ claimed \subseteq [run : PhaseRun, measurement : Measured]
    /\ receipts \subseteq [run : PhaseRun, status : Result, measurement : Measured \cup {NoMeasurement}]
    /\ torn \subseteq PhaseRun

\* The call that has made the reservation of e.
Owns(a, e) == agent[a].run = e /\ agent[a].step \in MayRun \cup MayFree

OneOwner == \A a, b \in Agent : \A e \in PhaseRun : Owns(a, e) /\ Owns(b, e) => a = b

\* How far the owner of a reservation is says how far the reservation is.
OwnerKnows(c) ==
    /\ c.step # "idle" => c.run \in PhaseRun
    /\ c.step \in (MayRun \ {"publish"}) \cup MayFree => charge[c.run] = "reserved"
    /\ c.step \in MayFree \cup {"harness"} => starts[c.run] = 0
    /\ c.step = "release" => filed[c.run].usage = "released"
    /\ c.step = "publish" => charge[c.run] = "settled"
    /\ c.step \in {"settle", "publish"} =>
          filed[c.run].usage = IF c.measurement = NoMeasurement THEN "failed" ELSE "succeeded"
    /\ c.step = "claim" => c.measurement \in Measured
    /\ c.step \notin {"claim", "usage", "settle", "publish"} => c.measurement = NoMeasurement
    /\ c.step \in {"usage", "settle", "publish"} /\ c.measurement # NoMeasurement /\ adapter = "formal" =>
          [run |-> c.run, measurement |-> c.measurement] \in claimed

ChargeKnows(e) ==
    /\ charge[e] = "absent" => starts[e] = 0
    /\ starts[e] <= 1
    /\ charge[e] = "released" => starts[e] = 0 /\ filed[e].usage = "released"
    /\ charge[e] = "settled" => filed[e].usage \in Result
    /\ charge[e] = "reserved" => e \in torn \/ \E a \in Agent : Owns(a, e)
    /\ charge[e] = "settled" /\ adapter = "formal" =>
          \/ e \in torn
          \/ \E a \in Agent : agent[a].run = e /\ agent[a].step = "publish"
          \/ \E r \in receipts : r.run = e

ClaimsApart ==
    /\ \A c, d \in claimed : c # d => c.measurement # d.measurement /\ c.run # d.run
    /\ adapter = "formal" => \A c, d \in claimed : PlansAgree(c.run, d.run)

ReceiptsKnow ==
    \A r \in receipts :
       /\ charge[r.run] = "settled" /\ filed[r.run].usage = r.status
       /\ r.status = "succeeded" => [run |-> r.run, measurement |-> r.measurement] \in claimed

PhaseInv ==
    /\ PhaseTypeOK /\ OneOwner /\ (\A a \in Agent : OwnerKnows(agent[a]))
    /\ (\A e \in PhaseRun : ChargeKnows(e)) /\ ClaimsApart /\ ReceiptsKnow

\* What makes a step of call a on request e a step that only they notice.
OnlyTheirs(a, e) ==
    /\ adapter' = adapter /\ bound' = bound
    /\ \A b \in Agent \ {a} : agent'[b] = agent[b]
    /\ \A d \in PhaseRun \ {e} : /\ charge'[d] = charge[d] /\ starts'[d] = starts[d]
                                 /\ filed'[d].usage = filed[d].usage
    /\ torn \subseteq torn'
    /\ adapter = "formal" => claimed \subseteq claimed' /\ receipts \subseteq receipts'

SameRows(e) == /\ charge'[e] = charge[e] /\ starts'[e] = starts[e]
               /\ filed'[e].usage = filed[e].usage

\* A call that has not reserved knows nothing of a reservation.
LEMMA EarlyCalls ==
  ASSUME NEW c, c.step \in Before, c.run \in PhaseRun \/ c.step = "idle",
         c.measurement = NoMeasurement
  PROVE  OwnerKnows(c) /\ OwnerKnows(c)'
BY DEF OwnerKnows, Before, MayRun, MayFree

LEMMA OthersKnow ==
  ASSUME PhaseInv, NEW a \in Agent, NEW e \in PhaseRun, OnlyTheirs(a, e),
         Owns(a, e) \/ charge[e] = "absent" \/ SameRows(e),
         NEW b \in Agent, b # a
  PROVE  OwnerKnows(agent[b])'
<1>1. /\ agent'[b] = agent[b] /\ OwnerKnows(agent[b])
      /\ agent[b].step \in Before \cup MayRun \cup MayFree
  BY DEF OnlyTheirs, PhaseInv, PhaseTypeOK, PhaseCall
<1>2. CASE agent[b].step \in Before
  BY <1>1, <1>2 DEF OwnerKnows, Before, MayRun, MayFree
<1>3. CASE agent[b].step \in MayRun \cup MayFree
  <2>1. agent[b].run \in PhaseRun /\ Owns(b, agent[b].run)
    BY <1>1, <1>3 DEF OwnerKnows, MayRun, MayFree, Owns
  <2>2. agent[b].run = e => SameRows(e)
    <3>1. agent[b].run = e => ~ Owns(a, e)
      BY <2>1 DEF PhaseInv, OneOwner
    <3>2. agent[b].run = e => charge[e] # "absent"
      BY <1>1, <1>3 DEF OwnerKnows, MayRun, MayFree
    <3> QED BY <3>1, <3>2
  <2>3. SameRows(agent[b].run)
    BY <2>1, <2>2 DEF OnlyTheirs, SameRows
  <2> QED BY <1>1, <2>3 DEF OwnerKnows, SameRows, OnlyTheirs
<1> QED BY <1>1, <1>2, <1>3

\* A step that is the owner's, or makes one, or leaves the reservation alone.
LEMMA OwnersStep ==
  ASSUME PhaseInv, PhaseTypeOK', NEW a \in Agent, NEW e \in PhaseRun, OnlyTheirs(a, e),
         Owns(a, e) \/ charge[e] = "absent" \/ (SameRows(e) /\ ~ Owns(a, e)'),
         agent[a].step = "idle" \/ agent[a].run = e,
         agent'[a].step = "idle" \/ agent'[a].run = e,
         OwnerKnows(agent[a])', ChargeKnows(e)', ClaimsApart', ReceiptsKnow'
  PROVE  PhaseInv'
<1>1. \A b \in Agent : OwnerKnows(agent[b])'
  BY OthersKnow DEF SameRows
<1>2. \A b \in Agent \ {a} : \A d \in PhaseRun : Owns(b, d)' <=> Owns(b, d)
  BY DEF OnlyTheirs, Owns
<1>3. \A d \in PhaseRun : Owns(a, d)' => d = e
  BY DEF Owns, MayRun, MayFree
<1>4. OneOwner'
  <2> SUFFICES ASSUME NEW b \in Agent, b # a, Owns(b, e), Owns(a, e)' PROVE FALSE
    BY <1>2, <1>3 DEF PhaseInv, OneOwner
  <2>1. ~ Owns(a, e)
    BY DEF PhaseInv, OneOwner
  <2>2. charge[e] # "absent"
    BY DEF PhaseInv, OwnerKnows, Owns, MayRun, MayFree
  <2> QED BY <2>1, <2>2
<1>5. ASSUME NEW d \in PhaseRun, d # e PROVE ChargeKnows(d)'
  <2>1. ChargeKnows(d) /\ SameRows(d)
    BY <1>5 DEF PhaseInv, OnlyTheirs, SameRows
  <2>2. \A b \in Agent : agent[b].run = d /\ agent[b].step # "idle" => agent'[b] = agent[b]
    BY <1>5 DEF OnlyTheirs
  <2>3. \A b \in Agent : Owns(b, d) => Owns(b, d)'
    BY <2>2 DEF Owns, MayRun, MayFree
  <2>4. \A b \in Agent : agent[b].run = d /\ agent[b].step = "publish" =>
                         agent'[b].run = d /\ agent'[b].step = "publish"
    BY <2>2
  <2> QED BY <2>1, <2>3, <2>4 DEF ChargeKnows, SameRows, OnlyTheirs
<1> QED BY <1>1, <1>4, <1>5 DEF PhaseInv

\* A call that neither has a reservation nor gets one.
LEMMA BystandersStep ==
  ASSUME PhaseInv, PhaseTypeOK', NEW a \in Agent, NEW e \in PhaseRun,
         UNCHANGED <<adapter, bound, charge, starts, claimed, receipts, torn>>,
         \A b \in Agent \ {a} : agent'[b] = agent[b],
         \A d \in PhaseRun : filed'[d].usage = filed[d].usage,
         agent[a].step \in Before, agent'[a].step \in Before,
         agent[a].step = "idle" \/ agent[a].run = e,
         agent'[a].step = "idle" \/ agent'[a].run = e,
         agent'[a].measurement = NoMeasurement
  PROVE  PhaseInv'
<1>1. OnlyTheirs(a, e) /\ SameRows(e)
  BY DEF OnlyTheirs, SameRows
<1>2. \A d \in PhaseRun : ~ Owns(a, d) /\ ~ Owns(a, d)'
  BY DEF Owns, Before, MayRun, MayFree
<1>3. OwnerKnows(agent[a])'
  BY DEF OwnerKnows, Before, MayRun, MayFree
<1>4. ChargeKnows(e)'
  <2>1. ChargeKnows(e)
    BY DEF PhaseInv
  <2>2. \A b \in Agent : Owns(b, e) => Owns(b, e)'
    BY <1>2 DEF Owns
  <2>3. \A b \in Agent : agent[b].run = e /\ agent[b].step = "publish" => agent'[b] = agent[b]
    BY DEF Before
  <2> QED BY <2>1, <2>2, <2>3 DEF ChargeKnows
<1>5. ClaimsApart'
  BY DEF PhaseInv, ClaimsApart, PlansAgree
<1>6. ReceiptsKnow'
  BY DEF PhaseInv, ReceiptsKnow, PhaseTypeOK
<1> QED BY <1>1, <1>2, <1>3, <1>4, <1>5, <1>6, OwnersStep

LEMMA PhaseInitially == PhaseInit => PhaseInv
<1> SUFFICES ASSUME PhaseInit PROVE PhaseInv
  OBVIOUS
<1>1. PhaseTypeOK
  BY DEF PhaseInit, PhaseTypeOK, NoCall, PhaseCall, Before
<1>2. \A a \in Agent : agent[a] = NoCall
  BY DEF PhaseInit
<1>3. \A a \in Agent : OwnerKnows(agent[a])
  BY <1>2 DEF OwnerKnows, NoCall, MayRun, MayFree
<1>4. \A e \in PhaseRun : ChargeKnows(e)
  <2> SUFFICES ASSUME NEW e \in PhaseRun PROVE ChargeKnows(e)
    OBVIOUS
  <2>1. charge[e] = "absent" /\ starts[e] = 0
    BY DEF PhaseInit
  <2>2. charge[e] # "released" /\ charge[e] # "settled" /\ charge[e] # "reserved" /\ starts[e] <= 1
    BY <2>1
  <2> QED BY <2>1, <2>2 DEF ChargeKnows
<1>5. OneOwner
  BY <1>2 DEF OneOwner, Owns, NoCall, MayRun, MayFree
<1>6. ClaimsApart /\ ReceiptsKnow
  BY DEF PhaseInit, ClaimsApart, ReceiptsKnow
<1> QED BY <1>1, <1>3, <1>4, <1>5, <1>6 DEF PhaseInv

\* The rows have the types of PhaseTypeOK, one by one.
LEMMA CallFacts ==
  ASSUME PhaseInv, NEW a \in Agent
  PROVE  /\ agent[a] \in PhaseCall /\ OwnerKnows(agent[a]) /\ DOMAIN agent = Agent
         /\ agent[a].step # "idle" => agent[a].run \in PhaseRun
         /\ agent[a].step \in MayRun \cup MayFree => Owns(a, agent[a].run)
         /\ NoCall \in PhaseCall /\ NoCall.step = "idle" /\ NoCall.measurement = NoMeasurement
BY DEF PhaseInv, PhaseTypeOK, OwnerKnows, Owns, MayRun, MayFree, NoCall, PhaseCall, Before

\* agent' when one call takes a step.
LEMMA CallMoves ==
  ASSUME PhaseInv, NEW a \in Agent, NEW c \in PhaseCall, agent' = [agent EXCEPT ![a] = c]
  PROVE  /\ agent'[a] = c /\ agent' \in [Agent -> PhaseCall]
         /\ \A b \in Agent \ {a} : agent'[b] = agent[b]
BY DEF PhaseInv, PhaseTypeOK

LEMMA StepIs ==
  ASSUME PhaseInv, NEW a \in Agent, NEW step \in Before \cup MayRun \cup MayFree, Step(a, step)
  PROVE  /\ agent'[a].step = step /\ agent'[a].run = agent[a].run
         /\ agent'[a].measurement = agent[a].measurement
         /\ agent' \in [Agent -> PhaseCall]
         /\ \A b \in Agent \ {a} : agent'[b] = agent[b]
BY CallFacts DEF Step, PhaseInv, PhaseTypeOK, PhaseCall

LEMMA BeginSteps ==
  ASSUME PhaseInv, NEW a \in Agent, NEW e \in PhaseRun, BeginPhase(a, e) \/ BeginReleaseUnstarted(a, e)
  PROVE  PhaseInv'
<1>1. PICK step \in {"file_run", "file_release"} :
        /\ agent[a].step = "idle"
        /\ agent' = [agent EXCEPT ![a] = [step |-> step, run |-> e, measurement |-> NoMeasurement]]
        /\ UNCHANGED <<adapter, bound, disk>>
  BY DEF BeginPhase, BeginReleaseUnstarted, At, NoCall
<1> DEFINE c == [step |-> step, run |-> e, measurement |-> NoMeasurement]
<1>2. c \in PhaseCall /\ c.step \in Before /\ c.run = e /\ c.measurement = NoMeasurement
  BY DEF PhaseCall, Before
<1>3. /\ agent'[a] = c /\ agent' \in [Agent -> PhaseCall]
      /\ \A b \in Agent \ {a} : agent'[b] = agent[b]
  BY <1>1, <1>2, CallMoves
<1>4. PhaseTypeOK'
  BY <1>1, <1>3 DEF PhaseInv, PhaseTypeOK, disk
<1> QED BY <1>1, <1>2, <1>3, <1>4, BystandersStep DEF disk, Before

\* A call that has no reservation gives up.
LEMMA GiveUp ==
  ASSUME PhaseInv, NEW a \in Agent, agent[a].step \in Before \ {"idle"}, Return(a),
         UNCHANGED <<adapter, bound, disk>>
  PROVE  PhaseInv'
<1>1. /\ agent'[a] = NoCall /\ agent' \in [Agent -> PhaseCall]
      /\ \A b \in Agent \ {a} : agent'[b] = agent[b]
  BY CallFacts, CallMoves DEF Return
<1>2. PhaseTypeOK'
  BY <1>1 DEF PhaseInv, PhaseTypeOK, disk
<1> QED BY <1>1, <1>2, CallFacts, BystandersStep DEF disk, Before

LEMMA FileReserveStep ==
  ASSUME PhaseInv, NEW a \in Agent, FileReserve(a)
  PROVE  PhaseInv'
<1> DEFINE kind == IF At(a, "file_run") THEN "run" ELSE "release"
           e == agent[a].run
<1>1. agent[a].step \in {"file_run", "file_release"} /\ e \in PhaseRun
      /\ UNCHANGED <<adapter, bound, charge, starts, claimed, receipts, torn>>
  BY CallFacts DEF FileReserve
<1>2. CASE Return(a) /\ UNCHANGED filed
  BY <1>1, <1>2, GiveUp DEF disk, Before
<1>3. CASE /\ Step(a, IF kind = "run" THEN "reserve_run" ELSE "reserve_release")
           /\ filed' = [filed EXCEPT ![e].reserve = IF adapter = "formal" THEN kind ELSE @]
  <2>1. PICK step \in {"reserve_run", "reserve_release"} : Step(a, step)
    BY <1>3
  <2>2. PICK f : f \in {"none", "run", "release"} /\ filed' = [filed EXCEPT ![e].reserve = f]
    <3>1. filed[e].reserve \in {"none", "run", "release"}
      BY <1>1 DEF PhaseInv, PhaseTypeOK
    <3> QED BY <1>3, <3>1
  <2>3. /\ filed' \in [PhaseRun -> [reserve : {"none", "run", "release"},
                                    usage : {"none", "released"} \cup Result]]
        /\ \A d \in PhaseRun : filed'[d].usage = filed[d].usage
    BY <1>1, <2>2 DEF PhaseInv, PhaseTypeOK
  <2>4. /\ agent'[a].step = step /\ agent'[a].run = e
        /\ agent'[a].measurement = agent[a].measurement
        /\ agent' \in [Agent -> PhaseCall]
        /\ \A b \in Agent \ {a} : agent'[b] = agent[b]
    BY <2>1, StepIs DEF Before
  <2>5. PhaseTypeOK'
    BY <1>1, <2>3, <2>4 DEF PhaseInv, PhaseTypeOK
  <2>6. agent[a].measurement = NoMeasurement
    BY <1>1, CallFacts DEF OwnerKnows
  <2> QED BY <1>1, <2>3, <2>4, <2>5, <2>6, BystandersStep DEF Before
<1> QED BY <1>2, <1>3 DEF FileReserve

LEMMA ReservePhaseStep ==
  ASSUME PhaseInv, NEW a \in Agent, ReservePhase(a)
  PROVE  PhaseInv'
<1> PICK e : e = agent[a].run
  OBVIOUS
<1>1. agent[a].step \in {"reserve_run", "reserve_release"} /\ e \in PhaseRun
      /\ UNCHANGED <<adapter, bound, filed, starts, claimed, receipts, torn>>
  BY CallFacts DEF ReservePhase
<1>2. CASE Return(a) /\ UNCHANGED charge
  BY <1>1, <1>2, GiveUp DEF disk, Before
<1>3. CASE /\ charge[e] = "absent" /\ charge' = [charge EXCEPT ![e] = "reserved"]
           /\ Step(a, IF At(a, "reserve_run") THEN "harness" ELSE "file_released")
  <2>1. PICK step \in {"harness", "file_released"} : Step(a, step)
    BY <1>3
  <2>2. /\ agent'[a].step = step /\ agent'[a].run = e
        /\ agent'[a].measurement = agent[a].measurement
        /\ agent' \in [Agent -> PhaseCall]
        /\ \A b \in Agent \ {a} : agent'[b] = agent[b]
    BY <2>1, StepIs DEF MayRun, MayFree
  <2>3. /\ charge' \in [PhaseRun -> {"absent", "reserved", "settled", "released"}]
        /\ charge'[e] = "reserved" /\ \A d \in PhaseRun \ {e} : charge'[d] = charge[d]
    BY <1>1, <1>3 DEF PhaseInv, PhaseTypeOK
  <2>4. PhaseTypeOK'
    BY <1>1, <2>2, <2>3 DEF PhaseInv, PhaseTypeOK
  <2>5. OnlyTheirs(a, e)
    BY <1>1, <2>2, <2>3 DEF OnlyTheirs
  <2>6. agent[a].measurement = NoMeasurement /\ starts[e] = 0
    BY <1>1, <1>3, CallFacts DEF OwnerKnows, PhaseInv, ChargeKnows
  <2>7. OwnerKnows(agent[a])'
    BY <1>1, <2>2, <2>3, <2>6 DEF OwnerKnows, MayRun, MayFree
  <2>8. ChargeKnows(e)'
    BY <1>1, <2>2, <2>3, <2>6 DEF ChargeKnows, Owns, MayRun, MayFree
  <2>9. ClaimsApart' /\ ReceiptsKnow'
    BY <1>1, <1>3, <2>3 DEF PhaseInv, PhaseTypeOK, ClaimsApart, ReceiptsKnow, PlansAgree
  <2>10. e \in PhaseRun /\ agent[a].run = e /\ agent'[a].run = e /\ charge[e] = "absent"
    BY <1>1, <1>3, <2>2
  <2> QED BY <2>4, <2>5, <2>7, <2>8, <2>9, <2>10, OwnersStep
<1> QED BY <1>2, <1>3 DEF ReservePhase

\* The owner of a reservation takes a step that leaves charge and receipts alone.
LEMMA OwnerGoesOn ==
  ASSUME PhaseInv, NEW a \in Agent, NEW e \in PhaseRun, Owns(a, e),
         UNCHANGED <<adapter, bound, charge, receipts, torn>>,
         agent' \in [Agent -> PhaseCall], \A b \in Agent \ {a} : agent'[b] = agent[b],
         Owns(a, e)', agent[a].step \notin {"settle", "publish"},
         PhaseTypeOK', OwnerKnows(agent[a])',
         \A d \in PhaseRun \ {e} : starts'[d] = starts[d] /\ filed'[d].usage = filed[d].usage,
         starts'[e] <= 1, claimed \subseteq claimed', ClaimsApart'
  PROVE  PhaseInv'
<1>1. charge[e] = "reserved" /\ agent[a].step # "idle"
  BY CallFacts DEF OwnerKnows, Owns, MayRun, MayFree
<1>2. OnlyTheirs(a, e)
  BY DEF OnlyTheirs
<1>3. ChargeKnows(e)'
  BY <1>1 DEF ChargeKnows
<1>4. ReceiptsKnow'
  BY <1>1 DEF PhaseInv, PhaseTypeOK, ReceiptsKnow
<1>5. agent[a].run = e /\ agent'[a].run = e
  BY DEF Owns
<1> QED BY <1>2, <1>3, <1>4, <1>5, OwnersStep

LEMMA StartHarnessStep ==
  ASSUME PhaseInv, NEW a \in Agent, StartHarness(a)
  PROVE  PhaseInv'
<1> PICK e : e = agent[a].run
  OBVIOUS
<1>1. /\ agent[a].step = "harness" /\ e \in PhaseRun /\ Owns(a, e) /\ starts[e] = 0
      /\ agent[a].measurement = NoMeasurement
      /\ UNCHANGED <<adapter, bound, filed, charge, claimed, receipts, torn>>
  BY CallFacts DEF StartHarness, At, OwnerKnows, MayRun, MayFree
<1>2. PICK step \in {"measuring", "usage"} : Step(a, step)
  BY DEF StartHarness
<1>3. /\ starts' \in [PhaseRun -> Nat] /\ starts'[e] <= 1
      /\ \A d \in PhaseRun \ {e} : starts'[d] = starts[d]
  BY <1>1 DEF StartHarness, PhaseInv, PhaseTypeOK
<1>4. /\ agent'[a].step = step /\ agent'[a].run = e
      /\ agent'[a].measurement = NoMeasurement
      /\ agent' \in [Agent -> PhaseCall]
      /\ \A b \in Agent \ {a} : agent'[b] = agent[b]
  BY <1>1, <1>2, StepIs DEF MayRun, MayFree
<1>5. PhaseTypeOK'
  BY <1>1, <1>3, <1>4 DEF PhaseInv, PhaseTypeOK
<1>6. charge[e] = "reserved"
  BY <1>1, CallFacts DEF OwnerKnows, MayRun
<1>7. OwnerKnows(agent[a])' /\ Owns(a, e)'
  BY <1>1, <1>4, <1>6 DEF OwnerKnows, MayRun, MayFree, Owns
<1>8. ClaimsApart'
  BY <1>1 DEF PhaseInv, ClaimsApart, PlansAgree
<1>9. /\ UNCHANGED <<adapter, bound, charge, receipts, torn>> /\ claimed \subseteq claimed'
      /\ \A d \in PhaseRun \ {e} : starts'[d] = starts[d] /\ filed'[d].usage = filed[d].usage
      /\ agent[a].step \notin {"settle", "publish"}
  BY <1>1, <1>3
<1>10. e \in PhaseRun /\ Owns(a, e) /\ starts'[e] <= 1
  BY <1>1, <1>3
<1> QED BY <1>4, <1>5, <1>7, <1>8, <1>9, <1>10, OwnerGoesOn

LEMMA FinishHarnessStep ==
  ASSUME PhaseInv, NEW a \in Agent, FinishHarness(a)
  PROVE  PhaseInv'
<1> PICK e : e = agent[a].run
  OBVIOUS
<1>1. /\ agent[a].step = "measuring" /\ e \in PhaseRun /\ Owns(a, e) /\ charge[e] = "reserved"
      /\ agent[a].measurement = NoMeasurement /\ starts[e] <= 1
      /\ UNCHANGED <<adapter, bound, disk>>
  BY CallFacts DEF FinishHarness, At, OwnerKnows, MayRun, MayFree, PhaseInv, ChargeKnows
<1>2. /\ agent'[a].run = e /\ agent' \in [Agent -> PhaseCall]
      /\ \A b \in Agent \ {a} : agent'[b] = agent[b]
      /\ \/ agent'[a].step = "claim" /\ agent'[a].measurement \in Measured
         \/ agent'[a].step = "usage" /\ agent'[a].measurement = NoMeasurement
  <2>1. ASSUME NEW m \in Measured,
               agent' = [agent EXCEPT ![a].step = "claim", ![a].measurement = m]
        PROVE  <1>2!:
    <3> DEFINE c == [agent[a] EXCEPT !.step = "claim", !.measurement = m]
    <3>1. c \in PhaseCall /\ c.run = e /\ c.step = "claim" /\ c.measurement = m
      BY CallFacts DEF PhaseCall, MayRun
    <3>2. agent' = [agent EXCEPT ![a] = c]
      BY <2>1, CallFacts
    <3> QED BY <3>1, <3>2, CallMoves
  <2>2. ASSUME Step(a, "usage") PROVE <1>2!:
    BY <1>1, <2>2, StepIs DEF MayRun
  <2> QED BY <2>1, <2>2 DEF FinishHarness
<1>5. PhaseTypeOK'
  BY <1>1, <1>2 DEF PhaseInv, PhaseTypeOK, disk
<1>7. OwnerKnows(agent[a])' /\ Owns(a, e)'
  BY <1>1, <1>2 DEF OwnerKnows, MayRun, MayFree, Owns, disk
<1>8. ClaimsApart'
  BY <1>1 DEF PhaseInv, ClaimsApart, PlansAgree, disk
<1>9. /\ UNCHANGED <<adapter, bound, charge, receipts, torn>> /\ claimed \subseteq claimed'
      /\ \A d \in PhaseRun \ {e} : starts'[d] = starts[d] /\ filed'[d].usage = filed[d].usage
      /\ agent[a].step \notin {"settle", "publish"} /\ starts'[e] <= 1
  BY <1>1 DEF disk
<1>10. e \in PhaseRun /\ Owns(a, e)
  BY <1>1
<1> QED BY <1>2, <1>5, <1>7, <1>8, <1>9, <1>10, OwnerGoesOn

\* The call is over.
LEMMA Returned ==
  ASSUME PhaseInv, NEW a \in Agent, Return(a)
  PROVE  /\ agent'[a] = NoCall /\ agent' \in [Agent -> PhaseCall]
         /\ \A b \in Agent \ {a} : agent'[b] = agent[b]
         /\ OwnerKnows(agent[a])' /\ agent'[a].step = "idle"
<1>1. /\ agent'[a] = NoCall /\ agent' \in [Agent -> PhaseCall]
      /\ \A b \in Agent \ {a} : agent'[b] = agent[b]
  BY CallFacts, CallMoves DEF Return
<1>2. OwnerKnows(agent[a])'
  BY <1>1 DEF OwnerKnows, NoCall, MayRun, MayFree
<1> QED BY <1>1, <1>2, CallFacts

LEMMA RaiseMalformedStep ==
  ASSUME PhaseInv, NEW a \in Agent, RaiseMalformed(a)
  PROVE  PhaseInv'
<1> PICK e : e = agent[a].run
  OBVIOUS
<1>1. /\ agent[a].step = "measuring" /\ e \in PhaseRun /\ Owns(a, e) /\ charge[e] = "reserved"
      /\ UNCHANGED <<adapter, bound, filed, charge, starts, claimed, receipts>>
      /\ torn' = torn \cup {e}
  BY CallFacts DEF RaiseMalformed, At, OwnerKnows, MayRun, MayFree
<1>2. Return(a)
  BY DEF RaiseMalformed
<1>3. PhaseTypeOK' /\ OnlyTheirs(a, e)
  BY <1>1, <1>2, Returned DEF PhaseInv, PhaseTypeOK, OnlyTheirs
<1>4. ChargeKnows(e)'
  BY <1>1 DEF ChargeKnows, PhaseInv
<1>5. ClaimsApart' /\ ReceiptsKnow'
  BY <1>1 DEF PhaseInv, ClaimsApart, ReceiptsKnow, PlansAgree
<1> QED BY <1>1, <1>2, <1>3, <1>4, <1>5, Returned, OwnersStep

LEMMA ClaimIdentityStep ==
  ASSUME PhaseInv, NEW a \in Agent, ClaimIdentity(a)
  PROVE  PhaseInv'
<1> PICK e, m : e = agent[a].run /\ m = agent[a].measurement
  OBVIOUS
<1>1. /\ agent[a].step = "claim" /\ e \in PhaseRun /\ Owns(a, e) /\ charge[e] = "reserved"
      /\ m \in Measured /\ m # NoMeasurement /\ starts[e] <= 1
      /\ UNCHANGED <<adapter, bound, filed, charge, starts, receipts, torn>>
  BY CallFacts, NoMeasurementAssumption
  DEF ClaimIdentity, At, OwnerKnows, MayRun, MayFree, PhaseInv, ChargeKnows
<1> DEFINE new == [run |-> e, measurement |-> m]
<1>2. \/ /\ Isolated(e, m) /\ Step(a, "usage")
         /\ claimed' = IF adapter = "formal" THEN claimed \cup {new} ELSE claimed
      \/ /\ UNCHANGED claimed
         /\ agent' = [agent EXCEPT ![a].step = "usage", ![a].measurement = NoMeasurement]
  BY DEF ClaimIdentity
<1>3. /\ agent'[a].run = e /\ agent' \in [Agent -> PhaseCall] /\ agent'[a].step = "usage"
      /\ \A b \in Agent \ {a} : agent'[b] = agent[b]
      /\ claimed \subseteq claimed' /\ claimed' \subseteq claimed \cup {new}
      /\ \/ agent'[a].measurement = NoMeasurement
         \/ agent'[a].measurement = m /\ (adapter = "formal" => new \in claimed')
      /\ ClaimsApart'
  <2>1. CASE /\ Isolated(e, m) /\ Step(a, "usage")
             /\ claimed' = IF adapter = "formal" THEN claimed \cup {new} ELSE claimed
    <3>1. ClaimsApart'
      <4>1. ClaimsApart
        BY DEF PhaseInv
      <4>2. new.run = e /\ new.measurement = m
        OBVIOUS
      <4>3. adapter = "formal" => /\ PlansAgree(e, e)
                                  /\ \A c \in claimed : PlansAgree(e, c.run)
        BY <2>1 DEF Isolated, PlansAgree
      <4> HIDE DEF new
      <4>4. \A c, d \in claimed' : c # d => c.measurement # d.measurement /\ c.run # d.run
        BY <2>1, <4>1, <4>2 DEF ClaimsApart, Isolated
      <4>5. adapter = "formal" => \A c, d \in claimed' : PlansAgree(c.run, d.run)
        BY <2>1, <4>1, <4>2, <4>3 DEF ClaimsApart, Isolated
      <4> QED BY <1>1, <4>4, <4>5 DEF ClaimsApart, PlansAgree
    <3>2. /\ agent'[a].step = "usage" /\ agent'[a].run = agent[a].run
          /\ agent'[a].measurement = agent[a].measurement
          /\ agent' \in [Agent -> PhaseCall]
          /\ \A b \in Agent \ {a} : agent'[b] = agent[b]
      BY <2>1, StepIs DEF MayRun
    <3> QED BY <2>1, <3>1, <3>2
  <2>2. CASE /\ UNCHANGED claimed
             /\ agent' = [agent EXCEPT ![a].step = "usage", ![a].measurement = NoMeasurement]
    <3> DEFINE c == [agent[a] EXCEPT !.step = "usage", !.measurement = NoMeasurement]
    <3>1. c \in PhaseCall /\ c.run = e /\ c.step = "usage" /\ c.measurement = NoMeasurement
      BY CallFacts DEF PhaseCall, MayRun
    <3>2. agent' = [agent EXCEPT ![a] = c]
      BY <2>2, CallFacts
    <3>3. ClaimsApart'
      BY <1>1, <2>2 DEF PhaseInv, ClaimsApart, PlansAgree
    <3> QED BY <2>2, <3>1, <3>2, <3>3, CallMoves
  <2> QED BY <1>2, <2>1, <2>2
<1>5. PhaseTypeOK'
  BY <1>1, <1>3 DEF PhaseInv, PhaseTypeOK
<1>7. OwnerKnows(agent[a])' /\ Owns(a, e)'
  BY <1>1, <1>3 DEF OwnerKnows, MayRun, MayFree, Owns
<1> QED BY <1>1, <1>3, <1>5, <1>7, OwnerGoesOn

LEMMA FileUsageStep ==
  ASSUME PhaseInv, NEW a \in Agent, FileUsage(a)
  PROVE  PhaseInv'
<1> PICK e, m : e = agent[a].run /\ m = agent[a].measurement
  OBVIOUS
<1>1. /\ agent[a].step \in {"usage", "file_released"} /\ e \in PhaseRun /\ Owns(a, e)
      /\ charge[e] = "reserved" /\ starts[e] <= 1
      /\ (agent[a].step = "file_released" => starts[e] = 0 /\ m = NoMeasurement)
      /\ (agent[a].step = "usage" /\ m # NoMeasurement /\ adapter = "formal" =>
            [run |-> e, measurement |-> m] \in claimed)
      /\ UNCHANGED <<adapter, bound, charge, starts, claimed, receipts, torn>>
  BY CallFacts DEF FileUsage, OwnerKnows, MayRun, MayFree, PhaseInv, ChargeKnows
<1>2. PICK u, step : /\ filed' = [filed EXCEPT ![e].usage = u] /\ Step(a, step)
                     /\ \/ /\ agent[a].step = "usage" /\ step = "settle"
                           /\ u = IF m = NoMeasurement THEN "failed" ELSE "succeeded"
                        \/ agent[a].step = "file_released" /\ step = "release" /\ u = "released"
  BY <1>1 DEF FileUsage, At, Usage_Of
<1>3. /\ filed' \in [PhaseRun -> [reserve : {"none", "run", "release"},
                                  usage : {"none", "released"} \cup Result]]
      /\ filed'[e].usage = u /\ \A d \in PhaseRun \ {e} : filed'[d].usage = filed[d].usage
  BY <1>1, <1>2 DEF PhaseInv, PhaseTypeOK, Result
<1>4. /\ agent'[a].step = step /\ agent'[a].run = e /\ agent'[a].measurement = m
      /\ agent' \in [Agent -> PhaseCall]
      /\ \A b \in Agent \ {a} : agent'[b] = agent[b]
  BY <1>2, StepIs DEF MayRun, MayFree
<1>5. PhaseTypeOK'
  BY <1>1, <1>3, <1>4 DEF PhaseInv, PhaseTypeOK
<1>7. OwnerKnows(agent[a])' /\ Owns(a, e)'
  BY <1>1, <1>2, <1>3, <1>4 DEF OwnerKnows, MayRun, MayFree, Owns
<1>8. ClaimsApart'
  BY <1>1 DEF PhaseInv, ClaimsApart, PlansAgree
<1> QED BY <1>1, <1>3, <1>4, <1>5, <1>7, <1>8, OwnerGoesOn

LEMMA FinalizeChargeStep ==
  ASSUME PhaseInv, NEW a \in Agent, FinalizeCharge(a)
  PROVE  PhaseInv'
<1> PICK e : e = agent[a].run
  OBVIOUS
<1>1. /\ agent[a].step \in {"settle", "release"} /\ e \in PhaseRun /\ Owns(a, e)
      /\ charge[e] = "reserved"
      /\ UNCHANGED <<adapter, bound, filed, starts, claimed, receipts, torn>>
  BY CallFacts DEF FinalizeCharge, OwnerKnows, MayRun, MayFree
<1>2. PICK c : /\ charge' = [charge EXCEPT ![e] = c]
               /\ \/ agent[a].step = "settle" /\ Step(a, "publish") /\ c = "settled"
                  \/ agent[a].step = "release" /\ Return(a) /\ c = "released"
  BY <1>1 DEF FinalizeCharge, At
<1>3. /\ charge' \in [PhaseRun -> {"absent", "reserved", "settled", "released"}]
      /\ charge'[e] = c /\ \A d \in PhaseRun \ {e} : charge'[d] = charge[d]
  BY <1>1, <1>2 DEF PhaseInv, PhaseTypeOK
<1>4. /\ agent' \in [Agent -> PhaseCall]
      /\ \A b \in Agent \ {a} : agent'[b] = agent[b]
      /\ agent[a].step = "settle" => agent'[a].step = "publish" /\ agent'[a].run = e
                                     /\ agent'[a].measurement = agent[a].measurement
      /\ agent[a].step = "release" => agent'[a].step = "idle" /\ OwnerKnows(agent[a])'
  BY <1>2, StepIs, Returned DEF MayRun
<1>5. PhaseTypeOK' /\ OnlyTheirs(a, e)
  BY <1>1, <1>3, <1>4 DEF PhaseInv, PhaseTypeOK, OnlyTheirs
<1>6. OwnerKnows(agent[a])'
  BY <1>1, <1>2, <1>3, <1>4, CallFacts DEF OwnerKnows, MayRun, MayFree
<1>7. ChargeKnows(e)'
  <2>1. /\ ChargeKnows(e)
        /\ agent[a].step = "release" => starts[e] = 0 /\ filed[e].usage = "released"
        /\ agent[a].step = "settle" => filed[e].usage \in Result
    BY <1>1, CallFacts DEF PhaseInv, OwnerKnows, MayFree, Result
  <2> QED BY <1>1, <1>2, <1>3, <1>4, <2>1 DEF ChargeKnows
<1>8. ClaimsApart'
  BY <1>1 DEF PhaseInv, ClaimsApart, PlansAgree
<1>9. ReceiptsKnow'
  BY <1>1, <1>3 DEF PhaseInv, PhaseTypeOK, ReceiptsKnow
<1>10. agent[a].run = e /\ (agent'[a].step = "idle" \/ agent'[a].run = e)
  BY <1>1, <1>4
<1> QED BY <1>1, <1>5, <1>6, <1>7, <1>8, <1>9, <1>10, OwnersStep

LEMMA PublishStep ==
  ASSUME PhaseInv, NEW a \in Agent, Publish(a)
  PROVE  PhaseInv'
<1> PICK e, m : e = agent[a].run /\ m = agent[a].measurement
  OBVIOUS
<1> DEFINE status == IF m = NoMeasurement THEN "failed" ELSE "succeeded"
           r == [run |-> e, status |-> status, measurement |-> m]
           new == [run |-> e, measurement |-> m]
           counts == IF adapter = "formal" THEN \A s \in receipts : s.run = e => s = r
                     ELSE status = "succeeded" /\ Isolated(e, m)
<1>1. /\ agent[a].step = "publish" /\ e \in PhaseRun /\ Owns(a, e) /\ charge[e] = "settled"
      /\ filed[e].usage = status /\ m \in Measured \cup {NoMeasurement}
      /\ (m # NoMeasurement /\ adapter = "formal" => new \in claimed)
      /\ UNCHANGED <<adapter, bound, filed, charge, starts, torn>>
  BY CallFacts DEF Publish, At, OwnerKnows, MayRun, MayFree, PhaseCall
<1>2. /\ receipts' = IF counts THEN receipts \cup {r} ELSE receipts
      /\ claimed' = IF counts /\ adapter = "scripted" THEN claimed \cup {new} ELSE claimed
      /\ Return(a)
  BY DEF Publish, Usage_Of
<1>3. r.run = e /\ r.status = status /\ r.measurement = m /\ r.status \in Result
      /\ r \in [run : PhaseRun, status : Result, measurement : Measured \cup {NoMeasurement}]
      /\ (status = "succeeded" => m # NoMeasurement)
  BY <1>1 DEF Result
<1>4. adapter = "formal" \/ adapter = "scripted"
  BY DEF PhaseInv, PhaseTypeOK
<1>5. new.run = e /\ new.measurement = m /\ new = [run |-> r.run, measurement |-> r.measurement]
      /\ (m # NoMeasurement => new \in [run : PhaseRun, measurement : Measured])
  BY <1>1
<1>6. (adapter = "formal" => counts <=> \A s \in receipts : s.run = e => s = r)
      /\ (adapter # "formal" => counts <=> status = "succeeded" /\ Isolated(e, m))
  OBVIOUS
<1> HIDE DEF counts, r, new
<1>7. claimed \subseteq claimed' /\ receipts \subseteq receipts' /\ receipts' \subseteq receipts \cup {r}
  BY <1>2
<1>8. PhaseTypeOK' /\ OnlyTheirs(a, e)
  <2>1. claimed' \subseteq [run : PhaseRun, measurement : Measured]
    BY <1>2, <1>3, <1>4, <1>5, <1>6 DEF PhaseInv, PhaseTypeOK
  <2> QED BY <1>1, <1>2, <1>3, <1>7, <2>1, Returned DEF PhaseInv, PhaseTypeOK, OnlyTheirs
<1>9. ChargeKnows(e)'
  <2>1. ChargeKnows(e)
    BY <1>1 DEF PhaseInv
  <2>2. adapter = "formal" => \E s \in receipts' : s.run = e
    BY <1>2, <1>3, <1>6
  <2> QED BY <1>1, <2>1, <2>2 DEF ChargeKnows
<1>10. ClaimsApart'
  <2>1. ClaimsApart
    BY DEF PhaseInv
  <2>2. CASE claimed' = claimed
    BY <1>1, <2>1, <2>2 DEF ClaimsApart, PlansAgree
  <2>3. CASE claimed' = claimed \cup {new} /\ adapter # "formal" /\ Isolated(e, m)
    BY <1>1, <1>5, <2>1, <2>3 DEF ClaimsApart, Isolated
  <2> QED BY <1>2, <1>4, <1>6, <2>2, <2>3
<1>11. ReceiptsKnow'
  <2>1. ReceiptsKnow
    BY DEF PhaseInv
  <2>2. r \in receipts' => (r.status = "succeeded" => new \in claimed')
    <3>1. CASE adapter = "formal"
      BY <1>1, <1>3, <1>7, <3>1
    <3>2. CASE adapter # "formal" /\ counts
      BY <1>2, <1>4, <3>2
    <3>3. CASE ~ counts
      BY <1>2, <1>5, <1>7, <3>3, <2>1 DEF ReceiptsKnow
    <3> QED BY <3>1, <3>2, <3>3
  <2> SUFFICES ASSUME NEW s \in receipts'
               PROVE  /\ charge'[s.run] = "settled" /\ filed'[s.run].usage = s.status
                      /\ s.status = "succeeded" =>
                            [run |-> s.run, measurement |-> s.measurement] \in claimed'
    BY DEF ReceiptsKnow
  <2>3. CASE s = r
    BY <1>1, <1>3, <1>5, <2>2, <2>3
  <2>4. CASE s \in receipts
    BY <1>1, <1>7, <2>1, <2>4 DEF ReceiptsKnow
  <2> QED BY <1>7, <2>3, <2>4
<1>12. agent[a].run = e /\ agent'[a].step = "idle" /\ OwnerKnows(agent[a])'
  BY <1>2, Returned
<1> QED BY <1>1, <1>8, <1>9, <1>10, <1>11, <1>12, OwnersStep

LEMMA AgentsDieStep ==
  ASSUME PhaseInv, NEW S \in SUBSET Agent, AgentsDie(S)
  PROVE  PhaseInv'
<1>1. /\ agent' = [a \in Agent |-> IF a \in S THEN NoCall ELSE agent[a]]
      /\ torn' = torn \cup {agent[a].run : a \in {b \in S : Reserved(b)}}
      /\ UNCHANGED <<adapter, bound, filed, charge, starts>>
  BY DEF AgentsDie
<1>2. /\ adapter = "formal" => UNCHANGED <<claimed, receipts>>
      /\ adapter # "formal" => claimed' = {} /\ receipts' = {} /\ S = Agent
  BY DEF AgentsDie
<1>3. \A a \in Agent : agent'[a] = IF a \in S THEN NoCall ELSE agent[a]
  BY <1>1
<1>4. \A a \in S : Reserved(a) <=> agent[a].step \in MayRun \cup MayFree
  BY DEF Reserved, Before, MayRun, MayFree, PhaseInv, PhaseTypeOK, PhaseCall
<1>5. \A a \in S : \A e \in PhaseRun : agent[a].run = e /\ agent[a].step \in MayRun \cup MayFree => e \in torn'
  BY <1>1, <1>4
<1>6. torn \subseteq torn' /\ torn' \subseteq PhaseRun
  BY <1>1, <1>4, CallFacts DEF PhaseInv, PhaseTypeOK, MayRun, MayFree
<1>7. PhaseTypeOK'
  BY <1>1, <1>2, <1>6, CallFacts DEF PhaseInv, PhaseTypeOK
<1>8. OneOwner'
  BY <1>3 DEF PhaseInv, OneOwner, Owns, NoCall, MayRun, MayFree
<1>9. ASSUME NEW a \in Agent PROVE OwnerKnows(agent[a])'
  <2>1. CASE a \in S
    BY <1>3, <2>1 DEF OwnerKnows, NoCall, MayRun, MayFree
  <2>2. CASE a \notin S
    BY <1>1, <1>2, <1>3, <2>2, CallFacts DEF OwnerKnows
  <2> QED BY <2>1, <2>2
<1>10. ASSUME NEW e \in PhaseRun PROVE ChargeKnows(e)'
  <2>1. ChargeKnows(e)
    BY DEF PhaseInv
  <2>2. \A a \in Agent : Owns(a, e) => e \in torn' \/ Owns(a, e)'
    BY <1>3, <1>5 DEF Owns
  <2>3. \A a \in Agent : agent[a].run = e /\ agent[a].step = "publish" =>
                         e \in torn' \/ (agent'[a].run = e /\ agent'[a].step = "publish")
    BY <1>3, <1>5 DEF MayRun
  <2> QED BY <1>1, <1>2, <1>6, <2>1, <2>2, <2>3 DEF ChargeKnows
<1>11. ClaimsApart'
  BY <1>1, <1>2 DEF PhaseInv, ClaimsApart, PlansAgree
<1>12. ReceiptsKnow'
  BY <1>1, <1>2 DEF PhaseInv, ReceiptsKnow
<1> QED BY <1>7, <1>8, <1>9, <1>10, <1>11, <1>12 DEF PhaseInv

LEMMA PhaseStep == PhaseInv /\ [PhaseNext]_pevars => PhaseInv'
<1> SUFFICES ASSUME PhaseInv, [PhaseNext]_pevars PROVE PhaseInv'
  OBVIOUS
<1>1. CASE UNCHANGED pevars
  BY <1>1 DEF pevars, PhaseInv, PhaseTypeOK, OneOwner, Owns, OwnerKnows, ChargeKnows, ClaimsApart,
              PlansAgree, ReceiptsKnow
<1> QED
  BY <1>1, BeginSteps, FileReserveStep, ReservePhaseStep, StartHarnessStep, FinishHarnessStep,
     RaiseMalformedStep, ClaimIdentityStep, FileUsageStep, FinalizeChargeStep, PublishStep,
     AgentsDieStep DEF PhaseNext

\* For any number of calls, requests, identities and plans: receipts are backed
\* and reservations true, whichever calls overlap and whenever they die (run,
\* release_unstarted, claim, publish).
THEOREM PhasesAreAccounted == PhaseSpec => []PhaseAccounted
<1>1. ASSUME PhaseInv PROVE PhaseAccounted
  <2> USE <1>1 DEF PhaseInv
  <2>1. ASSUME NEW r \in receipts
        PROVE  /\ charge[r.run] = "settled" /\ filed[r.run].usage = r.status
               /\ \A s \in receipts :
                     r # s /\ r.status = "succeeded" /\ s.status = "succeeded" =>
                        r.measurement # s.measurement /\ r.run # s.run
    <3> SUFFICES ASSUME NEW s \in receipts, r # s, r.status = "succeeded", s.status = "succeeded"
                 PROVE  r.measurement # s.measurement /\ r.run # s.run
      BY DEF ReceiptsKnow
    <3> DEFINE c == [run |-> r.run, measurement |-> r.measurement]
               d == [run |-> s.run, measurement |-> s.measurement]
    <3>1. c \in claimed /\ d \in claimed
      BY DEF ReceiptsKnow
    <3>2. /\ r = [run |-> r.run, status |-> r.status, measurement |-> r.measurement]
          /\ s = [run |-> s.run, status |-> s.status, measurement |-> s.measurement]
      BY DEF PhaseTypeOK
    <3>3. c # d
      BY <3>2
    <3> QED BY <3>1, <3>3 DEF ClaimsApart
  <2>2. adapter = "formal" =>
          \A r, s \in receipts : r.status = "succeeded" /\ s.status = "succeeded" =>
             PlansAgree(r.run, s.run)
    BY DEF ReceiptsKnow, ClaimsApart
  <2>3. ReceiptsBacked
    BY <2>1, <2>2 DEF ReceiptsBacked
  <2>4. ReservationTrue
    BY DEF ReservationTrue, ChargeKnows, PhaseTypeOK, Owns, Result
  <2> QED BY <2>3, <2>4 DEF PhaseAccounted
<1>2. PhaseSpec => []PhaseInv
  BY PhaseInitially, PhaseStep, PTL DEF PhaseSpec
<1> QED BY <1>1, <1>2, PTL

-----------------------------------------------------------------------------
(* Performance recovery.                                                   *)

JobState == {"queued", "running", "succeeded", "failed", "cancelled"}

RetryTypeOK ==
    /\ perf \in [state : JobState, attempts : Nat, max : Nat, error : Faults \cup {"none"},
                 result : BOOLEAN]
    /\ audit \in Seq(Faults) /\ ends \in Seq([error : Faults, attempt : Nat])

\* What a failed job leaves behind, and how far a job that may run can go.
RetryInv ==
    /\ RetryTypeOK /\ RetriesAccounted
    /\ perf.state = "queued" => perf.attempts < perf.max
    /\ perf.state = "failed" => ends[Len(ends)] = [error |-> perf.error, attempt |-> perf.attempts]

LEMMA KnownFaults ==
  Known \in Seq(Faults) /\ Len(Known) = 4 /\ DOMAIN Known = 1 .. 4
<1>1. Len(Known) = 4 /\ DOMAIN Known = 1 .. 4
  BY DEF Known
<1>2. \A i \in 1 .. 4 : Known[i] \in Faults
  BY <1>1 DEF Faults, ToSet
<1>3. Known = [i \in 1 .. 4 |-> Known[i]]
  BY DEF Known
<1>4. Known \in [1 .. 4 -> Faults]
  BY <1>2, <1>3
<1> QED BY <1>1, <1>4, SeqDef

LEMMA FirstOnes ==
  ASSUME NEW T, NEW k, NEW m \in Nat, \A i \in 1 .. m : k[i] \in T
  PROVE  /\ SubSeq(k, 1, m) \in Seq(T) /\ Len(SubSeq(k, 1, m)) = m
         /\ \A i \in 1 .. m : SubSeq(k, 1, m)[i] = k[i]
<1>1. 1 \in Int /\ m \in Int
  OBVIOUS
<1>2. /\ SubSeq(k, 1, m) \in Seq(T)
      /\ Len(SubSeq(k, 1, m)) = IF 1 <= m THEN m - 1 + 1 ELSE 0
      /\ \A i \in 1 .. m - 1 + 1 : SubSeq(k, 1, m)[i] = k[1 + i - 1]
  BY <1>1, SubSeqProperties
<1> QED BY <1>2

\* One more of the known faults, in their order.
LEMMA NextFault ==
  ASSUME NEW n \in 1 .. 4, audit = SubSeq(Known, 1, n - 1)
  PROVE  /\ Len(audit) = n - 1
         /\ Append(audit, Known[n]) = SubSeq(Known, 1, n)
         /\ Len(Append(audit, Known[n])) = n
<1> DEFINE K == Known  T == Faults
<1>1. K \in Seq(T) /\ Len(K) = 4 /\ K[n] \in T
  <2>1. K \in Seq(T) /\ Len(K) = 4
    BY KnownFaults
  <2> HIDE DEF K, T
  <2>2. n \in 1 .. Len(K)
    BY <2>1
  <2> QED BY <2>1, <2>2, ElementOfSeq
<1> HIDE DEF K, T
<1> DEFINE s == SubSeq(K, 1, n - 1)  t == SubSeq(K, 1, n)
<1>2. /\ s \in Seq(T) /\ Len(s) = n - 1 /\ \A i \in 1 .. n - 1 : s[i] = K[i]
      /\ t \in Seq(T) /\ Len(t) = n /\ \A i \in 1 .. n : t[i] = K[i]
  <2>1. \A m \in 0 .. 4 :
           /\ SubSeq(K, 1, m) \in Seq(T) /\ Len(SubSeq(K, 1, m)) = m
           /\ \A i \in 1 .. m : SubSeq(K, 1, m)[i] = K[i]
    <3> SUFFICES ASSUME NEW m \in 0 .. 4
                 PROVE /\ SubSeq(K, 1, m) \in Seq(T) /\ Len(SubSeq(K, 1, m)) = m
                       /\ \A i \in 1 .. m : SubSeq(K, 1, m)[i] = K[i]
      OBVIOUS
    <3>1. \A i \in 1 .. m : K[i] \in T
      <4> SUFFICES ASSUME NEW i \in 1 .. m PROVE K[i] \in T
        OBVIOUS
      <4>1. i \in 1 .. Len(K)
        BY <1>1
      <4> QED BY <1>1, <4>1, ElementOfSeq
    <3>2. m \in Nat
      OBVIOUS
    <3> HIDE DEF s, t
    <3> QED BY <3>1, <3>2, FirstOnes
  <2>2. n - 1 \in 0 .. 4 /\ n \in 0 .. 4
    OBVIOUS
  <2> QED BY <2>1, <2>2
<1> HIDE DEF s, t
<1>3. Append(s, K[n]) \in Seq(T) /\ Len(Append(s, K[n])) = n
      /\ \A i \in 1 .. n : Append(s, K[n])[i] = K[i]
  BY <1>1, <1>2
<1>4. Append(s, K[n]) = t
  BY <1>2, <1>3, SeqEqual
<1> QED BY <1>2, <1>3, <1>4 DEF s, t, K

LEMMA RetryInitially == RetryInit => RetryInv
<1> SUFFICES ASSUME RetryInit PROVE RetryInv
  OBVIOUS
<1>1. RetryTypeOK
  BY DEF RetryInit, RetryTypeOK, JobState
<1>2. audit = <<>> /\ ends = <<>> /\ Len(audit) = 0 /\ Len(ends) = 0
  BY DEF RetryInit
<1>3. SubSeq(Known, 1, 0) = <<>>
  BY KnownFaults
<1>4. RetriesAccounted
  BY <1>2, <1>3 DEF RetryInit, RetriesAccounted
<1> QED BY <1>1, <1>4 DEF RetryInv, RetryInit

LEMMA RetryStep == RetryInv /\ [RetryNext]_retryVars => RetryInv'
<1> SUFFICES ASSUME RetryInv, [RetryNext]_retryVars PROVE RetryInv'
  OBVIOUS
<1> PICK k : k = Len(audit)
  OBVIOUS
<1>0. /\ perf \in [state : JobState, attempts : Nat, max : Nat, error : Faults \cup {"none"},
                   result : BOOLEAN]
      /\ audit \in Seq(Faults) /\ ends \in Seq([error : Faults, attempt : Nat])
      /\ k \in Nat /\ Len(ends) \in Nat
      /\ perf.max = 3 + k /\ perf.attempts <= perf.max
      /\ RetriesAccounted /\ RetryTypeOK
  BY DEF RetryInv, RetryTypeOK, RetriesAccounted
\* A job that stays within its attempts and ends in no new failure.
<1>quiet. ASSUME UNCHANGED <<audit, ends>>, perf'.max = perf.max,
                 perf' \in [state : JobState, attempts : Nat, max : Nat,
                            error : Faults \cup {"none"}, result : BOOLEAN],
                 perf'.attempts <= perf.max, perf'.attempts >= perf.attempts,
                 perf.state = "failed" <=> perf'.state = "failed",
                 perf'.state = "failed" => perf' = perf /\ matter' = matter,
                 perf'.state \in {"queued", "running"} => matter' = Live,
                 perf'.state = "queued" => perf'.attempts < perf'.max
          PROVE  RetryInv'
  <2>1. RetryTypeOK'
    BY <1>quiet, <1>0 DEF RetryTypeOK
  <2>2. RetriesAccounted'
    BY <1>quiet, <1>0 DEF RetriesAccounted
  <2> QED BY <1>quiet, <2>1, <2>2 DEF RetryInv
<1>1. CASE ClaimPerformance
  <2>1. /\ perf.state = "queued" /\ UNCHANGED <<matter, audit, ends>>
        /\ perf' = [perf EXCEPT !.state = "running", !.attempts = @ + 1]
        /\ perf.attempts < perf.max /\ matter = Live
    BY <1>1, <1>0 DEF ClaimPerformance, RetryInv, RetriesAccounted
  <2>2. /\ perf'.state = "running" /\ perf'.attempts = perf.attempts + 1 /\ perf'.max = perf.max
        /\ perf' \in [state : JobState, attempts : Nat, max : Nat,
                      error : Faults \cup {"none"}, result : BOOLEAN]
    <3> PICK m \in Nat : m = perf.attempts + 1
      BY <1>0
    <3>1. perf' = [perf EXCEPT !.state = "running", !.attempts = m]
      BY <2>1
    <3>2. /\ perf'.state = "running" /\ perf'.attempts = m /\ perf'.max = perf.max
          /\ perf' \in [state : JobState, attempts : Nat, max : Nat,
                        error : Faults \cup {"none"}, result : BOOLEAN]
      BY <3>1, <1>0 DEF JobState
    <3> QED BY <3>2
  <2> QED BY <2>1, <2>2, <1>0, <1>quiet
<1>2. CASE CompletePerformance
  <2>1. /\ perf.state = "running" /\ UNCHANGED <<matter, audit, ends>>
        /\ perf' = [perf EXCEPT !.state = "succeeded", !.result = TRUE]
    BY <1>2 DEF CompletePerformance
  <2>2. /\ perf'.state = "succeeded" /\ perf'.attempts = perf.attempts /\ perf'.max = perf.max
        /\ perf' \in [state : JobState, attempts : Nat, max : Nat,
                      error : Faults \cup {"none"}, result : BOOLEAN]
    BY <2>1, <1>0 DEF JobState
  <2> QED BY <2>1, <2>2, <1>0, <1>quiet
<1>3. CASE CancelPerformance
  <2>1. /\ perf.state \in {"queued", "running"} /\ UNCHANGED <<matter, audit, ends>>
        /\ perf' = [perf EXCEPT !.state = "cancelled", !.error = "other"]
    BY <1>3 DEF CancelPerformance
  <2>2. /\ perf'.state = "cancelled" /\ perf'.attempts = perf.attempts /\ perf'.max = perf.max
        /\ perf' \in [state : JobState, attempts : Nat, max : Nat,
                      error : Faults \cup {"none"}, result : BOOLEAN]
    BY <2>1, <1>0 DEF JobState, Faults
  <2> QED BY <2>1, <2>2, <1>0, <1>quiet
<1>4. CASE Judge
  BY <1>4, <1>0, <1>quiet DEF Judge
<1>5. CASE OtherJob \/ ReportClean \/ UNCHANGED retryVars
  BY <1>5, <1>0, <1>quiet DEF OtherJob, ReportClean, retryVars, RetryInv, RetriesAccounted
<1>6. ASSUME NEW e \in Faults, NEW retryable \in BOOLEAN, FailPerformance(e, retryable) PROVE RetryInv'
  <2>1. perf.state = "running" /\ UNCHANGED audit
    BY <1>6 DEF FailPerformance
  <2>2. CASE retryable /\ perf.attempts < perf.max
    <3>1. /\ perf' = [perf EXCEPT !.state = "queued", !.error = e] /\ UNCHANGED <<matter, ends>>
          /\ matter = Live
      BY <1>6, <2>2, <1>0 DEF FailPerformance, RetriesAccounted
    <3>2. /\ perf'.state = "queued" /\ perf'.attempts = perf.attempts /\ perf'.max = perf.max
          /\ perf' \in [state : JobState, attempts : Nat, max : Nat,
                        error : Faults \cup {"none"}, result : BOOLEAN]
      BY <3>1, <1>0 DEF JobState
    <3> QED BY <2>1, <2>2, <3>1, <3>2, <1>0, <1>quiet
  <2>3. CASE ~ (retryable /\ perf.attempts < perf.max)
    <3> PICK x : x = [error |-> e, attempt |-> perf.attempts]
      OBVIOUS
    <3>1. /\ perf' = [perf EXCEPT !.state = "failed", !.error = e] /\ matter' = Rejected
          /\ ends' = Append(ends, x)
      BY <1>6, <2>3 DEF FailPerformance
    <3>2. /\ perf'.state = "failed" /\ perf'.attempts = perf.attempts /\ perf'.max = perf.max
          /\ perf'.error = e
          /\ perf' \in [state : JobState, attempts : Nat, max : Nat,
                        error : Faults \cup {"none"}, result : BOOLEAN]
      BY <3>1, <1>0 DEF JobState
    <3>3. x \in [error : Faults, attempt : Nat] /\ Len(ends) = k
      BY <1>0, <2>1 DEF RetriesAccounted
    <3>4. /\ ends' \in Seq([error : Faults, attempt : Nat]) /\ Len(ends') = k + 1
          /\ ends'[k + 1] = x /\ \A i \in 1 .. k : ends'[i] = ends[i]
      <4> DEFINE T == [error : Faults, attempt : Nat]
      <4>1. ends \in Seq(T) /\ x \in T
        BY <1>0, <3>3
      <4> HIDE DEF T
      <4>2. Append(ends, x) \in Seq(T) /\ Len(Append(ends, x)) = k + 1
            /\ Append(ends, x)[k + 1] = x /\ \A i \in 1 .. k : Append(ends, x)[i] = ends[i]
        BY <4>1, <3>3, <1>0
      <4> QED BY <4>2, <3>1 DEF T
    <3>5. RetriesAccounted'
      BY <2>1, <3>1, <3>2, <3>3, <3>4, <1>0 DEF RetriesAccounted
    <3> QED BY <2>1, <3>1, <3>2, <3>4, <3>5, <1>0 DEF RetryInv, RetryTypeOK
  <2> QED BY <2>2, <2>3
<1>7. ASSUME NEW n \in DOMAIN Known, Authorize(n) PROVE RetryInv'
  <2>1. n \in 1 .. 4
    BY KnownFaults
  <2>2. /\ perf.state = "failed" /\ perf.error = Known[n] /\ perf.attempts = 2 + n /\ perf.max = 2 + n
        /\ perf' = [perf EXCEPT !.state = "queued", !.max = 3 + n] /\ matter' = Live
        /\ audit' = Append(audit, Known[n]) /\ UNCHANGED <<card, ends>>
    BY <1>7 DEF Authorize, Earned
  <2>3. k = n - 1 /\ audit = SubSeq(Known, 1, n - 1)
    BY <2>1, <2>2, <1>0 DEF RetriesAccounted
  <2>4. /\ perf'.state = "queued" /\ perf'.attempts = 2 + n /\ perf'.max = 3 + n
        /\ perf' \in [state : JobState, attempts : Nat, max : Nat,
                      error : Faults \cup {"none"}, result : BOOLEAN]
    <3> PICK m \in Nat, a \in Nat : m = 3 + n /\ a = 2 + n
      BY <2>1
    <3>1. perf' = [perf EXCEPT !.state = "queued", !.max = m] /\ perf.attempts = a
      BY <2>2
    <3>2. /\ perf'.state = "queued" /\ perf'.attempts = a /\ perf'.max = m
          /\ perf' \in [state : JobState, attempts : Nat, max : Nat,
                        error : Faults \cup {"none"}, result : BOOLEAN]
      BY <3>1, <1>0 DEF JobState
    <3> QED BY <3>2
  <2>5. audit' = SubSeq(Known, 1, n) /\ Len(audit') = n /\ Len(audit) = n - 1
    BY <2>1, <2>2, <2>3, NextFault
  <2>6. Known[n] \in Faults
    BY <2>1, KnownFaults, ElementOfSeq
  <2>7. audit' \in Seq(Faults) /\ audit'[n] = Known[n]
        /\ \A i \in 1 .. n - 1 : audit'[i] = audit[i]
    <3> PICK f \in Faults : f = Known[n]
      BY <2>6
    <3>1. audit' = Append(audit, f)
      BY <2>2
    <3> DEFINE S == Faults
    <3>2. audit \in Seq(S) /\ f \in S /\ Len(audit) = n - 1
      BY <1>0, <2>5
    <3> HIDE DEF S
    <3>3. /\ Append(audit, f) \in Seq(S) /\ Append(audit, f)[Len(audit) + 1] = f
          /\ \A i \in 1 .. Len(audit) : Append(audit, f)[i] = audit[i]
      BY <3>2, AppendProperties
    <3>4. Len(audit) + 1 = n
      BY <3>2, <2>1
    <3> QED BY <3>1, <3>2, <3>3, <3>4 DEF S
  <2>8. Len(ends) = n /\ ends[n] = [error |-> Known[n], attempt |-> 2 + n]
    BY <2>1, <2>2, <2>3, <1>0 DEF RetriesAccounted, RetryInv
  <2>9. \A i \in 1 .. n : ends[i] = [error |-> audit'[i], attempt |-> 2 + i]
    <3> SUFFICES ASSUME NEW i \in 1 .. n PROVE ends[i] = [error |-> audit'[i], attempt |-> 2 + i]
      OBVIOUS
    <3>1. CASE i = n BY <3>1, <2>7, <2>8
    <3>2. CASE i # n
      <4>1. i \in 1 .. n - 1 /\ i \in 1 .. Len(audit)
        BY <3>2, <2>1, <2>5
      <4> QED BY <4>1, <2>7, <1>0 DEF RetriesAccounted
    <3> QED BY <3>1, <3>2
  <2>10. RetriesAccounted'
    BY <2>1, <2>2, <2>4, <2>5, <2>8, <2>9 DEF RetriesAccounted
  <2> QED BY <2>1, <2>2, <2>4, <2>7, <2>10, <1>0 DEF RetryInv, RetryTypeOK
<1> QED BY <1>1, <1>2, <1>3, <1>4, <1>5, <1>6, <1>7 DEF RetryNext

\* From any token of the device and whatever the queue does in between: the
\* retries of a performance job come in their order, each once, after its own
\* fault and used up before the next (authorize_*_retry).
THEOREM RetriesAreAccounted == RetrySpec => []RetriesAccounted
<1>1. RetryInv => RetriesAccounted
  BY DEF RetryInv
<1> QED BY <1>1, RetryInitially, RetryStep, PTL DEF RetrySpec
=============================================================================
